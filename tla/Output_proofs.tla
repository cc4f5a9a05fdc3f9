---------------------------- MODULE Output_proofs ----------------------------
(***************************************************************************)
(* What a run of the grader and its output promise for every number of     *)
(* students, tests and requirements, every weight and every set of         *)
(* descriptions: OwnExecutable, SummaryAddsUp and SilentCode from the       *)
(* invariant GradingDiscipline, LabelsTellApart and LevelsNested from      *)
(* invariants about the lines that have been written.                      *)
(***************************************************************************)
EXTENDS Output, SequenceTheorems, FiniteSetTheorems, Induction, TLAPS

----------------------------------------------------------------------------
(* Sums and counts *)

\* Sums is what its definition says, for every sequence of integers.
LEMMA SumsDef ==
  ASSUME NEW s \in Seq(Int)
  PROVE  /\ Sums(s) \in [0..Len(s) -> Int] /\ Sums(s)[0] = 0
         /\ \A k \in 1..Len(s) : Sums(s)[k] = Sums(s)[k - 1] + s[k]
<1> DEFINE N == Len(s)
           step == [p \in Int \X (1..N) |-> p[1] + s[p[2]]]
           sum == Sums(s)
<1>1. N \in Nat /\ \A k \in 1..N : s[k] \in Int
  BY LenProperties, ElementOfSeq
<1> HIDE DEF N
<1>2. PICK f : IsRecursive(f, Int, N, 0, step)
  <2>1. step \in [Int \X (1..N) -> Int]
    BY <1>1
  <2>2. Recursible(Int, N, 0, step)
    BY <1>1, <2>1 DEF Recursible
  <2> QED
    BY <2>2, Recursion
<1>3. f = [k \in 0..N |-> IF k = 0 THEN 0 ELSE f[k - 1] + s[k]]
  <2>1. ASSUME NEW k \in 1..N PROVE f[k] = f[k - 1] + s[k]
    <3>1. f[k - 1] \in Int
      BY <1>1, <1>2 DEF IsRecursive
    <3> QED
      BY <1>2, <3>1 DEF IsRecursive
  <2>2. \A k \in 0..N : f[k] = IF k = 0 THEN 0 ELSE f[k - 1] + s[k]
    BY <1>1, <1>2, <2>1 DEF IsRecursive
  <2> QED
    BY <1>2, <2>2 DEF IsRecursive
<1>4. sum = CHOOSE g : g = [k \in 0..N |-> IF k = 0 THEN 0 ELSE g[k - 1] + s[k]]
  BY DEF Sums, N
<1> HIDE DEF sum
<1>5. sum = [k \in 0..N |-> IF k = 0 THEN 0 ELSE sum[k - 1] + s[k]]
  BY <1>3, <1>4, Zenon
<1> DEFINE T == {k \in 0..N : sum[k] \in Int}
<1>6. 0 \in T
  BY <1>1, <1>5
<1>7. \A k \in 1..N : k - 1 \in T => k \in T
  BY <1>1, <1>5
<1>8. \A k \in 0..N : k \in T
  <2> HIDE DEF T
  <2> QED
    BY <1>1, <1>6, <1>7, BoundedInduction
<1>9. sum \in [0..N -> Int]
  BY <1>5, <1>8
<1>10. sum[0] = 0 /\ \A k \in 1..N : sum[k] = sum[k - 1] + s[k]
  BY <1>1, <1>5
<1> QED
  BY <1>9, <1>10 DEF sum, N

\* Two sequences that begin alike have the same partial sums there.
LEMMA SumsPrefix ==
  ASSUME NEW s \in Seq(Int), NEW t \in Seq(Int), Len(s) <= Len(t),
         \A i \in 1..Len(s) : s[i] = t[i]
  PROVE  \A k \in 0..Len(s) : Sums(s)[k] = Sums(t)[k]
<1> DEFINE T == {k \in 0..Len(s) : Sums(s)[k] = Sums(t)[k]}
<1>1. Len(s) \in Nat /\ Len(t) \in Nat
  BY LenProperties
<1>2. 0 \in T
  BY <1>1, SumsDef
<1>3. \A k \in 1..Len(s) : k - 1 \in T => k \in T
  <2> SUFFICES ASSUME NEW k \in 1..Len(s), Sums(s)[k - 1] = Sums(t)[k - 1]
               PROVE  Sums(s)[k] = Sums(t)[k]
    BY <1>1
  <2>1. k \in 1..Len(t)
    BY <1>1
  <2> QED
    BY <2>1, SumsDef
<1>4. \A k \in 0..Len(s) : k \in T
  <2> HIDE DEF T
  <2> QED
    BY <1>1, <1>2, <1>3, BoundedInduction
<1> QED
  BY <1>4

\* A sum is an integer, that of nothing is zero.
LEMMA SumType ==
  /\ \A s \in Seq(Int) : SumOf(s) \in Int
  /\ \A s \in Seq(Int) : Len(s) = 0 => SumOf(s) = 0
<1> SUFFICES ASSUME NEW s \in Seq(Int) PROVE SumOf(s) \in Int /\ (Len(s) = 0 => SumOf(s) = 0)
  OBVIOUS
<1>1. Len(s) \in Nat
  BY LenProperties
<1> QED
  BY <1>1, SumsDef DEF SumOf

\* Appending a number adds it.
LEMMA SumAppend ==
  ASSUME NEW s \in Seq(Int), NEW x \in Int
  PROVE  SumOf(Append(s, x)) = SumOf(s) + x
<1> DEFINE t == Append(s, x)
<1>1. Len(s) \in Nat
  BY LenProperties
<1>2. t \in Seq(Int) /\ Len(t) = Len(s) + 1 /\ t[Len(s) + 1] = x
      /\ \A i \in 1..Len(s) : t[i] = s[i]
  BY <1>1
<1> HIDE DEF t
<1>3. Sums(t)[Len(t)] = Sums(t)[Len(s)] + x
  <2>1. Len(t) \in 1..Len(t) /\ Len(t) - 1 = Len(s)
    BY <1>1, <1>2
  <2> QED
    BY <1>2, <2>1, SumsDef
<1>4. Sums(t)[Len(s)] = Sums(s)[Len(s)]
  <2>1. Len(s) \in 0..Len(s) /\ Len(s) <= Len(t)
    BY <1>1, <1>2
  <2> QED
    BY <1>2, <2>1, SumsPrefix
<1> QED
  BY <1>3, <1>4 DEF SumOf, t

\* The sum of differences is the difference of the sums.
LEMMA SumMinus ==
  ASSUME NEW s \in Seq(Int), NEW t \in Seq(Int), NEW u \in Seq(Int),
         Len(s) = Len(t), Len(u) = Len(t),
         \A i \in 1..Len(t) : u[i] = s[i] - t[i]
  PROVE  SumOf(u) = SumOf(s) - SumOf(t)
<1> DEFINE T == {k \in 0..Len(t) : Sums(u)[k] = Sums(s)[k] - Sums(t)[k]}
<1>1. Len(t) \in Nat
  BY LenProperties
<1>2. 0 \in T
  BY <1>1, SumsDef
<1>3. \A k \in 1..Len(t) : k - 1 \in T => k \in T
  <2> SUFFICES ASSUME NEW k \in 1..Len(t), Sums(u)[k - 1] = Sums(s)[k - 1] - Sums(t)[k - 1]
               PROVE  Sums(u)[k] = Sums(s)[k] - Sums(t)[k]
    BY <1>1
  <2>1. /\ Sums(u)[k] = Sums(u)[k - 1] + u[k]
        /\ Sums(s)[k] = Sums(s)[k - 1] + s[k]
        /\ Sums(t)[k] = Sums(t)[k - 1] + t[k]
    BY SumsDef
  <2>2. k - 1 \in 0..Len(t)
    BY <1>1
  <2>3. /\ Sums(s)[k - 1] \in Int /\ Sums(t)[k - 1] \in Int
        /\ s[k] \in Int /\ t[k] \in Int /\ u[k] = s[k] - t[k]
    BY <2>2, SumsDef, ElementOfSeq
  <2> QED
    BY <2>1, <2>3
<1>4. \A k \in 0..Len(t) : k \in T
  <2> HIDE DEF T
  <2> QED
    BY <1>1, <1>2, <1>3, BoundedInduction
<1>5. Len(t) \in T
  BY <1>1, <1>4
<1> QED
  BY <1>5 DEF SumOf

\* How many of a sequence of answers are "yes": at most all, and all only if every one.
LEMMA CountYes ==
  ASSUME NEW s \in Seq(BOOLEAN)
  PROVE  /\ Cardinality({i \in DOMAIN s : s[i]}) \in Nat
         /\ Cardinality({i \in DOMAIN s : s[i]}) <= Len(s)
         /\ Cardinality({i \in DOMAIN s : s[i]}) = Len(s) <=> \A i \in DOMAIN s : s[i]
<1> DEFINE S == {i \in DOMAIN s : s[i]}
<1>1. Len(s) \in Nat /\ DOMAIN s = 1..Len(s)
  BY LenProperties
<1>2. IsFiniteSet(1..Len(s)) /\ Cardinality(1..Len(s)) = Len(s)
  BY <1>1, FS_Interval
<1>3. S \in SUBSET (1..Len(s))
  BY <1>1
<1>4. IsFiniteSet(S) /\ Cardinality(S) <= Len(s) /\ (Cardinality(S) = Len(s) => S = 1..Len(s))
  BY <1>2, <1>3, FS_Subset
<1>5. Cardinality(S) \in Nat
  BY <1>4, FS_CardinalityType
<1>6. S = 1..Len(s) <=> \A i \in DOMAIN s : s[i]
  BY <1>1
<1> QED
  BY <1>2, <1>4, <1>5, <1>6

----------------------------------------------------------------------------
(* Grading *)

\* The actions of Grading, without what the serializers write.
GradingNext ==
  \/ StudentWithoutPath \/ BeginStudent \/ SkipTest \/ BeginTest \/ EndTests \/ EndStudent
  \/ BodyThrows \/ Finish
  \/ \E b \in BOOLEAN : Require(b) \/ EndTest(b)

\* A step of Output is a step of Grading, or one in which nothing of Grading changes.
LEMMA OutputSteps ==
  ASSUME [Next]_<<vars, outputVars>>
  PROVE  GradingNext \/ UNCHANGED vars
BY DEF Next, ShowStudent, ShowTest, ShowAssignmentResult, ShowStudentEnd, ShowTestResult,
       ShowRequirement, GradingNext

\* What finalize() makes of a test whose body is at its end.
LEMMA FinalizeType ==
  ASSUME InputsOK, StateOK, Progress, pc = "body", NEW error \in BOOLEAN
  PROVE  /\ Finalize(error) \in TestResults
         /\ Finalize(error).num_passed <= Finalize(error).num_total
         /\ Finalize(error).num_total = Len(reqs)
         /\ Passed(Finalize(error)) <=> ~error /\ \A i \in DOMAIN reqs : reqs[i]
<1> DEFINE n == Cardinality({i \in DOMAIN reqs : reqs[i]})
<1>1. reqs \in Seq(BOOLEAN) /\ Len(reqs) \in Nat
  BY LenProperties DEF StateOK
<1>2. n \in Nat /\ n <= Len(reqs) /\ (n = Len(reqs) <=> \A i \in DOMAIN reqs : reqs[i])
  BY <1>1, CountYes
<1>3. tests[ti].weight \in Weights
  <2>1. tests \in Seq(Tests) /\ ti \in 1..Len(tests)
    BY LenProperties DEF InputsOK, StateOK, Progress
  <2>2. tests[ti] \in Tests
    BY <2>1, ElementOfSeq
  <2> QED
    BY <2>2 DEF Tests
<1>4. Finalize(error) = [num_passed |-> n, num_total |-> Len(reqs),
                         weight |-> tests[ti].weight, error |-> error]
  BY DEF Finalize
<1> HIDE DEF n
<1> QED
  BY <1>1, <1>2, <1>3, <1>4 DEF TestResults, Passed

\* What one more TestResult changes.
LEMMA OneMoreResult ==
  ASSUME NEW rs \in Seq(TestResults), NEW r \in TestResults
  PROVE  /\ AllPassed(Append(rs, r)) <=> AllPassed(rs) /\ Passed(r)
         /\ SumOf([i \in DOMAIN Append(rs, r) |-> Append(rs, r)[i].num_total]) =
              SumOf([i \in DOMAIN rs |-> rs[i].num_total]) + r.num_total
<1> DEFINE new == Append(rs, r)
           tot == [i \in DOMAIN rs |-> rs[i].num_total]
           newtot == [i \in DOMAIN new |-> new[i].num_total]
<1>1. Len(rs) \in Nat /\ DOMAIN rs = 1..Len(rs) /\ \A i \in 1..Len(rs) : rs[i] \in TestResults
  BY LenProperties, ElementOfSeq
<1>2. /\ DOMAIN new = 1..Len(rs)+1 /\ new[Len(rs) + 1] = r
      /\ \A i \in 1..Len(rs) : new[i] = rs[i]
  BY <1>1
<1>3. AllPassed(new) <=> AllPassed(rs) /\ Passed(r)
  <2>1. \A i \in 1..Len(rs)+1 : i \in 1..Len(rs) \/ i = Len(rs) + 1
    BY <1>1
  <2>2. Len(rs) + 1 \in 1..Len(rs)+1 /\ \A i \in 1..Len(rs) : i \in 1..Len(rs)+1
    BY <1>1
  <2> HIDE DEF new
  <2> QED
    BY <1>1, <1>2, <2>1, <2>2 DEF AllPassed
<1>4. tot \in Seq(Int) /\ Len(tot) = Len(rs) /\ r.num_total \in Int
  <2>1. \A i \in 1..Len(rs) : rs[i].num_total \in Int
    BY <1>1 DEF TestResults
  <2> QED
    BY <1>1, <2>1 DEF TestResults
<1>5. newtot = Append(tot, r.num_total)
  <2>1. /\ newtot \in Seq(Int) /\ Len(newtot) = Len(rs) + 1
        /\ \A i \in 1..Len(rs)+1 : newtot[i] = new[i].num_total
    <3>1. \A i \in 1..Len(rs)+1 : new[i] \in TestResults
      BY <1>1, <1>2
    <3>2. \A i \in 1..Len(rs)+1 : new[i].num_total \in Int
      BY <3>1 DEF TestResults
    <3> HIDE DEF new
    <3> QED
      BY <1>1, <1>2, <3>2
  <2>2. /\ Append(tot, r.num_total) \in Seq(Int) /\ Len(Append(tot, r.num_total)) = Len(rs) + 1
        /\ Append(tot, r.num_total)[Len(rs) + 1] = r.num_total
        /\ \A i \in 1..Len(rs) : Append(tot, r.num_total)[i] = rs[i].num_total
    <3>1. \A i \in 1..Len(rs) : tot[i] = rs[i].num_total
      BY <1>1
    <3> HIDE DEF tot
    <3> QED
      BY <1>1, <1>4, <3>1
  <2>3. \A i \in 1..Len(rs)+1 : newtot[i] = Append(tot, r.num_total)[i]
    <3> SUFFICES ASSUME NEW i \in 1..Len(rs)+1 PROVE newtot[i] = Append(tot, r.num_total)[i]
      OBVIOUS
    <3>0. i = Len(rs) + 1 \/ i \in 1..Len(rs)
      BY <1>1
    <3> HIDE DEF newtot, tot, new
    <3>1. CASE i = Len(rs) + 1
      BY <1>2, <2>1, <2>2, <3>1
    <3>2. CASE i \in 1..Len(rs)
      BY <1>2, <2>1, <2>2, <3>2
    <3> QED
      BY <3>0, <3>1, <3>2
  <2> HIDE DEF newtot, tot, new
  <2> QED
    BY <2>1, <2>2, <2>3, SeqEqual
<1>6. SumOf(newtot) = SumOf(tot) + r.num_total
  <2> HIDE DEF newtot, tot
  <2> QED
    BY <1>4, <1>5, SumAppend
<1> QED
  BY <1>3, <1>6

\* Bounded sequences are sequences.
LEMMA BoundedSeqs ==
  ASSUME NEW S, NEW n \in Nat, NEW s \in BoundedSeq(S, n)
  PROVE  s \in Seq(S)
<1>1. PICK m \in 0..n : s \in [1..m -> S]
  BY DEF BoundedSeq, SeqOf
<1> QED
  BY <1>1, SeqDef

\* A run begins in the invariant.
LEMMA InitDiscipline ==
  ASSUME Init
  PROVE  GradingDiscipline
<1> USE DEF Init
<1>1. students \in Seq(Paths)
  <2>1. <<"ok">> \in Seq(Paths) /\ <<"bad">> \in Seq(Paths)
    BY DEF Paths
  <2>2. students \in {<<"ok">>, <<"bad">>} \/ students \in BoundedSeq(Paths, MaxStudents)
    OBVIOUS
  <2> QED
    BY <2>1, <2>2, BoundsAssumption, BoundedSeqs
<1>2. tests \in Seq(Tests)
  BY BoundsAssumption, BoundedSeqs
<1>3. mode \in {"student", "professor"} /\ silent \in BOOLEAN /\ single \in BOOLEAN
  <2>1. CASE mode = "student"
    BY <2>1
  <2>2. CASE mode # "student"
    BY <2>2
  <2> QED
    BY <2>1, <2>2
<1>4. mode = "student" => single
  OBVIOUS
<1>5. single => \A i \in DOMAIN students : students[i] # "none"
  <2>1. \A i \in DOMAIN <<"ok">> : <<"ok">>[i] # "none"
    OBVIOUS
  <2>2. \A i \in DOMAIN <<"bad">> : <<"bad">>[i] # "none"
    OBVIOUS
  <2>3. single => students = <<"ok">> \/ students = <<"bad">>
    OBVIOUS
  <2> QED
    BY <2>1, <2>2, <2>3
<1>6. InputsOK
  BY <1>1, <1>2, <1>3, <1>4, <1>5 DEF InputsOK
<1>7. StateOK
  <2>1. Len(students) \in Nat /\ Len(tests) \in Nat
    BY <1>1, <1>2, LenProperties
  <2>2. failing \in SUBSET (1..si)
    OBVIOUS
  <2> QED
    BY <2>1, <2>2 DEF StateOK
<1>8. Progress
  BY DEF Progress
<1>9. Tally
  BY DEF Tally
<1>10. SilentCode
  BY DEF SilentCode, Graded
<1> QED
  BY <1>6, <1>7, <1>8, <1>9, <1>10 DEF GradingDiscipline

\* The choices a run begins with stay.
LEMMA InputsKept ==
  ASSUME GradingNext
  PROVE  UNCHANGED inputs
BY DEF GradingNext, StudentWithoutPath, BeginStudent, SkipTest, BeginTest, EndTests,
       EndStudent, BodyThrows, Finish, Require, EndTest

\* They stay legal, and every variable keeps its range.
LEMMA StateKept ==
  ASSUME InputsOK, StateOK, Progress, GradingNext
  PROVE  InputsOK' /\ StateOK'
<1>1. Len(students) \in Nat /\ Len(tests) \in Nat /\ si \in Nat /\ ti \in Nat
  BY LenProperties DEF InputsOK, StateOK
<1>2. UNCHANGED inputs
  BY InputsKept
<1>3. InputsOK'
  BY <1>2 DEF InputsOK, inputs
<1> SUFFICES StateOK'
  BY <1>3
<1>4. students' = students /\ tests' = tests
  BY <1>2 DEF inputs
<1> USE <1>1, <1>4 DEF StateOK, Exit
<1>5. CASE StudentWithoutPath
  BY <1>5 DEF StudentWithoutPath, Passed, AllPassed
<1>6. CASE BeginStudent
  BY <1>6 DEF BeginStudent
<1>7. CASE SkipTest
  BY <1>7 DEF SkipTest
<1>8. CASE BeginTest
  BY <1>8 DEF BeginTest
<1>9. CASE EndTests
  BY <1>9 DEF EndTests, runnerVars
<1>10. CASE EndStudent
  BY <1>10 DEF EndStudent, AllPassed, Passed
<1>11. CASE BodyThrows
  BY <1>11 DEF BodyThrows, runnerVars, Progress
<1>12. CASE Finish
  BY <1>12 DEF Finish, runnerVars
<1>13. ASSUME NEW b \in BOOLEAN, Require(b) PROVE StateOK'
  BY <1>13 DEF Require, Progress
<1>14. ASSUME NEW b \in BOOLEAN, EndTest(b) PROVE StateOK'
  <2>1. Finalize(b) \in TestResults /\ Finalize(b).num_total \in Nat
    BY <1>14, FinalizeType DEF EndTest, TestResults
  <2> HIDE DEF Finalize
  <2> QED
    BY <1>14, <2>1 DEF EndTest, Progress
<1> QED
  BY <1>5, <1>6, <1>7, <1>8, <1>9, <1>10, <1>11, <1>12, <1>13, <1>14 DEF GradingNext


\* Students are graded in order, each on the executable found for him.
LEMMA ProgressKept ==
  ASSUME InputsOK, StateOK, Progress, Tally, GradingNext
  PROVE  Progress'
<1>1. /\ Len(students) \in Nat /\ Len(graded) \in Nat /\ si \in Nat /\ ti \in Nat
      /\ failing \subseteq 1..si /\ DOMAIN graded = 1..Len(graded) /\ graded \in Seq(BOOLEAN)
  BY LenProperties DEF InputsOK, StateOK
<1>2. \A b : /\ Len(Append(graded, b)) = Len(graded) + 1
             /\ DOMAIN Append(graded, b) = 1..Len(graded) + 1
             /\ Append(graded, b)[Len(graded) + 1] = b
             /\ \A i \in 1..Len(graded) : Append(graded, b)[i] = graded[i]
  BY <1>1
<1>3. CASE StudentWithoutPath
  <2>1. graded' = Append(graded, TRUE) /\ si' = si + 1 /\ pc' = "students" /\ failing' = failing
    <3>1. AllPassed(<<>>) = TRUE
      BY DEF AllPassed
    <3> QED
      BY <1>3, <3>1 DEF StudentWithoutPath
  <2>2. Len(graded) = si /\ \A i \in DOMAIN graded : graded[i] <=> i \notin failing
    BY <1>3 DEF StudentWithoutPath, Progress
  <2>3. Len(graded') = si' /\ DOMAIN graded' = 1..si' /\ graded'[si'] = TRUE /\ si' \notin failing'
    BY <1>1, <1>2, <2>1, <2>2
  <2>4. \A i \in 1..si : graded'[i] = graded[i]
    BY <1>2, <2>1, <2>2
  <2>5. \A i \in DOMAIN graded' : graded'[i] <=> i \notin failing'
    <3>1. \A i \in DOMAIN graded' : i = si' \/ i \in 1..si
      BY <1>1, <2>1, <2>3
    <3> QED
      BY <1>1, <2>1, <2>2, <2>3, <2>4, <3>1
  <2> QED
    BY <2>1, <2>3, <2>5 DEF Progress
<1>4. CASE EndStudent
  <2>1. graded' = Append(graded, AllPassed(results)) /\ si' = si /\ pc' = "students" /\ failing' = failing
    BY <1>4 DEF EndStudent
  <2>2. Len(graded) + 1 = si /\ \A i \in DOMAIN graded : graded[i] <=> i \notin failing
    BY <1>1, <1>4 DEF EndStudent, Progress
  <2>3. AllPassed(results) <=> si \notin failing
    BY <1>4 DEF EndStudent, Tally
  <2>4. Len(graded') = si' /\ DOMAIN graded' = 1..si'
        /\ (graded'[si'] <=> si' \notin failing')
    BY <1>1, <1>2, <2>1, <2>2, <2>3
  <2>5. \A i \in DOMAIN graded : graded'[i] = graded[i]
    BY <1>1, <1>2, <2>1, <2>2
  <2>6. \A i \in DOMAIN graded' : graded'[i] <=> i \notin failing'
    <3>1. \A i \in DOMAIN graded' : i = si' \/ i \in DOMAIN graded
      BY <1>1, <2>1, <2>2, <2>4
    <3> QED
      BY <2>1, <2>2, <2>4, <2>5, <3>1
  <2> QED
    BY <2>1, <2>4, <2>6 DEF Progress
<1>5. CASE BeginStudent
  BY <1>1, <1>5 DEF BeginStudent, Progress, inputs
<1>6. CASE SkipTest
  BY <1>6 DEF SkipTest, Progress, inputs
<1>7. CASE BeginTest
  <2>1. /\ pc = "tests" /\ ti' = ti + 1 /\ students' = students /\ si' = si /\ exec_path_' = exec_path_
        /\ graded' = graded /\ failing' = failing
        /\ pc' = "exit" \/ (pc' = "body" /\ students[exec_path_] = "ok")
    BY <1>7 DEF BeginTest, inputs, Exit
  <2>2. \A i \in DOMAIN graded' : graded'[i] <=> i \notin failing'
    BY <2>1 DEF Progress
  <2>3. pc' = "body" => ti' > 0 /\ students'[si'] = "ok"
    BY <1>1, <2>1 DEF Progress
  <2> QED
    BY <2>1, <2>2, <2>3 DEF Progress
<1>8. CASE EndTests
  BY <1>8 DEF EndTests, Progress, inputs, runnerVars, Exit
<1>9. CASE BodyThrows
  BY <1>1, <1>9 DEF BodyThrows, Progress, inputs, runnerVars, Exit
<1>10. CASE Finish
  BY <1>10 DEF Finish, Progress, inputs, runnerVars, Exit
<1>11. ASSUME NEW b \in BOOLEAN, Require(b) PROVE Progress'
  BY <1>1, <1>11 DEF Require, Progress, inputs
<1>12. ASSUME NEW b \in BOOLEAN, EndTest(b) PROVE Progress'
  BY <1>1, <1>12 DEF EndTest, Progress, inputs
<1> QED
  BY <1>3, <1>4, <1>5, <1>6, <1>7, <1>8, <1>9, <1>10, <1>11, <1>12 DEF GradingNext

\* The totals of the student at hand follow his tests and requirements.
LEMMA TallyKept ==
  ASSUME InputsOK, StateOK, Progress, Tally, GradingNext
  PROVE  Tally'
<1>1. /\ si \in Nat /\ failing \subseteq 1..si /\ num_total \in Nat /\ checked \in Nat
      /\ Len(reqs) \in Nat /\ reqs \in Seq(BOOLEAN) /\ DOMAIN reqs = 1..Len(reqs)
      /\ results \in Seq(TestResults) /\ Len(results) \in Nat /\ DOMAIN results = 1..Len(results)
  BY LenProperties DEF StateOK
<1>2. CASE BeginStudent
  <2>1. /\ pc' = "tests" /\ results' = <<>> /\ num_total' = 0 /\ checked' = 0
        /\ si' = si + 1 /\ failing' = failing
    BY <1>2 DEF BeginStudent
  <2>2. si' \notin failing'
    BY <1>1, <2>1
  <2>3. SumOf([i \in DOMAIN results' |-> results'[i].num_total]) = 0
    <3>1. [i \in DOMAIN <<>> |-> <<>>[i].num_total] = <<>>
      OBVIOUS
    <3>2. <<>> \in Seq(Int) /\ Len(<<>>) = 0
      OBVIOUS
    <3> QED
      BY <2>1, <3>1, <3>2, SumType
  <2> QED
    BY <2>1, <2>2, <2>3 DEF Tally, AllPassed
<1>3. CASE BeginTest
  <2>1. /\ pc = "tests" /\ reqs' = <<>> /\ results' = results /\ num_total' = num_total
        /\ checked' = checked /\ si' = si /\ failing' = failing /\ pc' \in {"body", "exit"}
    BY <1>3 DEF BeginTest, Exit
  <2>2. DOMAIN reqs' = {} /\ Len(reqs') = 0
    BY <2>1
  <2> QED
    BY <1>1, <2>1, <2>2 DEF Tally, AllPassed, Passed
<1>4. ASSUME NEW b \in BOOLEAN, Require(b) PROVE Tally'
  <2>1. /\ pc = "body" /\ pc' = "body" /\ reqs' = Append(reqs, b) /\ checked' = checked + 1
        /\ failing' = (IF b THEN failing ELSE failing \cup {si}) /\ si' = si
        /\ results' = results /\ num_total' = num_total
    BY <1>4 DEF Require
  <2>2. /\ Len(reqs') = Len(reqs) + 1 /\ DOMAIN reqs' = 1..Len(reqs)+1
        /\ reqs'[Len(reqs) + 1] = b /\ \A i \in 1..Len(reqs) : reqs'[i] = reqs[i]
    BY <1>1, <2>1
  <2>3. \A i \in DOMAIN results' : results'[i].num_passed <= results'[i].num_total
    BY <2>1 DEF Tally
  <2>4. /\ num_total' = SumOf([i \in DOMAIN results' |-> results'[i].num_total])
        /\ checked' = num_total' + Len(reqs')
    BY <1>1, <2>1, <2>2 DEF Tally
  <2>5. si' \notin failing' <=> AllPassed(results') /\ \A i \in DOMAIN reqs' : reqs'[i]
    <3>1. si \notin failing <=> AllPassed(results) /\ \A i \in DOMAIN reqs : reqs[i]
      BY <2>1 DEF Tally
    <3>2. (\A i \in DOMAIN reqs' : reqs'[i]) <=> b /\ \A i \in DOMAIN reqs : reqs[i]
      <4>1. \A i \in 1..Len(reqs)+1 : i \in 1..Len(reqs) \/ i = Len(reqs) + 1
        BY <1>1
      <4>2. Len(reqs) + 1 \in 1..Len(reqs)+1 /\ \A i \in 1..Len(reqs) : i \in 1..Len(reqs)+1
        BY <1>1
      <4> QED
        BY <1>1, <2>2, <4>1, <4>2
    <3>3. AllPassed(results') <=> AllPassed(results)
      BY <2>1
    <3>4. si' \notin failing' <=> b /\ si \notin failing
      BY <2>1
    <3> QED
      BY <3>1, <3>2, <3>3, <3>4
  <2> QED
    BY <2>1, <2>3, <2>4, <2>5 DEF Tally
<1>5. ASSUME NEW b \in BOOLEAN, EndTest(b) PROVE Tally'
  <2> DEFINE r == Finalize(b)
  <2>1. /\ pc = "body" /\ pc' = "tests" /\ results' = Append(results, r)
        /\ num_total' = num_total + r.num_total /\ si' = si /\ checked' = checked
        /\ failing' = (IF b THEN failing \cup {si} ELSE failing)
    BY <1>5 DEF EndTest
  <2>2. /\ r \in TestResults /\ r.num_passed <= r.num_total /\ r.num_total = Len(reqs)
        /\ Passed(r) <=> ~b /\ \A i \in DOMAIN reqs : reqs[i]
    BY <2>1, FinalizeType
  <2> HIDE DEF r
  <2>3. /\ AllPassed(results') <=> AllPassed(results) /\ Passed(r)
        /\ SumOf([i \in DOMAIN results' |-> results'[i].num_total]) =
             SumOf([i \in DOMAIN results |-> results[i].num_total]) + r.num_total
    BY <1>1, <2>1, <2>2, OneMoreResult
  <2>4. \A i \in DOMAIN results' : results'[i].num_passed <= results'[i].num_total
    <3>1. \A i \in DOMAIN results' : results'[i] = r \/ (i \in DOMAIN results /\ results'[i] = results[i])
      BY <1>1, <2>1, <2>2, ElementOfSeq
    <3> QED
      BY <2>2, <3>1 DEF Tally
  <2>5. num_total' = SumOf([i \in DOMAIN results' |-> results'[i].num_total])
    BY <2>1, <2>3 DEF Tally
  <2>6. checked' = num_total' + 0
    <3>1. checked = num_total + Len(reqs)
      BY <2>1 DEF Tally
    <3> QED
      BY <1>1, <2>1, <2>2, <3>1
  <2>7. si' \notin failing' <=> AllPassed(results')
    <3>1. si \notin failing <=> AllPassed(results) /\ \A i \in DOMAIN reqs : reqs[i]
      BY <2>1 DEF Tally
    <3>2. si' \notin failing' <=> ~b /\ si \notin failing
      BY <2>1
    <3> QED
      BY <2>2, <2>3, <3>1, <3>2
  <2> QED
    BY <2>1, <2>4, <2>5, <2>6, <2>7 DEF Tally
<1>6. CASE StudentWithoutPath
  BY <1>6 DEF StudentWithoutPath, Tally
<1>7. CASE SkipTest
  BY <1>7 DEF SkipTest, Tally, AllPassed, Passed
<1>8. CASE EndTests
  BY <1>8 DEF EndTests, Tally, runnerVars, Exit, AllPassed, Passed
<1>9. CASE EndStudent
  BY <1>9 DEF EndStudent, Tally
<1>10. CASE BodyThrows
  BY <1>10 DEF BodyThrows, Tally, runnerVars, Exit
<1>11. CASE Finish
  BY <1>11 DEF Finish, Tally, runnerVars, Exit
<1> QED
  BY <1>2, <1>3, <1>4, <1>5, <1>6, <1>7, <1>8, <1>9, <1>10, <1>11 DEF GradingNext


\* A run that ends by itself returns the code SilentCode names.
LEMMA SilentCodeKept ==
  ASSUME StateOK, Progress, SilentCode, GradingNext
  PROVE  SilentCode'
<1>1. /\ si \in Nat /\ failing \subseteq 1..si /\ Len(graded) \in Nat /\ DOMAIN graded = 1..Len(graded)
  BY LenProperties DEF StateOK
<1>2. CASE Finish
  <2>1. /\ code' = ReturnCode /\ failing' = failing /\ silent' = silent /\ single' = single
        /\ pc = "students"
    BY <1>2 DEF Finish, Exit, inputs
  <2>2. {i \in DOMAIN graded : ~graded[i]} = failing
    BY <1>1, <2>1 DEF Progress
  <2>3. ~single => ReturnCode = IF silent THEN Cardinality(failing) % CodeMod ELSE 0
    <3>1. StudentsFailed = Cardinality(failing)
      BY <2>2 DEF StudentsFailed
    <3>2. CASE silent
      BY <3>1, <3>2 DEF ReturnCode
    <3>3. CASE ~silent
      BY <3>3 DEF ReturnCode
    <3> QED
      BY <3>2, <3>3
  <2> QED
    BY <2>1, <2>3 DEF SilentCode, Graded
<1>3. CASE BeginTest \/ EndTests \/ BodyThrows
  <2>1. pc \in {"tests", "body"} /\ graded' = graded /\ si' = si
    BY <1>3 DEF BeginTest, EndTests, BodyThrows, runnerVars
  <2>2. Len(graded) = si - 1
    BY <2>1 DEF Progress
  <2>3. Len(graded') # si'
    BY <1>1, <2>1, <2>2
  <2> QED
    BY <2>3 DEF SilentCode, Graded
<1>4. CASE StudentWithoutPath \/ BeginStudent \/ SkipTest \/ EndStudent \/ \E b \in BOOLEAN : Require(b) \/ EndTest(b)
  <2>1. pc' # "exit"
    BY <1>4 DEF StudentWithoutPath, BeginStudent, SkipTest, EndStudent, Require, EndTest
  <2> QED
    BY <2>1 DEF SilentCode, Graded
<1> QED
  BY <1>2, <1>3, <1>4 DEF GradingNext

\* Every step of a run keeps the invariant.
LEMMA DisciplineKept ==
  ASSUME GradingDiscipline, [Next]_<<vars, outputVars>>
  PROVE  GradingDiscipline'
<1>1. CASE GradingNext
  BY <1>1, StateKept, ProgressKept, TallyKept, SilentCodeKept DEF GradingDiscipline
<1>2. CASE UNCHANGED vars
  BY <1>2 DEF vars, inputs, runnerVars, GradingDiscipline, InputsOK, StateOK, Progress, Tally,
              SilentCode, Graded, AllPassed, Passed
<1> QED
  BY <1>1, <1>2, OutputSteps

\* What is known of students, tests, requirements and counts in every state of a run.
THEOREM DisciplineInvariant == Spec => []GradingDiscipline
<1>1. OutputInit => GradingDiscipline
  BY InitDiscipline DEF OutputInit
<1>2. GradingDiscipline /\ [Next]_<<vars, outputVars>> => GradingDiscipline'
  BY DisciplineKept
<1> QED
  BY <1>1, <1>2, PTL DEF Spec

\* Every test runs the executable found for the student it is counted for, however many
\* students there are and whichever of them have none.
THEOREM OwnExecutableCorrect == Spec => []OwnExecutable
<1>1. GradingDiscipline => OwnExecutable
  BY DEF GradingDiscipline, Progress, OwnExecutable
<1> QED
  BY <1>1, DisciplineInvariant, PTL

\* The exit status of a run of a class: at Silent, the number of students for whom something
\* failed, as far as a status goes.
THEOREM SilentCodeCorrect == Spec => []SilentCode
<1>1. GradingDiscipline => SilentCode
  BY DEF GradingDiscipline
<1> QED
  BY <1>1, DisciplineInvariant, PTL

\* The failed requirements of the results are the ones counted less the ones passed.
LEMMA FailedIsRest ==
  ASSUME results \in Seq(TestResults)
  PROVE  /\ RequirementsFailed \in Int
         /\ RequirementsFailed = SumOf([i \in DOMAIN results |-> results[i].num_total])
                                 - SumOf([i \in DOMAIN results |-> results[i].num_passed])
<1> DEFINE total == [i \in DOMAIN results |-> results[i].num_total]
           passed == [i \in DOMAIN results |-> results[i].num_passed]
           failed == [i \in DOMAIN results |-> Failed(results[i])]
<1>1. Len(results) \in Nat /\ DOMAIN results = 1..Len(results)
  BY LenProperties
<1>2. \A i \in 1..Len(results) : results[i].num_total \in Int /\ results[i].num_passed \in Int
  <2>1. \A i \in 1..Len(results) : results[i] \in TestResults
    BY ElementOfSeq
  <2> QED
    BY <2>1 DEF TestResults
<1>3. /\ total \in Seq(Int) /\ passed \in Seq(Int) /\ failed \in Seq(Int)
      /\ Len(total) = Len(results) /\ Len(passed) = Len(results) /\ Len(failed) = Len(results)
  BY <1>1, <1>2 DEF Failed
<1>4. \A i \in 1..Len(results) : failed[i] = total[i] - passed[i]
  BY <1>1, <1>2 DEF Failed
<1> HIDE DEF total, passed, failed
<1>5. SumOf(failed) = SumOf(total) - SumOf(passed) /\ SumOf(failed) \in Int
  BY <1>3, <1>4, SumMinus, SumType
<1> QED
  BY <1>5 DEF total, passed, failed, RequirementsFailed

\* Passing everything gives the full score, whatever the weights.
LEMMA FullScore ==
  ASSUME AllPassed(results)
  PROVE  PassedWeighted(results) = TotalWeighted(results)
<1>1. \A i \in DOMAIN results : results[i].num_passed = results[i].num_total
  BY DEF AllPassed, Passed
<1>2. [i \in DOMAIN results |-> results[i].num_passed * results[i].weight] =
      [i \in DOMAIN results |-> results[i].num_total * results[i].weight]
  BY <1>1
<1> QED
  BY <1>2 DEF PassedWeighted, TotalWeighted

\* The summary of a student accounts for every requirement that was checked, and agrees
\* with whether anything failed, whatever the tests are and wherever they break off.
THEOREM SummaryAddsUpCorrect == Spec => []SummaryAddsUp
<1>1. ASSUME GradingDiscipline PROVE SummaryAddsUp
  <2> SUFFICES ASSUME pc = "summary"
               PROVE  /\ num_total = checked
                      /\ RequirementsPassed + RequirementsFailed = checked
                      /\ RequirementsPassed = SumOf([i \in DOMAIN results |-> results[i].num_passed])
                      /\ AllPassed(results) <=> si \notin failing
                      /\ AllPassed(results) => PassedWeighted(results) = TotalWeighted(results)
    BY DEF SummaryAddsUp
  <2>1. results \in Seq(TestResults) /\ num_total \in Nat
    BY <1>1 DEF GradingDiscipline, StateOK
  <2>2. /\ num_total = SumOf([i \in DOMAIN results |-> results[i].num_total])
        /\ checked = num_total + 0
        /\ AllPassed(results) <=> si \notin failing
    BY <1>1 DEF GradingDiscipline, Tally
  <2>3. PICK passed : passed = SumOf([i \in DOMAIN results |-> results[i].num_passed])
    OBVIOUS
  <2>4. /\ passed \in Int /\ RequirementsFailed \in Int /\ RequirementsFailed = num_total - passed
    <3>1. passed \in Int
      <4> DEFINE p == [i \in DOMAIN results |-> results[i].num_passed]
      <4>1. Len(results) \in Nat /\ DOMAIN results = 1..Len(results)
        BY <2>1, LenProperties
      <4>2. \A i \in 1..Len(results) : results[i] \in TestResults
        BY <2>1, ElementOfSeq
      <4>3. p \in Seq(Int)
        BY <4>1, <4>2 DEF TestResults
      <4> HIDE DEF p
      <4>4. SumOf(p) \in Int
        BY <4>3, SumType
      <4> QED
        BY <2>3, <4>4 DEF p
    <3> QED
      BY <2>1, <2>2, <2>3, <3>1, FailedIsRest
  <2>5. num_total - (num_total - passed) = passed
    BY <2>1, <2>4
  <2>6. RequirementsPassed = passed
    BY <2>4, <2>5 DEF RequirementsPassed
  <2>7. RequirementsPassed + RequirementsFailed = checked /\ num_total = checked
    BY <2>1, <2>2, <2>4, <2>6
  <2> QED
    BY <2>2, <2>3, <2>6, <2>7, FullScore
<1> QED
  BY <1>1, DisciplineInvariant, PTL


----------------------------------------------------------------------------
(* Lines *)

\* What is appended to lines stands after them.
LEMMA ConcatLines ==
  ASSUME NEW s, NEW t, IsLines(s), IsLines(t)
  PROVE  /\ IsLines(s \o t) /\ Range(s \o t) = Range(s) \cup Range(t)
         /\ Len(s) \in Nat /\ Len(t) \in Nat /\ Len(s \o t) = Len(s) + Len(t)
         /\ DOMAIN s = 1..Len(s) /\ DOMAIN t = 1..Len(t) /\ DOMAIN (s \o t) = 1..Len(s)+Len(t)
         /\ \A i \in 1..Len(s) : (s \o t)[i] = s[i]
         /\ \A i \in 1..Len(t) : (s \o t)[Len(s) + i] = t[i]
<1> DEFINE S == Range(s) \cup Range(t)
           u == s \o t
<1>1. s \in Seq(S) /\ t \in Seq(S)
  <2>1. s \in Seq(Range(s)) /\ t \in Seq(Range(t)) /\ Range(s) \subseteq S /\ Range(t) \subseteq S
    BY DEF IsLines
  <2> HIDE DEF S
  <2> QED
    BY <2>1, SeqMonotonic
<1>2. /\ Len(s) \in Nat /\ Len(t) \in Nat /\ DOMAIN s = 1..Len(s) /\ DOMAIN t = 1..Len(t)
      /\ \A i \in 1..Len(s) : s[i] \in S
      /\ \A i \in 1..Len(t) : t[i] \in S
  <2> HIDE DEF S
  <2> QED
    BY <1>1, LenProperties, ElementOfSeq
<1>3. /\ u \in Seq(S) /\ Len(u) = Len(s) + Len(t)
      /\ \A i \in 1..Len(s)+Len(t) : u[i] = IF i <= Len(s) THEN s[i] ELSE t[i - Len(s)]
  <2> HIDE DEF S
  <2> QED
    BY <1>1, ConcatProperties
<1>4. DOMAIN u = 1..Len(s)+Len(t)
  <2> HIDE DEF S, u
  <2> QED
    BY <1>3, LenProperties
<1>5. \A i \in 1..Len(s) : i \in DOMAIN u /\ u[i] = s[i]
  <2> HIDE DEF S, u
  <2> QED
    BY <1>2, <1>3, <1>4
<1>6. \A i \in 1..Len(t) : Len(s) + i \in DOMAIN u /\ u[Len(s) + i] = t[i]
  <2> SUFFICES ASSUME NEW i \in 1..Len(t) PROVE Len(s) + i \in DOMAIN u /\ u[Len(s) + i] = t[i]
    OBVIOUS
  <2>1. Len(s) + i \in 1..Len(s)+Len(t) /\ ~(Len(s) + i <= Len(s)) /\ Len(s) + i - Len(s) = i
    BY <1>2
  <2> HIDE DEF S, u
  <2> QED
    BY <1>3, <1>4, <2>1
<1>7. \A i \in DOMAIN u : i \in 1..Len(s) \/ \E k \in 1..Len(t) : i = Len(s) + k
  <2> SUFFICES ASSUME NEW i \in 1..Len(s)+Len(t), i \notin 1..Len(s)
               PROVE  \E k \in 1..Len(t) : i = Len(s) + k
    BY <1>4
  <2>1. i - Len(s) \in 1..Len(t) /\ i = Len(s) + (i - Len(s))
    BY <1>2
  <2> QED
    BY <2>1
<1>8. Range(u) = S
  <2> HIDE DEF u
  <2>1. Range(u) \subseteq S
    <3> SUFFICES ASSUME NEW i \in DOMAIN u PROVE u[i] \in S
      BY DEF Range
    <3>1. CASE i \in 1..Len(s)
      BY <1>2, <1>5, <3>1
    <3>2. ASSUME NEW k \in 1..Len(t), i = Len(s) + k PROVE u[i] \in S
      BY <1>2, <1>6, <3>2
    <3> HIDE DEF S
    <3> QED
      BY <1>7, <3>1, <3>2
  <2>2. S \subseteq Range(u)
    BY <1>2, <1>5, <1>6 DEF Range
  <2> QED
    BY <2>1, <2>2
<1>9. IsLines(u)
  <2> HIDE DEF u, S
  <2> QED
    BY <1>3, <1>8 DEF IsLines
<1> QED
  BY <1>2, <1>3, <1>4, <1>5, <1>6, <1>8, <1>9

\* No line, and one line.
LEMMA FewLines ==
  /\ IsLines(<<>>) /\ Range(<<>>) = {}
  /\ \A l : /\ IsLines(<<l>>) /\ Range(<<l>>) = {l} /\ Len(<<l>>) = 1 /\ DOMAIN <<l>> = 1..1
            /\ <<l>>[1] = l
  /\ \A c, l : IsLines(Line(c, l)) /\ Range(Line(c, l)) = {x \in {l} : c}
<1>1. IsLines(<<>>) /\ Range(<<>>) = {}
  BY DEF IsLines, Range
<1>2. ASSUME NEW l
      PROVE  /\ Range(<<l>>) = {l} /\ Len(<<l>>) = 1 /\ DOMAIN <<l>> = 1..1
             /\ <<l>>[1] = l
  BY DEF Range
<1>3. ASSUME NEW l PROVE IsLines(<<l>>)
  <2>1. <<l>> \in Seq({l})
    OBVIOUS
  <2> QED
    BY <1>2, <2>1 DEF IsLines
<1> QED
  BY <1>1, <1>2, <1>3 DEF Line

\* The requirement lines with a description, and those of an added line.
LEMMA AlikeConcat ==
  ASSUME NEW s, NEW t, IsLines(s), IsLines(t)
  PROVE  /\ \A i \in 1..Len(s) : \A d : Alike(s \o t, i - 1, d) = Alike(s, i - 1, d)
         /\ \A d : Alike(s \o t, Len(s), d) = Alike(s, Len(s), d)
         /\ \A d : Alike(s, Len(s), d) \subseteq 1..Len(s)
<1> DEFINE u == s \o t
<1>1. /\ Len(s) \in Nat /\ Len(t) \in Nat /\ DOMAIN s = 1..Len(s) /\ DOMAIN u = 1..Len(s)+Len(t)
      /\ \A i \in 1..Len(s) : u[i] = s[i]
  BY ConcatLines
<1>2. \A j \in DOMAIN s : j \in DOMAIN u /\ u[j] = s[j]
  BY <1>1
<1> HIDE DEF u
<1>3. ASSUME NEW n \in 0..Len(s), NEW d PROVE Alike(u, n, d) = Alike(s, n, d)
  <2>1. ASSUME NEW j \in DOMAIN u, j <= n PROVE j \in DOMAIN s
    BY <1>1, <2>1
  <2> QED
    BY <1>2, <2>1 DEF Alike, Where
<1>4. \A i \in 1..Len(s) : i - 1 \in 0..Len(s)
  BY <1>1
<1>5. Len(s) \in 0..Len(s)
  BY <1>1
<1>6. \A d : Alike(s, Len(s), d) \subseteq 1..Len(s)
  BY <1>1 DEF Alike, Where
<1> QED
  BY <1>3, <1>4, <1>5, <1>6 DEF u

\* Lines of other kinds leave the numbers as they are.
LEMMA NumberedOthers ==
  ASSUME NEW s, NEW t, NEW count, IsLines(s), IsLines(t), Numbered(s, count),
         \A l \in Range(t) : l.says # "requirement"
  PROVE  Numbered(s \o t, count)
<1> DEFINE u == s \o t
<1>1. /\ Len(s) \in Nat /\ Len(t) \in Nat /\ Len(u) = Len(s) + Len(t)
      /\ DOMAIN s = 1..Len(s) /\ DOMAIN t = 1..Len(t) /\ DOMAIN u = 1..Len(s)+Len(t)
      /\ \A i \in 1..Len(s) : u[i] = s[i]
      /\ \A i \in 1..Len(t) : u[Len(s) + i] = t[i]
  BY ConcatLines
<1>2. /\ \A i \in 1..Len(s) : \A d : Alike(u, i - 1, d) = Alike(s, i - 1, d)
      /\ \A d : Alike(u, Len(s), d) = Alike(s, Len(s), d)
  BY AlikeConcat
<1> HIDE DEF u
<1>3. ASSUME NEW i \in 1..Len(s)+Len(t), i \notin 1..Len(s) PROVE u[i].says # "requirement"
  <2>1. i - Len(s) \in 1..Len(t) /\ i = Len(s) + (i - Len(s))
    BY <1>1, <1>3
  <2>2. u[i] = t[i - Len(s)] /\ t[i - Len(s)] \in Range(t)
    BY <1>1, <2>1 DEF Range
  <2> QED
    BY <2>2
<1>4. Where(u, "requirement") = Where(s, "requirement")
  BY <1>1, <1>3 DEF Where
<1>5. \A i \in Where(s, "requirement") : i \in 1..Len(s) /\ u[i] = s[i]
  BY <1>1 DEF Where
<1>6. \A i \in Where(u, "requirement") :
        /\ u[i].description \in Descriptions
        /\ u[i].cnt = Cardinality(Alike(u, i - 1, u[i].description))
  BY <1>2, <1>4, <1>5 DEF Numbered
<1>7. ASSUME NEW d PROVE Alike(u, Len(u), d) = Alike(u, Len(s), d)
  <2>1. \A j \in Where(u, "requirement") : j <= Len(u) /\ j <= Len(s)
    BY <1>1, <1>4, <1>5
  <2> QED
    BY <2>1 DEF Alike
<1> QED
  BY <1>2, <1>6, <1>7 DEF Numbered, u

\* Without a requirement line every number is zero.
LEMMA FreshNumbers ==
  ASSUME NEW t, IsLines(t), \A l \in Range(t) : l.says # "requirement"
  PROVE  Numbered(t, [d \in Descriptions |-> 0])
<1>1. Where(t, "requirement") = {}
  BY DEF Where, Range
<1>2. \A d : Alike(t, Len(t), d) = {}
  BY <1>1 DEF Alike
<1>3. Cardinality({}) = 0
  BY FS_EmptySet
<1> QED
  BY <1>1, <1>2, <1>3 DEF Numbered

\* A requirement line gets the number its description is at.
LEMMA NumberedNext ==
  ASSUME NEW s, NEW count, NEW line, IsLines(s), Numbered(s, count),
         line.says = "requirement", line.description \in Descriptions,
         line.cnt = count[line.description]
  PROVE  Numbered(s \o <<line>>, [count EXCEPT ![line.description] = @ + 1])
<1> DEFINE u == s \o <<line>>
           n == Len(s)
           next == [count EXCEPT ![line.description] = @ + 1]
<1>1. /\ n \in Nat /\ Len(u) = n + 1 /\ DOMAIN s = 1..n /\ DOMAIN u = 1..n+1
      /\ \A i \in 1..n : u[i] = s[i]
      /\ u[n + 1] = line
  <2>1. IsLines(<<line>>) /\ Len(<<line>>) = 1 /\ <<line>>[1] = line /\ 1 \in 1..1
    BY FewLines
  <2> HIDE DEF u
  <2> QED
    BY <2>1, ConcatLines DEF u
<1>2. /\ \A i \in 1..n : \A d : Alike(u, i - 1, d) = Alike(s, i - 1, d)
      /\ \A d : Alike(u, n, d) = Alike(s, n, d)
      /\ \A d : Alike(s, n, d) \subseteq 1..n
  BY FewLines, AlikeConcat
<1> HIDE DEF u, n
<1>3. \A i \in DOMAIN u : i \in DOMAIN s \/ i = n + 1
  BY <1>1
<1>4. n + 1 \in DOMAIN u /\ n + 1 \notin 1..n /\ n + 1 - 1 = n
  BY <1>1
<1>5. \A i \in Where(u, "requirement") :
        /\ u[i].description \in Descriptions
        /\ u[i].cnt = Cardinality(Alike(u, i - 1, u[i].description))
  <2> SUFFICES ASSUME NEW i \in Where(u, "requirement")
               PROVE  /\ u[i].description \in Descriptions
                      /\ u[i].cnt = Cardinality(Alike(u, i - 1, u[i].description))
    OBVIOUS
  <2>1. CASE i \in DOMAIN s
    <3>1. i \in Where(s, "requirement") /\ i \in 1..n /\ u[i] = s[i]
      BY <1>1, <2>1 DEF Where
    <3> QED
      BY <1>2, <3>1 DEF Numbered
  <2>2. CASE i = n + 1
    <3>1. count[line.description] = Cardinality(Alike(s, n, line.description))
      BY DEF Numbered, n
    <3> QED
      BY <1>1, <1>2, <1>4, <2>2, <3>1
  <2> QED
    BY <1>3, <2>1, <2>2 DEF Where
<1>6. ASSUME NEW d \in Descriptions PROVE next[d] = Cardinality(Alike(u, n + 1, d))
  <2>1. count \in [Descriptions -> Nat] /\ count[d] = Cardinality(Alike(s, n, d))
    BY DEF Numbered, n
  <2>2. IsFiniteSet(Alike(s, n, d))
    <3>1. 1 \in Int /\ n \in Int
      BY <1>1
    <3>2. IsFiniteSet(1..n)
      BY <3>1, FS_Interval
    <3> QED
      BY <1>2, <3>2, FS_Subset
  <2>3. CASE d = line.description
    <3>1. Alike(u, n + 1, d) = Alike(u, n, d) \cup {n + 1}
      <4>1. \A j \in DOMAIN u : j <= n + 1 /\ (j <= n \/ j = n + 1)
        BY <1>1
      <4>2. n + 1 \in Alike(u, n + 1, d)
        BY <1>1, <1>4, <2>3, <4>1 DEF Alike, Where
      <4> QED
        BY <4>1, <4>2 DEF Alike, Where
    <3>2. Alike(u, n, d) = Alike(s, n, d) /\ n + 1 \notin Alike(s, n, d)
      BY <1>2, <1>4
    <3>3. Cardinality(Alike(u, n + 1, d)) = Cardinality(Alike(s, n, d)) + 1
      BY <2>2, <3>1, <3>2, FS_AddElement
    <3> QED
      BY <2>1, <2>3, <3>3
  <2>4. CASE d # line.description
    <3>1. Alike(u, n + 1, d) = Alike(u, n, d)
      <4>1. \A j \in DOMAIN u : j <= n + 1 /\ (j <= n \/ j = n + 1)
        BY <1>1
      <4> QED
        BY <1>1, <2>4, <4>1 DEF Alike, Where
    <3> QED
      BY <1>2, <2>1, <2>4, <3>1
  <2> QED
    BY <2>3, <2>4
<1>7. next \in [Descriptions -> Nat]
  <2>1. count \in [Descriptions -> Nat]
    BY DEF Numbered
  <2> QED
    BY <2>1
<1> HIDE DEF next
<1>8. Numbered(u, next)
  BY <1>1, <1>5, <1>6, <1>7 DEF Numbered
<1> QED
  BY <1>8 DEF u, next


----------------------------------------------------------------------------
(* What the handlers write *)

\* Lines for the levels, without a requirement.
OtherLines(new) ==
  \A v \in Levels : IsLines(new[v]) /\ \A l \in Range(new[v]) : l.says # "requirement"

\* LevelsNested, of any lines for the levels, with what it is that Silent does write.
Nested(new) ==
  /\ \A v \in Levels \ {MaxLevel} : FactsOf(new[v]) \subseteq FactsOf(new[v + 1])
  /\ \A fact \in FactsOf(new[Silent]) : mode = "professor" /\ fact.says \in {"name", "could not locate"}

\* A level shows what lower levels show, and Silent nothing that depends on the level.
LEMMA LevelsGrow ==
  /\ Silent \in Levels
  /\ \A v \in Levels \ {MaxLevel} :
       /\ v + 1 \in Levels
       /\ should_output_test(v) => should_output_test(v + 1)
       /\ should_output_student_summary(v) => should_output_student_summary(v + 1)
       /\ should_output_grade_percentage(v) => should_output_grade_percentage(v + 1)
       /\ should_output_run_metadata(v) => should_output_run_metadata(v + 1)
       /\ \A passed : should_output_requirement(v, passed) => should_output_requirement(v + 1, passed)
  /\ ~should_output_test(Silent) /\ ~should_output_student_summary(Silent)
  /\ ~should_output_grade_percentage(Silent) /\ ~should_output_run_metadata(Silent)
  /\ \A passed : ~should_output_requirement(Silent, passed)
BY DEF Levels, Silent, Quiet, Summary, All, MaxLevel, should_output_test, should_output_student_summary,
       should_output_grade_percentage, should_output_run_metadata, should_output_requirement

\* Lines that are among others say no more than they.
LEMMA FactsGrow ==
  /\ \A s, t : Range(s) \subseteq Range(t) => FactsOf(s) \subseteq FactsOf(t)
  /\ \A s : Range(s) = {} => FactsOf(s) = {}
BY DEF FactsOf

\* Lines that go with the level, and that Silent does not show.
LEMMA LinesGrow ==
  ASSUME NEW new,
         \A v \in Levels : IsLines(new[v]) /\ \A l \in Range(new[v]) : l.says # "requirement",
         \A v \in Levels \ {MaxLevel} : Range(new[v]) \subseteq Range(new[v + 1]),
         Range(new[Silent]) = {}
  PROVE  OtherLines(new) /\ Nested(new)
BY FactsGrow DEF OtherLines, Nested

\* on_run_metadata
LEMMA MetadataLines ==
  /\ OtherLines([v \in Levels |-> on_run_metadata(v)])
  /\ Nested([v \in Levels |-> on_run_metadata(v)])
<1> DEFINE l == [says |-> "metadata"]
           new == [v \in Levels |-> on_run_metadata(v)]
<1>1. \A v \in Levels : IsLines(new[v]) /\ Range(new[v]) = {x \in {l} : should_output_run_metadata(v)}
  BY FewLines DEF on_run_metadata
<1>2. l.says # "requirement"
  OBVIOUS
<1> HIDE DEF new, l
<1>3. \A v \in Levels \ {MaxLevel} : Range(new[v]) \subseteq Range(new[v + 1])
  BY <1>1, LevelsGrow
<1>4. Range(new[Silent]) = {}
  BY <1>1, LevelsGrow
<1>5. \A v \in Levels : IsLines(new[v]) /\ \A x \in Range(new[v]) : x.says # "requirement"
  BY <1>1, <1>2
<1>6. OtherLines(new) /\ Nested(new)
  BY <1>3, <1>4, <1>5, LinesGrow
<1> QED
  BY <1>6 DEF new

\* on_student_begin, in professor mode, followed by on_student_end if there is no executable
LEMMA StudentLines ==
  ASSUME NEW student, mode = "professor"
  PROVE  /\ OtherLines([v \in Levels |-> on_student_begin(v, student)])
         /\ Nested([v \in Levels |-> on_student_begin(v, student)])
         /\ OtherLines([v \in Levels |-> on_student_begin(v, student) \o on_student_end(v)])
         /\ Nested([v \in Levels |-> on_student_begin(v, student) \o on_student_end(v)])
<1> DEFINE name == [says |-> "name", of |-> student]
           lost == [says |-> "could not locate", of |-> student]
           last == [says |-> "end"]
           first(v) == on_student_begin(v, student)
           both(v) == first(v) \o on_student_end(v)
           B == {name} \cup {x \in {lost} : students[student] = "none"}
<1>1. \A v : IsLines(first(v)) /\ Range(first(v)) = B
  <2> DEFINE s == <<name>>
             t == Line(students[student] = "none", lost)
  <2>1. IsLines(s) /\ Range(s) = {name} /\ IsLines(t) /\ Range(t) = {x \in {lost} : students[student] = "none"}
    BY FewLines
  <2>2. \A v : first(v) = s \o t
    BY DEF on_student_begin
  <2> HIDE DEF name, lost, first, s, t
  <2>3. IsLines(s \o t) /\ Range(s \o t) = B
    BY <2>1, ConcatLines
  <2> QED
    BY <2>2, <2>3
<1>2. \A v : /\ IsLines(on_student_end(v))
             /\ Range(on_student_end(v)) = {x \in {last} : should_output_student_summary(v)}
  BY FewLines DEF on_student_end
<1>3. /\ name.says # "requirement" /\ lost.says # "requirement" /\ last.says # "requirement"
      /\ \A fact \in {Fact(line) : line \in {x \in B : x.says # "hidden"}} :
           fact.says \in {"name", "could not locate"}
  <2>1. name.says = "name" /\ lost.says = "could not locate" /\ last.says = "end"
    OBVIOUS
  <2>2. \A x \in B : x = name \/ x = lost
    OBVIOUS
  <2> HIDE DEF name, lost, last, B
  <2>3. \A x \in B : Fact(x).says \in {"name", "could not locate"}
    BY <2>1, <2>2 DEF Fact
  <2> QED
    BY <2>1, <2>3
<1> HIDE DEF first, B
<1>4. \A v : IsLines(both(v)) /\ Range(both(v)) = B \cup {x \in {last} : should_output_student_summary(v)}
  BY <1>1, <1>2, ConcatLines
<1> HIDE DEF both
<1>5. \A x \in B : x = name \/ x = lost
  BY DEF B
<1> HIDE DEF name, lost, last
<1>6. OtherLines([v \in Levels |-> first(v)]) /\ OtherLines([v \in Levels |-> both(v)])
  BY <1>1, <1>3, <1>4, <1>5 DEF OtherLines
<1>7. \A v \in Levels \ {MaxLevel} : Range(both(v)) \subseteq Range(both(v + 1))
  BY <1>4, LevelsGrow
<1>8. Range(first(Silent)) = B /\ Range(both(Silent)) = B
  BY <1>1, <1>4, LevelsGrow
<1>9. Nested([v \in Levels |-> first(v)])
  <2>1. \A v \in Levels \ {MaxLevel} : FactsOf(first(v)) \subseteq FactsOf(first(v + 1))
    BY <1>1, FactsGrow
  <2>2. \A fact \in FactsOf(first(Silent)) : fact.says \in {"name", "could not locate"}
    BY <1>3, <1>8 DEF FactsOf
  <2> QED
    BY <2>1, <2>2, LevelsGrow DEF Nested
<1>10. Nested([v \in Levels |-> both(v)])
  <2>1. \A v \in Levels \ {MaxLevel} : FactsOf(both(v)) \subseteq FactsOf(both(v + 1))
    BY <1>7, FactsGrow
  <2>2. \A fact \in FactsOf(both(Silent)) : fact.says \in {"name", "could not locate"}
    BY <1>3, <1>8 DEF FactsOf
  <2> QED
    BY <2>1, <2>2, LevelsGrow DEF Nested
<1> QED
  BY <1>6, <1>9, <1>10 DEF first, both

\* on_student_end
LEMMA EndLines ==
  /\ OtherLines([v \in Levels |-> on_student_end(v)])
  /\ Nested([v \in Levels |-> on_student_end(v)])
<1> DEFINE l == [says |-> "end"]
           new == [v \in Levels |-> on_student_end(v)]
<1>1. \A v \in Levels : IsLines(new[v]) /\ Range(new[v]) = {x \in {l} : should_output_student_summary(v)}
  BY FewLines DEF on_student_end
<1>2. l.says # "requirement"
  OBVIOUS
<1> HIDE DEF new, l
<1>3. \A v \in Levels \ {MaxLevel} : Range(new[v]) \subseteq Range(new[v + 1])
  BY <1>1, LevelsGrow
<1>4. Range(new[Silent]) = {}
  BY <1>1, LevelsGrow
<1>5. \A v \in Levels : IsLines(new[v]) /\ \A x \in Range(new[v]) : x.says # "requirement"
  BY <1>1, <1>2
<1>6. OtherLines(new) /\ Nested(new)
  BY <1>3, <1>4, <1>5, LinesGrow
<1> QED
  BY <1>6 DEF new

\* on_test_begin
LEMMA TestLines ==
  /\ OtherLines([v \in Levels |-> on_test_begin(v)])
  /\ Nested([v \in Levels |-> on_test_begin(v)])
<1> DEFINE l == [says |-> "test", test |-> Len(results) + 1]
           new == [v \in Levels |-> on_test_begin(v)]
<1>1. \A v \in Levels : IsLines(new[v]) /\ Range(new[v]) = {x \in {l} : should_output_test(v)}
  BY FewLines DEF on_test_begin
<1>2. l.says # "requirement"
  OBVIOUS
<1> HIDE DEF new, l
<1>3. \A v \in Levels \ {MaxLevel} : Range(new[v]) \subseteq Range(new[v + 1])
  BY <1>1, LevelsGrow
<1>4. Range(new[Silent]) = {}
  BY <1>1, LevelsGrow
<1>5. \A v \in Levels : IsLines(new[v]) /\ \A x \in Range(new[v]) : x.says # "requirement"
  BY <1>1, <1>2
<1>6. OtherLines(new) /\ Nested(new)
  BY <1>3, <1>4, <1>5, LinesGrow
<1> QED
  BY <1>6 DEF new

\* on_assignment_result
LEMMA AssignmentLines ==
  /\ OtherLines([v \in Levels |-> on_assignment_result(v)])
  /\ Nested([v \in Levels |-> on_assignment_result(v)])
<1> DEFINE new == [v \in Levels |-> on_assignment_result(v)]
<1>1. Score.says # "requirement" /\ Verdict.says # "requirement"
  BY DEF Score, Verdict
<1>2. \A v \in Levels :
        /\ IsLines(new[v])
        /\ Range(new[v]) = {x \in {Score} : should_output_grade_percentage(v)}
                           \cup {x \in {Verdict} : should_output_student_summary(v)}
  BY FewLines, ConcatLines DEF on_assignment_result
<1> HIDE DEF new
<1>3. \A v \in Levels \ {MaxLevel} : Range(new[v]) \subseteq Range(new[v + 1])
  BY <1>2, LevelsGrow
<1>4. Range(new[Silent]) = {}
  BY <1>2, LevelsGrow
<1>5. \A v \in Levels : IsLines(new[v]) /\ \A x \in Range(new[v]) : x.says # "requirement"
  BY <1>1, <1>2
<1>6. OtherLines(new) /\ Nested(new)
  BY <1>3, <1>4, <1>5, LinesGrow
<1> QED
  BY <1>6 DEF new

\* on_test_result: only the hidden requirements go with the level.
LEMMA TestResultLines ==
  ASSUME NEW result
  PROVE  /\ OtherLines([v \in Levels |-> on_test_result(v, result)])
         /\ Nested([v \in Levels |-> on_test_result(v, result)])
<1> DEFINE none == [says |-> "no requirements", test |-> Len(results) + 1]
           hidden == [says |-> "hidden", test |-> Len(results) + 1, num |-> result.num_passed]
           new == [v \in Levels |-> on_test_result(v, result)]
           Hides(v) == result.num_passed > 0 /\ ~should_output_requirement(v, TRUE)
<1>1. \A v \in Levels :
        /\ IsLines(new[v])
        /\ Range(new[v]) = {x \in {none} : should_output_test(v) /\ result.num_total = 0}
                           \cup {x \in {hidden} : should_output_test(v) /\ Hides(v)}
  <2> SUFFICES ASSUME NEW v \in Levels
               PROVE  /\ IsLines(on_test_result(v, result))
                      /\ Range(on_test_result(v, result)) =
                           {x \in {none} : should_output_test(v) /\ result.num_total = 0}
                           \cup {x \in {hidden} : should_output_test(v) /\ Hides(v)}
    OBVIOUS
  <2>1. /\ IsLines(Line(result.num_total = 0, none))
        /\ Range(Line(result.num_total = 0, none)) = {x \in {none} : result.num_total = 0}
        /\ IsLines(Line(Hides(v), hidden))
        /\ Range(Line(Hides(v), hidden)) = {x \in {hidden} : Hides(v)}
    BY FewLines
  <2>2. on_test_result(v, result) =
          IF ~should_output_test(v) THEN <<>>
          ELSE Line(result.num_total = 0, none) \o Line(Hides(v), hidden)
    BY DEF on_test_result
  <2> HIDE DEF none, hidden, Hides
  <2>3. CASE should_output_test(v)
    BY <2>1, <2>2, <2>3, ConcatLines
  <2>4. CASE ~should_output_test(v)
    BY <2>2, <2>4, FewLines
  <2> QED
    BY <2>3, <2>4
<1>2. /\ none.says = "no requirements" /\ hidden.says = "hidden"
      /\ none.says # "requirement" /\ hidden.says # "requirement" /\ none.says # "hidden"
  OBVIOUS
<1> HIDE DEF new, none, hidden, Hides
<1>3. OtherLines(new)
  BY <1>1, <1>2 DEF OtherLines
<1>4. \A v \in Levels : FactsOf(new[v]) =
        {Fact(x) : x \in {y \in {none} : should_output_test(v) /\ result.num_total = 0}}
  BY <1>1, <1>2 DEF FactsOf
<1>5. \A v \in Levels \ {MaxLevel} : v \in Levels /\ FactsOf(new[v]) \subseteq FactsOf(new[v + 1])
  BY <1>4, LevelsGrow
<1>6. FactsOf(new[Silent]) = {}
  BY <1>4, LevelsGrow
<1>7. Nested(new)
  BY <1>5, <1>6 DEF Nested
<1> QED
  BY <1>3, <1>7 DEF new

\* on_requirement_result: what a line says of the requirement is the same at every level
\* that shows it.
LEMMA RequirementLines ==
  ASSUME NEW passed, NEW description
  PROVE  Nested([v \in Levels |-> on_requirement_result(v, passed, description)])
<1> DEFINE l(v) == [says |-> "requirement", test |-> Len(results) + 1, passed |-> passed,
                    description |-> description, cnt |-> repeat_requirements_[v][description]]
           fact == [says |-> "requirement", test |-> Len(results) + 1, passed |-> passed,
                    description |-> description]
           new == [v \in Levels |-> on_requirement_result(v, passed, description)]
<1>1. \A v : l(v).says = "requirement" /\ l(v).says # "hidden" /\ Fact(l(v)) = fact
  BY DEF Fact
<1>2. \A v \in Levels : Range(new[v]) = {x \in {l(v)} : should_output_requirement(v, passed)}
  BY FewLines DEF on_requirement_result
<1> HIDE DEF new, l, fact
<1>3. \A v \in Levels : FactsOf(new[v]) = {x \in {fact} : should_output_requirement(v, passed)}
  BY <1>1, <1>2 DEF FactsOf
<1>4. \A v \in Levels \ {MaxLevel} : v \in Levels /\ FactsOf(new[v]) \subseteq FactsOf(new[v + 1])
  BY <1>3, LevelsGrow
<1>5. FactsOf(new[Silent]) = {}
  BY <1>3, LevelsGrow
<1>6. Nested(new)
  BY <1>4, <1>5 DEF Nested
<1> QED
  BY <1>6 DEF new


\* A step appends lines to the screens, clears them for a student, or writes nothing; only
\* a requirement is numbered.
LEMMA ScreenSteps ==
  ASSUME InputsOK, StateOK, Next
  PROVE  \/ UNCHANGED outputVars
         \/ \E passed \in BOOLEAN, d \in Descriptions : ShowRequirement(passed, d)
         \/ \E new : /\ OtherLines(new) /\ Nested(new)
                     /\ \/ Write(new) /\ UNCHANGED repeat_requirements_
                        \/ screen' = [v \in Levels |-> new[v]] /\ ForgetStudent
<1>1. CASE ShowStudent
  <2>1. CASE BeginStudent /\ single
    BY <1>1, <2>1 DEF ShowStudent, BeginStudent, StudentWithoutPath, outputVars
  <2>2. CASE ~(BeginStudent /\ single)
    <3>1. mode = "professor"
      <4>1. StudentWithoutPath => ~single
        <5>1. StudentWithoutPath => si + 1 \in DOMAIN students /\ students[si + 1] = "none"
          BY LenProperties DEF StudentWithoutPath, InputsOK, StateOK
        <5> QED
          BY <5>1 DEF InputsOK
      <4> QED
        BY <1>1, <2>2, <4>1 DEF ShowStudent, InputsOK
    <3> DEFINE first == [v \in Levels |-> on_student_begin(v, si + 1)]
               both == [v \in Levels |-> on_student_begin(v, si + 1) \o on_student_end(v)]
    <3>2. OtherLines(first) /\ Nested(first) /\ OtherLines(both) /\ Nested(both)
      BY <3>1, StudentLines
    <3>3. (screen' = first \/ screen' = both) /\ ForgetStudent
      BY <1>1, <2>2 DEF ShowStudent
    <3>4. first = [v \in Levels |-> first[v]] /\ both = [v \in Levels |-> both[v]]
      OBVIOUS
    <3> HIDE DEF first, both
    <3> QED
      BY <3>2, <3>3, <3>4
  <2> QED
    BY <2>1, <2>2
<1>2. CASE ShowTest
  BY <1>2, TestLines DEF ShowTest, outputVars
<1>3. CASE ShowAssignmentResult
  BY <1>3, AssignmentLines DEF ShowAssignmentResult, outputVars
<1>4. CASE ShowStudentEnd
  BY <1>4, EndLines DEF ShowStudentEnd, outputVars
<1>5. ASSUME NEW b \in BOOLEAN, ShowTestResult(b)
      PROVE  \E new : OtherLines(new) /\ Nested(new) /\ Write(new) /\ UNCHANGED repeat_requirements_
  BY <1>5, TestResultLines DEF ShowTestResult
<1>6. CASE (SkipTest \/ BodyThrows \/ Finish) /\ UNCHANGED outputVars
  BY <1>6
<1> QED
  BY <1>1, <1>2, <1>3, <1>4, <1>5, <1>6 DEF Next

\* What a level shows is what it has shown and what is appended.
LEMMA NestedConcat ==
  ASSUME NEW new, NEW old, Nested(old), Nested(new),
         \A v \in Levels : IsLines(old[v]) /\ IsLines(new[v])
  PROVE  Nested([v \in Levels |-> old[v] \o new[v]])
<1>1. ASSUME NEW v \in Levels PROVE FactsOf(old[v] \o new[v]) = FactsOf(old[v]) \cup FactsOf(new[v])
  <2>1. Range(old[v] \o new[v]) = Range(old[v]) \cup Range(new[v])
    BY ConcatLines
  <2> QED
    BY <2>1 DEF FactsOf
<1>2. \A v \in Levels \ {MaxLevel} : v \in Levels /\ v + 1 \in Levels
  BY LevelsGrow
<1>3. Silent \in Levels
  BY LevelsGrow
<1> QED
  BY <1>1, <1>2, <1>3 DEF Nested

\* The numbers and the lines' nesting hold at first.
LEMMA ScreenInit ==
  ASSUME OutputInit
  PROVE  NumberDiscipline /\ Nested(screen)
<1> DEFINE new == [v \in Levels |-> on_run_metadata(v)]
<1>1. screen = new /\ repeat_requirements_ = [v \in Levels |-> [d \in Descriptions |-> 0]]
  BY DEF OutputInit
<1>2. OtherLines(new) /\ Nested(new) /\ DOMAIN new = Levels
  BY MetadataLines
<1> HIDE DEF new
<1>3. ASSUME NEW v \in Levels PROVE Numbered(new[v], [d \in Descriptions |-> 0])
  BY <1>2, FreshNumbers DEF OtherLines
<1> QED
  BY <1>1, <1>2, <1>3 DEF NumberDiscipline, OtherLines

\* Every step keeps both.
LEMMA ScreenKept ==
  ASSUME InputsOK, StateOK, NumberDiscipline, Nested(screen), [Next]_<<vars, outputVars>>
  PROVE  NumberDiscipline' /\ Nested(screen)'
<1>1. mode' = mode
  <2>1. CASE GradingNext
    BY <2>1, InputsKept DEF inputs
  <2>2. CASE UNCHANGED vars
    BY <2>2 DEF vars, inputs
  <2> QED
    BY <2>1, <2>2, OutputSteps
<1> SUFFICES NumberDiscipline' /\ Nested(screen')
  BY <1>1 DEF Nested
<1>2. CASE UNCHANGED outputVars
  <2>1. screen' = screen /\ repeat_requirements_' = repeat_requirements_
    BY <1>2 DEF outputVars
  <2> QED
    BY <2>1 DEF NumberDiscipline
<1>3. ASSUME NEW passed \in BOOLEAN, NEW d \in Descriptions, ShowRequirement(passed, d)
      PROVE  NumberDiscipline' /\ Nested(screen')
  <2> DEFINE new == [v \in Levels |-> on_requirement_result(v, passed, d)]
             shows(v) == should_output_requirement(v, passed)
             line(v) == [says |-> "requirement", test |-> Len(results) + 1, passed |-> passed,
                         description |-> d, cnt |-> repeat_requirements_[v][d]]
  <2>1. /\ screen' = [v \in Levels |-> screen[v] \o new[v]]
        /\ repeat_requirements_' = [v \in Levels |->
             [repeat_requirements_[v] EXCEPT ![d] = IF shows(v) THEN @ + 1 ELSE @]]
    BY <1>3 DEF ShowRequirement, Write
  <2>2. \A v \in Levels : new[v] = Line(shows(v), line(v))
    BY DEF on_requirement_result
  <2>3. Nested(new)
    BY RequirementLines
  <2>4. \A v : /\ line(v).says = "requirement" /\ line(v).description = d
               /\ line(v).cnt = repeat_requirements_[v][d]
    OBVIOUS
  <2> HIDE DEF new, shows, line
  <2>5. \A v \in Levels : IsLines(new[v])
    BY <2>2, FewLines
  <2>6. Nested(screen')
    <3>1. \A v \in Levels : IsLines(screen[v])
      BY DEF NumberDiscipline
    <3> QED
      BY <2>1, <2>3, <2>5, <3>1, NestedConcat
  <2>7. ASSUME NEW v \in Levels
        PROVE  IsLines(screen'[v]) /\ Numbered(screen'[v], repeat_requirements_'[v])
    <3>1. IsLines(screen[v]) /\ Numbered(screen[v], repeat_requirements_[v])
      BY DEF NumberDiscipline
    <3>2. screen'[v] = screen[v] \o new[v] /\ IsLines(screen[v] \o new[v])
      BY <2>1, <2>5, <3>1, ConcatLines
    <3>3. CASE shows(v)
      <4>1. new[v] = <<line(v)>>
        BY <2>2, <3>3 DEF Line
      <4>2. repeat_requirements_'[v] = [repeat_requirements_[v] EXCEPT ![d] = @ + 1]
        BY <2>1, <3>3
      <4>3. Numbered(screen[v] \o <<line(v)>>,
                     [repeat_requirements_[v] EXCEPT ![line(v).description] = @ + 1])
        BY <2>4, <3>1, NumberedNext
      <4> QED
        BY <2>4, <3>2, <4>1, <4>2, <4>3
    <3>4. CASE ~shows(v)
      <4>1. new[v] = <<>>
        BY <2>2, <3>4 DEF Line
      <4>2. repeat_requirements_'[v] = repeat_requirements_[v]
        <5>1. repeat_requirements_[v] \in [Descriptions -> Nat]
          BY <3>1 DEF Numbered
        <5> QED
          BY <2>1, <3>4, <5>1
      <4>3. Numbered(screen[v] \o <<>>, repeat_requirements_[v])
        BY <3>1, FewLines, NumberedOthers
      <4> QED
        BY <3>2, <4>1, <4>2, <4>3
    <3> QED
      BY <3>3, <3>4
  <2>8. DOMAIN screen' = Levels /\ DOMAIN repeat_requirements_' = Levels
    BY <2>1
  <2> QED
    BY <2>6, <2>7, <2>8 DEF NumberDiscipline
<1>4. ASSUME NEW new, OtherLines(new), Nested(new), Write(new), UNCHANGED repeat_requirements_
      PROVE  NumberDiscipline' /\ Nested(screen')
  <2>1. screen' = [v \in Levels |-> screen[v] \o new[v]] /\ repeat_requirements_' = repeat_requirements_
    BY <1>4 DEF Write
  <2>2. \A v \in Levels : IsLines(new[v]) /\ IsLines(screen[v])
    BY <1>4 DEF NumberDiscipline, OtherLines
  <2>3. Nested(screen')
    BY <1>4, <2>1, <2>2, NestedConcat
  <2>4. ASSUME NEW v \in Levels
        PROVE  IsLines(screen'[v]) /\ Numbered(screen'[v], repeat_requirements_'[v])
    <3>1. /\ IsLines(screen[v]) /\ Numbered(screen[v], repeat_requirements_[v])
          /\ IsLines(new[v]) /\ \A l \in Range(new[v]) : l.says # "requirement"
      BY <1>4 DEF NumberDiscipline, OtherLines
    <3>2. screen'[v] = screen[v] \o new[v] /\ repeat_requirements_'[v] = repeat_requirements_[v]
      BY <2>1
    <3>3. IsLines(screen[v] \o new[v])
      BY <3>1, ConcatLines
    <3>4. Numbered(screen[v] \o new[v], repeat_requirements_[v])
      BY <3>1, NumberedOthers
    <3> QED
      BY <3>2, <3>3, <3>4
  <2>5. DOMAIN screen' = Levels /\ DOMAIN repeat_requirements_' = Levels
    BY <2>1 DEF NumberDiscipline
  <2> QED
    BY <2>3, <2>4, <2>5 DEF NumberDiscipline
<1>5. ASSUME NEW new, OtherLines(new), Nested(new), screen' = [v \in Levels |-> new[v]], ForgetStudent
      PROVE  NumberDiscipline' /\ Nested(screen')
  <2>1. repeat_requirements_' = [v \in Levels |-> [d \in Descriptions |-> 0]]
    BY <1>5 DEF ForgetStudent
  <2>2. ASSUME NEW v \in Levels
        PROVE  IsLines(screen'[v]) /\ Numbered(screen'[v], repeat_requirements_'[v])
    BY <1>5, <2>1, FreshNumbers DEF OtherLines
  <2>3. Nested(screen')
    BY <1>5, LevelsGrow DEF Nested
  <2>4. DOMAIN screen' = Levels /\ DOMAIN repeat_requirements_' = Levels
    BY <1>5, <2>1
  <2> QED
    BY <2>2, <2>3, <2>4 DEF NumberDiscipline
<1>6. UNCHANGED <<vars, outputVars>> => UNCHANGED outputVars
  BY DEF outputVars
<1>7. CASE Next
  BY <1>2, <1>3, <1>4, <1>5, <1>7, ScreenSteps
<1> QED
  BY <1>2, <1>6, <1>7

\* What is known of every screen in every state.
THEOREM ScreenInvariant == Spec => [](NumberDiscipline /\ Nested(screen))
<1>1. OutputInit => NumberDiscipline /\ Nested(screen)
  BY ScreenInit
<1>2. GradingDiscipline /\ NumberDiscipline /\ Nested(screen) /\ [Next]_<<vars, outputVars>>
      => (NumberDiscipline /\ Nested(screen))'
  BY ScreenKept DEF GradingDiscipline
<1> QED
  BY <1>1, <1>2, DisciplineInvariant, PTL DEF Spec

\* Every level says what the level below it says, and Silent only whose programs are
\* graded and whose are missing, whatever is graded.
THEOREM LevelsNestedCorrect == Spec => []LevelsNested
<1>1. Nested(screen) => LevelsNested
  BY DEF Nested, LevelsNested, Facts
<1> QED
  BY <1>1, ScreenInvariant, PTL

\* Two labels of one description are different, unless they have one number.
LEMMA LabelsDiffer ==
  ASSUME NEW d \in Seq(Nat), NEW m \in Nat, NEW n \in Nat, m # n
  PROVE  (IF m = 0 THEN d ELSE Append(d, m)) # (IF n = 0 THEN d ELSE Append(d, n))
<1>1. /\ Len(Append(d, m)) = Len(d) + 1 /\ Append(d, m)[Len(d) + 1] = m
      /\ Len(Append(d, n)) = Len(d) + 1 /\ Append(d, n)[Len(d) + 1] = n
      /\ Len(d) \in Nat
  BY LenProperties
<1>2. Len(d) # Len(d) + 1
  BY <1>1
<1> QED
  BY <1>1, <1>2

\* The labels of one student's requirements tell apart all that an author has not numbered
\* himself, at every level, however many tests and requirements there are.
THEOREM LabelsTellApartCorrect == Spec => []LabelsTellApart
<1>1. ASSUME NumberDiscipline PROVE LabelsTellApart
  <2> SUFFICES ASSUME NEW v \in Levels, NEW i \in Said(v, "requirement")
               PROVE  LET line == screen[v][i]
                          before == {j \in Said(v, "requirement") : j < i}
                      IN  /\ line.cnt = Cardinality({j \in before : screen[v][j].description = line.description})
                          /\ \A j \in before : Label(screen[v][j]) = Label(line) =>
                               screen[v][j].description # line.description
    BY DEF LabelsTellApart
  <2> DEFINE s == screen[v]
             d == s[i].description
             at == Where(s, "requirement")
  <2>1. IsLines(s) /\ Numbered(s, repeat_requirements_[v])
    BY <1>1 DEF NumberDiscipline
  <2>2. Len(s) \in Nat /\ at \subseteq 1..Len(s) /\ i \in at
    <3>1. Len(s) \in Nat /\ DOMAIN s = 1..Len(s)
      BY <2>1, LenProperties DEF IsLines
    <3> QED
      BY <3>1 DEF Where, Said
  <2>3. \A k \in at : s[k].cnt = Cardinality(Alike(s, k - 1, s[k].description))
    BY <2>1 DEF Numbered
  <2>4. d \in Seq(Nat)
    BY <2>1, <2>2, DescriptionsAssumption DEF Numbered
  <2>5. \A j \in at, k \in at : j <= k - 1 <=> j < k
    BY <2>2
  <2>6. {j \in {j \in Said(v, "requirement") : j < i} : screen[v][j].description = d} = Alike(s, i - 1, d)
    BY <2>2, <2>5 DEF Alike, Said
  <2>7. \A n, e : IsFiniteSet(Alike(s, n, e)) /\ Cardinality(Alike(s, n, e)) \in Nat
    <3> SUFFICES ASSUME NEW n, NEW e PROVE IsFiniteSet(Alike(s, n, e))
      BY FS_CardinalityType
    <3>1. 1 \in Int /\ Len(s) \in Int
      BY <2>2
    <3>2. IsFiniteSet(1..Len(s)) /\ Alike(s, n, e) \in SUBSET (1..Len(s))
      BY <2>2, <3>1, FS_Interval DEF Alike
    <3> QED
      BY <3>2, FS_Subset
  <2>8. ASSUME NEW j \in at, j < i, s[j].description = d
        PROVE  s[j].cnt # s[i].cnt
    <3> DEFINE A == Alike(s, j - 1, d)
               B == Alike(s, i - 1, d)
    <3>1. j \notin A /\ A \cup {j} \subseteq B
      <4>1. j \in 1..Len(s) /\ ~(j <= j - 1) /\ j <= i - 1 /\ i \in 1..Len(s)
        BY <2>2, <2>8
      <4>2. \A k \in at : k <= j - 1 => k <= i - 1
        BY <2>2, <4>1
      <4> QED
        BY <2>8, <4>1, <4>2 DEF Alike
    <3>2. Cardinality(A \cup {j}) = Cardinality(A) + 1
      BY <2>7, <3>1, FS_AddElement
    <3>3. Cardinality(A \cup {j}) <= Cardinality(B)
      BY <2>7, <3>1, FS_Subset
    <3>4. Cardinality(A) \in Nat /\ Cardinality(B) \in Nat
      BY <2>7
    <3>5. s[j].cnt = Cardinality(A) /\ s[i].cnt = Cardinality(B)
      BY <2>2, <2>3, <2>8
    <3> HIDE DEF A, B
    <3> QED
      BY <3>2, <3>3, <3>4, <3>5
  <2>9. ASSUME NEW j \in at, j < i, s[j].description = d PROVE Label(s[j]) # Label(s[i])
    <3>1. s[j].cnt \in Nat /\ s[i].cnt \in Nat
      BY <2>2, <2>3, <2>7
    <3> QED
      BY <2>4, <2>8, <2>9, <3>1, LabelsDiffer DEF Label
  <2> QED
    BY <2>2, <2>3, <2>6, <2>9 DEF Said
<1> QED
  BY <1>1, ScreenInvariant, PTL


----------------------------------------------------------------------------
(* What lines say of the tests *)

\* A sum of zeros.
LEMMA SumZero ==
  ASSUME NEW s \in Seq(Int), \A i \in 1..Len(s) : s[i] = 0
  PROVE  SumOf(s) = 0
<1>1. Len(s) = Len(s) /\ \A i \in 1..Len(s) : s[i] = s[i] - s[i]
  OBVIOUS
<1>2. SumOf(s) = SumOf(s) - SumOf(s)
  BY <1>1, SumMinus
<1> QED
  BY <1>2, SumType

\* Lines whose numbers of hidden requirements are numbers.
Known(lines) == IsLines(lines) /\ \A l \in Range(lines) : l.says = "hidden" => l.num \in Nat

\* How many lines are in a set.
CountIn(lines, P) == Cardinality({i \in DOMAIN lines : lines[i] \in P})

\* The same with one line more.
LEMMA CountOne ==
  ASSUME NEW s, NEW l, NEW P, IsLines(s)
  PROVE  /\ CountIn(s, P) \in Nat
         /\ CountIn(s \o <<l>>, P) = CountIn(s, P) + (IF l \in P THEN 1 ELSE 0)
<1> DEFINE u == s \o <<l>>
           n == Len(s)
           S == {i \in DOMAIN s : s[i] \in P}
           U == {i \in DOMAIN u : u[i] \in P}
<1>1. /\ n \in Nat /\ DOMAIN s = 1..n /\ DOMAIN u = 1..n+1
      /\ \A i \in 1..n : u[i] = s[i]
      /\ u[n + 1] = l
  <2>1. IsLines(<<l>>) /\ Len(<<l>>) = 1 /\ <<l>>[1] = l /\ 1 \in 1..1
    BY FewLines
  <2> HIDE DEF u
  <2> QED
    BY <2>1, ConcatLines DEF u
<1> HIDE DEF u, n
<1>2. IsFiniteSet(S)
  <2>1. 1 \in Int /\ n \in Int
    BY <1>1
  <2>2. IsFiniteSet(1..n) /\ S \in SUBSET (1..n)
    BY <1>1, <2>1, FS_Interval
  <2> QED
    BY <2>2, FS_Subset
<1>3. n + 1 \notin S /\ \A i \in 1..n+1 : i \in 1..n \/ i = n + 1
  BY <1>1
<1>4. U = S \cup {i \in {n + 1} : l \in P}
  <2>1. n + 1 \in 1..n+1 /\ n + 1 \notin 1..n /\ \A i \in 1..n : i \in 1..n+1
    BY <1>1
  <2> QED
    BY <1>1, <1>3, <2>1
<1> SUFFICES /\ Cardinality(S) \in Nat
             /\ Cardinality(U) = Cardinality(S) + (IF l \in P THEN 1 ELSE 0)
  BY DEF CountIn, u
<1> HIDE DEF S, U
<1>5. Cardinality(S) \in Nat
  BY <1>2, FS_CardinalityType
<1>6. CASE l \in P
  <2>1. U = S \cup {n + 1}
    BY <1>4, <1>6
  <2>2. Cardinality(U) = Cardinality(S) + 1
    BY <1>2, <1>3, <2>1, FS_AddElement
  <2> QED
    BY <1>5, <1>6, <2>2
<1>7. CASE l \notin P
  <2>1. U = S
    BY <1>4, <1>7
  <2> QED
    BY <1>5, <1>7, <2>1
<1> QED
  BY <1>6, <1>7

\* u says what s says and what l says, if c.
Adds(s, u, c, l) ==
  /\ Cardinality(Where(u, "test")) = Cardinality(Where(s, "test")) + (IF c /\ l.says = "test" THEN 1 ELSE 0)
  /\ \A t : /\ \A p : ShownIn(u, t, p) = ShownIn(s, t, p) +
                 (IF c /\ l.says = "requirement" /\ l.test = t /\ l.passed = p THEN 1 ELSE 0)
            /\ HiddenIn(u, t) = HiddenIn(s, t) +
                 (IF c /\ l.says = "hidden" /\ l.test = t THEN l.num ELSE 0)

\* What lines say is numbers.
Numbers(s) ==
  /\ Cardinality(Where(s, "test")) \in Nat
  /\ \A t : HiddenIn(s, t) \in Int /\ \A p : ShownIn(s, t, p) \in Nat

\* What the hidden lines say, with one line more.
LEMMA HiddenOne ==
  ASSUME NEW s, NEW l, Known(s), l.says = "hidden" => l.num \in Nat, NEW t
  PROVE  /\ HiddenIn(s, t) \in Int
         /\ HiddenIn(s \o <<l>>, t) = HiddenIn(s, t) + (IF l.says = "hidden" /\ l.test = t THEN l.num ELSE 0)
<1> DEFINE u == s \o <<l>>
           n == Len(s)
           h(x) == IF x.says = "hidden" /\ x.test = t THEN x.num ELSE 0
           H == [i \in DOMAIN s |-> h(s[i])]
           K == [i \in DOMAIN u |-> h(u[i])]
<1>1. /\ n \in Nat /\ DOMAIN s = 1..n /\ DOMAIN u = 1..n+1
      /\ \A i \in 1..n : u[i] = s[i]
      /\ u[n + 1] = l
  <2>1. IsLines(<<l>>) /\ Len(<<l>>) = 1 /\ <<l>>[1] = l /\ 1 \in 1..1 /\ IsLines(s)
    BY FewLines DEF Known
  <2> HIDE DEF u
  <2> QED
    BY <2>1, ConcatLines DEF u
<1> HIDE DEF n
<1>2. \A i \in 1..n : h(s[i]) \in Int
  BY <1>1 DEF Known, Range
<1>3. h(l) \in Int
  OBVIOUS
<1>4. HiddenIn(s, t) = SumOf(H) /\ HiddenIn(u, t) = SumOf(K)
  <2>1. \A i \in DOMAIN s : (i \in Where(s, "hidden") /\ s[i].test = t) <=> (s[i].says = "hidden" /\ s[i].test = t)
    BY DEF Where
  <2>2. \A i \in DOMAIN u : (i \in Where(u, "hidden") /\ u[i].test = t) <=> (u[i].says = "hidden" /\ u[i].test = t)
    BY DEF Where
  <2> HIDE DEF u
  <2>3. H = [i \in DOMAIN s |-> IF i \in Where(s, "hidden") /\ s[i].test = t THEN s[i].num ELSE 0]
    BY <2>1
  <2>4. K = [i \in DOMAIN u |-> IF i \in Where(u, "hidden") /\ u[i].test = t THEN u[i].num ELSE 0]
    BY <2>2
  <2> QED
    BY <2>3, <2>4 DEF HiddenIn
<1> HIDE DEF u, h
<1>5. H \in Seq(Int) /\ Len(H) = n
  BY <1>1, <1>2
<1>6. K = Append(H, h(l))
  <2>1. \A i \in 1..n : h(u[i]) = h(s[i]) /\ H[i] = h(s[i])
    BY <1>1
  <2>2. /\ Append(H, h(l)) \in Seq(Int) /\ Len(Append(H, h(l))) = n + 1
        /\ Append(H, h(l))[n + 1] = h(l)
        /\ \A i \in 1..n : Append(H, h(l))[i] = H[i]
    <3> HIDE DEF H
    <3> QED
      BY <1>1, <1>3, <1>5
  <2>3. \A i \in 1..n+1 : h(u[i]) = Append(H, h(l))[i]
    <3>1. \A i \in 1..n+1 : i \in 1..n \/ i = n + 1
      BY <1>1
    <3> HIDE DEF H
    <3> QED
      BY <1>1, <2>1, <2>2, <3>1
  <2>4. K \in Seq(Int) /\ Len(K) = n + 1 /\ \A i \in 1..n+1 : K[i] = h(u[i])
    <3>1. \A i \in 1..n+1 : h(u[i]) \in Int
      <4>1. \A i \in 1..n+1 : i \in 1..n \/ i = n + 1
        BY <1>1
      <4> QED
        BY <1>1, <1>2, <1>3, <4>1
    <3> QED
      BY <1>1, <3>1
  <2> HIDE DEF H, K
  <2> QED
    BY <2>2, <2>3, <2>4, SeqEqual
<1> HIDE DEF H, K
<1>7. SumOf(K) = SumOf(H) + h(l) /\ SumOf(H) \in Int
  BY <1>3, <1>5, <1>6, SumAppend, SumType
<1> QED
  BY <1>4, <1>7 DEF u, h

\* One line more.
LEMMA TellsOne ==
  ASSUME NEW s, NEW l, Known(s), l.says = "hidden" => l.num \in Nat
  PROVE  Known(s \o <<l>>) /\ Numbers(s) /\ Adds(s, s \o <<l>>, TRUE, l)
<1> DEFINE u == s \o <<l>>
<1>1. Known(u)
  <2>1. IsLines(<<l>>) /\ Range(<<l>>) = {l} /\ IsLines(s)
    BY FewLines DEF Known
  <2>2. IsLines(u) /\ Range(u) = Range(s) \cup {l}
    BY <2>1, ConcatLines
  <2> HIDE DEF u
  <2> QED
    BY <2>2 DEF Known
<1>2. /\ Cardinality(Where(s, "test")) \in Nat
      /\ Cardinality(Where(u, "test")) = Cardinality(Where(s, "test")) + (IF l.says = "test" THEN 1 ELSE 0)
  <2> DEFINE P == {x \in Range(u) : x.says = "test"}
  <2>1. \A i \in DOMAIN u : u[i] \in Range(u)
    BY DEF Range
  <2>2. Range(u) = Range(s) \cup {l}
    BY FewLines, ConcatLines DEF Known
  <2>3. \A i \in DOMAIN s : s[i] \in Range(u)
    BY <2>2 DEF Range
  <2>4. Where(s, "test") = {i \in DOMAIN s : s[i] \in P}
    BY <2>3 DEF Where
  <2>5. Where(u, "test") = {i \in DOMAIN u : u[i] \in P}
    BY <2>1 DEF Where
  <2>6. l \in P <=> l.says = "test"
    BY <2>2
  <2>7. CountIn(s, P) \in Nat /\ CountIn(u, P) = CountIn(s, P) + (IF l \in P THEN 1 ELSE 0)
    BY CountOne DEF Known
  <2> HIDE DEF P, u
  <2> QED
    BY <2>4, <2>5, <2>6, <2>7 DEF CountIn
<1>3. ASSUME NEW t, NEW p
      PROVE  /\ ShownIn(s, t, p) \in Nat
             /\ ShownIn(u, t, p) = ShownIn(s, t, p) +
                  (IF l.says = "requirement" /\ l.test = t /\ l.passed = p THEN 1 ELSE 0)
  <2> DEFINE P == {x \in Range(u) : x.says = "requirement" /\ x.test = t /\ x.passed = p}
  <2>1. \A i \in DOMAIN u : u[i] \in Range(u)
    BY DEF Range
  <2>2. Range(u) = Range(s) \cup {l}
    BY FewLines, ConcatLines DEF Known
  <2>3. \A i \in DOMAIN s : s[i] \in Range(u)
    BY <2>2 DEF Range
  <2>4. ShownIn(s, t, p) = Cardinality({i \in DOMAIN s : s[i] \in P})
    <3>1. {i \in Where(s, "requirement") : s[i].test = t /\ s[i].passed = p} = {i \in DOMAIN s : s[i] \in P}
      BY <2>3 DEF Where
    <3> QED
      BY <3>1 DEF ShownIn
  <2>5. ShownIn(u, t, p) = Cardinality({i \in DOMAIN u : u[i] \in P})
    <3>1. {i \in Where(u, "requirement") : u[i].test = t /\ u[i].passed = p} = {i \in DOMAIN u : u[i] \in P}
      BY <2>1 DEF Where
    <3> QED
      BY <3>1 DEF ShownIn
  <2>6. l \in P <=> l.says = "requirement" /\ l.test = t /\ l.passed = p
    BY <2>2
  <2>7. CountIn(s, P) \in Nat /\ CountIn(u, P) = CountIn(s, P) + (IF l \in P THEN 1 ELSE 0)
    BY CountOne DEF Known
  <2> HIDE DEF P, u
  <2> QED
    BY <2>4, <2>5, <2>6, <2>7 DEF CountIn
<1>4. \A t : /\ HiddenIn(s, t) \in Int
             /\ HiddenIn(u, t) = HiddenIn(s, t) + (IF l.says = "hidden" /\ l.test = t THEN l.num ELSE 0)
  BY HiddenOne
<1> HIDE DEF u
<1>5. Numbers(s)
  BY <1>2, <1>3, <1>4 DEF Numbers
<1>6. Adds(s, u, TRUE, l)
  BY <1>2, <1>3, <1>4 DEF Adds
<1> QED
  BY <1>1, <1>5, <1>6 DEF u

\* One line more, or none.
LEMMA TellsLine ==
  ASSUME NEW s, NEW c, NEW l, Known(s), l.says = "hidden" => l.num \in Nat
  PROVE  /\ Known(s \o Line(c, l)) /\ Numbers(s) /\ Adds(s, s \o Line(c, l), c, l)
         /\ Range(s \o Line(c, l)) = Range(s) \cup {x \in {l} : c}
<1>1. Range(s \o Line(c, l)) = Range(s) \cup {x \in {l} : c}
  BY FewLines, ConcatLines DEF Known
<1>2. CASE c
  <2>1. Line(c, l) = <<l>>
    BY <1>2 DEF Line
  <2>2. Known(s \o <<l>>) /\ Numbers(s) /\ Adds(s, s \o <<l>>, TRUE, l)
    BY TellsOne
  <2> QED
    BY <1>1, <1>2, <2>1, <2>2 DEF Adds
<1>3. CASE ~c
  <2>1. s \o Line(c, l) = s
    <3>1. Line(c, l) = <<>> /\ s \in Seq(Range(s))
      BY <1>3 DEF Line, Known, IsLines
    <3> QED
      BY <3>1, ConcatEmptySeq
  <2>2. Numbers(s)
    BY TellsOne
  <2>3. Adds(s, s, c, l)
    BY <1>3, <2>2 DEF Adds, Numbers
  <2> QED
    BY <1>1, <2>1, <2>2, <2>3
<1> QED
  BY <1>2, <1>3

\* Another kind of line says nothing of requirements, another test's nothing of this one,
\* and only a test's line begins one.
LEMMA AddsNothing ==
  ASSUME NEW s, NEW u, NEW c, NEW l, Numbers(s), Adds(s, u, c, l)
  PROVE  /\ (c => l.says # "test") =>
              Cardinality(Where(u, "test")) = Cardinality(Where(s, "test"))
         /\ c /\ l.says = "test" => Cardinality(Where(u, "test")) = Cardinality(Where(s, "test")) + 1
         /\ \A t : (c => l.says # "hidden" \/ l.test # t) => HiddenIn(u, t) = HiddenIn(s, t)
         /\ \A t : (c => l.says # "requirement" \/ l.test # t) =>
              \A p : ShownIn(u, t, p) = ShownIn(s, t, p)
<1>1. ASSUME NEW t, c => l.says # "hidden" \/ l.test # t PROVE HiddenIn(u, t) = HiddenIn(s, t)
  <2>1. HiddenIn(u, t) = HiddenIn(s, t) + 0 /\ HiddenIn(s, t) \in Int
    BY <1>1 DEF Adds, Numbers
  <2> QED
    BY <2>1
<1>2. ASSUME NEW t, c => l.says # "requirement" \/ l.test # t, NEW p
      PROVE  ShownIn(u, t, p) = ShownIn(s, t, p)
  <2>1. ShownIn(u, t, p) = ShownIn(s, t, p) + 0 /\ ShownIn(s, t, p) \in Nat
    BY <1>2 DEF Adds, Numbers
  <2> QED
    BY <2>1
<1>3. ASSUME c => l.says # "test"
      PROVE  Cardinality(Where(u, "test")) = Cardinality(Where(s, "test"))
  <2>1. /\ Cardinality(Where(u, "test")) = Cardinality(Where(s, "test")) + 0
        /\ Cardinality(Where(s, "test")) \in Nat
    BY <1>3 DEF Adds, Numbers
  <2> QED
    BY <2>1
<1>4. c /\ l.says = "test" => Cardinality(Where(u, "test")) = Cardinality(Where(s, "test")) + 1
  BY DEF Adds
<1> QED
  BY <1>1, <1>2, <1>3, <1>4

\* A line of hidden requirements counts them.
LEMMA AddsHidden ==
  ASSUME NEW s, NEW u, NEW c, NEW l, Numbers(s), Adds(s, u, c, l), l.says = "hidden", l.num \in Nat
  PROVE  HiddenIn(u, l.test) = HiddenIn(s, l.test) + (IF c THEN l.num ELSE 0)
BY DEF Adds

\* Lines that are not about a test say nothing of it.
LEMMA NothingOf ==
  ASSUME NEW s, Known(s), NEW t,
         \A l \in Range(s) : l.says \in {"requirement", "hidden"} => l.test # t
  PROVE  HiddenIn(s, t) = 0 /\ \A p : ShownIn(s, t, p) = 0
<1>1. \A i \in DOMAIN s : s[i] \in Range(s)
  BY DEF Range
<1>2. ASSUME NEW p PROVE ShownIn(s, t, p) = 0
  <2>1. {i \in Where(s, "requirement") : s[i].test = t /\ s[i].passed = p} = {}
    BY <1>1 DEF Where
  <2> QED
    BY <2>1, FS_EmptySet DEF ShownIn
<1>3. HiddenIn(s, t) = 0
  <2> DEFINE H == [i \in DOMAIN s |-> IF i \in Where(s, "hidden") /\ s[i].test = t THEN s[i].num ELSE 0]
  <2>1. Len(s) \in Nat /\ DOMAIN s = 1..Len(s)
    BY LenProperties DEF Known, IsLines
  <2>2. \A i \in 1..Len(s) : H[i] = 0
    BY <1>1, <2>1 DEF Where
  <2>3. H \in Seq(Int) /\ Len(H) = Len(s)
    <3>1. H = [i \in 1..Len(s) |-> 0]
      BY <2>1, <2>2
    <3> QED
      BY <2>1, <3>1
  <2> HIDE DEF H
  <2> QED
    BY <2>2, <2>3, SumZero DEF HiddenIn, H
<1> QED
  BY <1>2, <1>3


\* The answers of the test in progress: none at first, one more with each requirement,
\* and all of them passed or failed.
LEMMA Answers ==
  ASSUME reqs \in Seq(BOOLEAN)
  PROVE  /\ Answered(TRUE) \in Nat /\ Answered(FALSE) \in Nat
         /\ Answered(TRUE) = Cardinality({i \in DOMAIN reqs : reqs[i]})
         /\ Answered(FALSE) = Len(reqs) - Answered(TRUE)
         /\ reqs' = <<>> => Answered(TRUE)' = 0 /\ Answered(FALSE)' = 0
         /\ \A b \in BOOLEAN : reqs' = Append(reqs, b) =>
              /\ Answered(TRUE)' = IF b THEN Answered(TRUE) + 1 ELSE Answered(TRUE)
              /\ Answered(FALSE)' = IF b THEN Answered(FALSE) ELSE Answered(FALSE) + 1
<1> DEFINE n == Len(reqs)
           Y == {i \in DOMAIN reqs : reqs[i] = TRUE}
           N == {i \in DOMAIN reqs : reqs[i] = FALSE}
<1>1. n \in Nat /\ DOMAIN reqs = 1..n /\ \A i \in 1..n : reqs[i] \in BOOLEAN
  BY LenProperties, ElementOfSeq
<1>2. IsFiniteSet(1..n) /\ Cardinality(1..n) = n
  <2>1. 1 \in Int /\ n \in Int /\ (1 > n => n = 0) /\ n - 1 + 1 = n
    BY <1>1
  <2> HIDE DEF n
  <2> QED
    BY <2>1, FS_Interval
<1>3. Y \in SUBSET (1..n) /\ N = (1..n) \ Y
  BY <1>1
<1>4. Y = {i \in DOMAIN reqs : reqs[i]}
  BY <1>1
<1>5. Cardinality(N) = n - Cardinality(Y) /\ Cardinality(Y) \in Nat /\ Cardinality(N) \in Nat
  <2>1. (1..n) \cap Y = Y /\ IsFiniteSet(Y) /\ IsFiniteSet(N)
    BY <1>2, <1>3, FS_Subset, FS_Difference
  <2>2. Cardinality((1..n) \ Y) = Cardinality(1..n) - Cardinality((1..n) \cap Y)
    <3> HIDE DEF n, Y, N
    <3> QED
      BY <1>2, FS_Difference
  <2> HIDE DEF n, Y, N
  <2> QED
    BY <1>2, <1>3, <2>1, <2>2, FS_CardinalityType
<1>6. Answered(TRUE) = Cardinality(Y) /\ Answered(FALSE) = Cardinality(N)
  BY DEF Answered
<1>7. ASSUME reqs' = <<>> PROVE Answered(TRUE)' = 0 /\ Answered(FALSE)' = 0
  <2>1. \A p : {i \in DOMAIN reqs' : reqs'[i] = p} = {}
    BY <1>7
  <2> QED
    BY <2>1, FS_EmptySet DEF Answered
<1>8. ASSUME NEW b \in BOOLEAN, reqs' = Append(reqs, b)
      PROVE  \A p \in BOOLEAN : Answered(p)' = Answered(p) + (IF b = p THEN 1 ELSE 0)
  <2> SUFFICES ASSUME NEW p \in BOOLEAN PROVE Answered(p)' = Answered(p) + (IF b = p THEN 1 ELSE 0)
    OBVIOUS
  <2>1. reqs' = reqs \o <<b>>
    BY <1>8
  <2>2. IsLines(reqs)
    BY <1>1 DEF IsLines, Range
  <2>3. CountIn(reqs \o <<b>>, {p}) = CountIn(reqs, {p}) + (IF b \in {p} THEN 1 ELSE 0)
    BY <2>2, CountOne
  <2>4. Answered(p) = CountIn(reqs, {p}) /\ Answered(p)' = CountIn(reqs', {p})
    BY DEF Answered, CountIn
  <2> QED
    BY <2>1, <2>3, <2>4
<1>9. Answered(TRUE) \in Nat /\ Answered(FALSE) \in Nat /\ Answered(FALSE) = n - Answered(TRUE)
  <2> HIDE DEF Y, N
  <2> QED
    BY <1>5, <1>6
<1>10. ASSUME NEW b \in BOOLEAN, reqs' = Append(reqs, b)
       PROVE  /\ Answered(TRUE)' = IF b THEN Answered(TRUE) + 1 ELSE Answered(TRUE)
              /\ Answered(FALSE)' = IF b THEN Answered(FALSE) ELSE Answered(FALSE) + 1
  <2>1. \A p \in BOOLEAN : Answered(p)' = Answered(p) + (IF b = p THEN 1 ELSE 0)
    BY <1>8, <1>10
  <2>2. PICK y \in Nat, f \in Nat : y = Answered(TRUE) /\ f = Answered(FALSE)
    BY <1>9
  <2>3. Answered(TRUE)' = y + (IF b THEN 1 ELSE 0) /\ Answered(FALSE)' = f + (IF b THEN 0 ELSE 1)
    BY <2>1, <2>2
  <2>4. y + 0 = y /\ f + 0 = f
    OBVIOUS
  <2> QED
    BY <2>2, <2>3, <2>4, Zenon
<1> QED
  BY <1>4, <1>6, <1>7, <1>9, <1>10

\* A test begins.
LEMMA TestAccounts ==
  ASSUME NEW v \in Levels, v >= Summary, StateOK, Known(screen[v]), Accounts(v, screen[v]),
         pc = "tests", pc' = "body", results' = results, reqs' = <<>>,
         screen'[v] = screen[v] \o on_test_begin(v)
  PROVE  Accounts(v, screen[v])'
<1> DEFINE s == screen[v]
           u == screen'[v]
           n == Len(results)
           c == should_output_test(v)
           l == [says |-> "test", test |-> n + 1]
<1>1. /\ Known(s) /\ Numbers(s) /\ Adds(s, s \o Line(c, l), c, l)
      /\ Range(s \o Line(c, l)) = Range(s) \cup {x \in {l} : c}
  BY TellsLine
<1>2. u = s \o Line(c, l) /\ c
  BY DEF on_test_begin, should_output_test
<1>3. l.says = "test"
  OBVIOUS
<1>4. n \in Nat /\ Begun = n + 0 /\ Begun' = n + 1 /\ DOMAIN results = 1..n
  <2>1. n \in Nat /\ DOMAIN results = 1..n
    BY LenProperties DEF StateOK
  <2> QED
    BY <2>1 DEF Begun
<1> HIDE DEF s, u, n, c, l
<1>5. Cardinality(Where(u, "test")) = Begun'
  <2>1. Cardinality(Where(s, "test")) = n
    BY <1>4 DEF Accounts, s
  <2>2. Cardinality(Where(u, "test")) = Cardinality(Where(s, "test")) + 1
    BY <1>1, <1>2, <1>3, AddsNothing
  <2> QED
    BY <1>4, <2>1, <2>2
<1>6. \A t : HiddenIn(u, t) = HiddenIn(s, t) /\ \A p : ShownIn(u, t, p) = ShownIn(s, t, p)
  <2>1. l.says # "hidden" /\ l.says # "requirement"
    BY <1>3
  <2>2. Numbers(s) /\ Adds(s, u, c, l)
    BY <1>1, <1>2
  <2>3. \A t : HiddenIn(u, t) = HiddenIn(s, t)
    BY <2>1, <2>2, AddsNothing
  <2>4. \A t, p : ShownIn(u, t, p) = ShownIn(s, t, p)
    BY <2>1, <2>2, AddsNothing
  <2> QED
    BY <2>3, <2>4
<1>7. \A x \in Range(s) : x.says \in {"requirement", "hidden"} => x.test \in 1..n
  BY <1>4 DEF Accounts, s
<1>8. \A x \in Range(u) : x.says \in {"requirement", "hidden"} => x.test \in 1..Begun'
  <2>1. \A x \in Range(u) : x \in Range(s) \/ x = l
    BY <1>1, <1>2
  <2>2. \A k \in 1..n : k \in 1..Begun'
    BY <1>4
  <2> QED
    BY <1>3, <1>7, <2>1, <2>2
<1>9. \A i \in DOMAIN results :
        /\ ShownIn(u, i, TRUE) + HiddenIn(u, i) = results[i].num_passed
        /\ ShownIn(u, i, FALSE) = Failed(results[i])
  BY <1>6 DEF Accounts, s
<1>10. HiddenIn(u, n + 1) = 0 /\ \A p : ShownIn(u, n + 1, p) = 0
  <2>1. \A x \in Range(s) : x.says \in {"requirement", "hidden"} => x.test # n + 1
    BY <1>4, <1>7
  <2> QED
    BY <1>1, <1>6, <2>1, NothingOf
<1>11. Answered(TRUE)' = 0 /\ Answered(FALSE)' = 0
  BY Answers DEF StateOK
<1> QED
  BY <1>4, <1>5, <1>8, <1>9, <1>10, <1>11 DEF Accounts, u

\* A requirement is checked.
LEMMA RequirementAccounts ==
  ASSUME NEW v \in Levels, v >= Summary, StateOK, Known(screen[v]), Accounts(v, screen[v]),
         NEW b \in BOOLEAN, NEW d,
         pc = "body", pc' = "body", results' = results, reqs' = Append(reqs, b),
         screen'[v] = screen[v] \o on_requirement_result(v, b, d)
  PROVE  Accounts(v, screen[v])'
<1> DEFINE s == screen[v]
           u == screen'[v]
           n == Len(results)
           c == should_output_requirement(v, b)
           l == [says |-> "requirement", test |-> n + 1, passed |-> b,
                 description |-> d, cnt |-> repeat_requirements_[v][d]]
<1>1. /\ Known(s) /\ Numbers(s) /\ Adds(s, s \o Line(c, l), c, l)
      /\ Range(s \o Line(c, l)) = Range(s) \cup {x \in {l} : c}
  BY TellsLine
<1>2. u = s \o Line(c, l)
  BY DEF on_requirement_result
<1>3. /\ l.says = "requirement" /\ l.test = n + 1 /\ l.passed = b
      /\ c <=> v >= All \/ ~b
  BY DEF should_output_requirement
<1>4. n \in Nat /\ Begun = n + 1 /\ Begun' = n + 1 /\ DOMAIN results = 1..n
  <2>1. n \in Nat /\ DOMAIN results = 1..n
    BY LenProperties DEF StateOK
  <2> QED
    BY <2>1 DEF Begun
<1> HIDE DEF s, u, n, l, c
<1>5. Cardinality(Where(u, "test")) = Begun'
  <2>1. Cardinality(Where(u, "test")) = Cardinality(Where(s, "test"))
    BY <1>1, <1>2, <1>3, AddsNothing
  <2> QED
    BY <1>4, <2>1 DEF Accounts, s
<1>6. \A x \in Range(u) : x.says \in {"requirement", "hidden"} => x.test \in 1..Begun'
  <2>1. \A x \in Range(s) : x.says \in {"requirement", "hidden"} => x.test \in 1..n+1
    BY <1>4 DEF Accounts, s
  <2>2. n + 1 \in 1..n+1
    BY <1>4
  <2> QED
    BY <1>1, <1>2, <1>3, <1>4, <2>1, <2>2
<1>7. \A t : HiddenIn(u, t) = HiddenIn(s, t)
  BY <1>1, <1>2, <1>3, AddsNothing
<1>8. ASSUME NEW i \in 1..n, NEW p PROVE ShownIn(u, i, p) = ShownIn(s, i, p)
  <2>1. l.test # i
    BY <1>3, <1>4
  <2> QED
    BY <1>1, <1>2, <2>1, AddsNothing
<1>9. \A i \in DOMAIN results :
        /\ ShownIn(u, i, TRUE) + HiddenIn(u, i) = results[i].num_passed
        /\ ShownIn(u, i, FALSE) = Failed(results[i])
  BY <1>4, <1>7, <1>8 DEF Accounts, s
<1>10. /\ ShownIn(s, n + 1, TRUE) = IF v >= All THEN Answered(TRUE) ELSE 0
       /\ HiddenIn(s, n + 1) = 0
       /\ ShownIn(s, n + 1, FALSE) = Answered(FALSE)
  BY <1>4 DEF Accounts, s
<1>11. /\ Answered(TRUE)' = IF b THEN Answered(TRUE) + 1 ELSE Answered(TRUE)
       /\ Answered(FALSE)' = IF b THEN Answered(FALSE) ELSE Answered(FALSE) + 1
       /\ Answered(TRUE) \in Nat /\ Answered(FALSE) \in Nat
  BY Answers DEF StateOK
<1>12. \A p : ShownIn(u, n + 1, p) = ShownIn(s, n + 1, p) + (IF c /\ b = p THEN 1 ELSE 0)
  BY <1>1, <1>2, <1>3 DEF Adds
<1>13. PICK x \in Nat, y \in Nat : x = ShownIn(s, n + 1, TRUE) /\ y = ShownIn(s, n + 1, FALSE)
  BY <1>1 DEF Numbers
<1>14. x + 0 = x /\ y + 0 = y
  OBVIOUS
<1>15. ShownIn(u, n + 1, TRUE) = IF v >= All THEN Answered(TRUE)' ELSE 0
  <2>1. ShownIn(u, n + 1, TRUE) = x + (IF v >= All /\ b THEN 1 ELSE 0)
    BY <1>3, <1>12, <1>13
  <2>2. CASE v >= All
    <3>1. ShownIn(u, n + 1, TRUE) = x + (IF b THEN 1 ELSE 0) /\ x = Answered(TRUE)
      BY <1>10, <1>13, <2>1, <2>2
    <3> QED
      BY <1>11, <1>14, <2>2, <3>1, Zenon
  <2>3. CASE ~(v >= All)
    <3>1. ShownIn(u, n + 1, TRUE) = x + 0 /\ x = 0
      BY <1>10, <1>13, <2>1, <2>3
    <3> QED
      BY <1>14, <2>3, <3>1, Zenon
  <2> QED
    BY <2>2, <2>3
<1>16. ShownIn(u, n + 1, FALSE) = Answered(FALSE)'
  <2>1. ShownIn(u, n + 1, FALSE) = y + (IF b THEN 0 ELSE 1) /\ y = Answered(FALSE)
    BY <1>3, <1>10, <1>12, <1>13
  <2> QED
    BY <1>11, <1>14, <2>1, Zenon
<1> QED
  BY <1>4, <1>5, <1>6, <1>7, <1>9, <1>10, <1>15, <1>16 DEF Accounts, u


\* Lines are appended one group after another.
LEMMA AppendGroups ==
  ASSUME NEW s, NEW t, NEW u, IsLines(s), IsLines(t), IsLines(u)
  PROVE  s \o (t \o u) = (s \o t) \o u
<1> DEFINE S == Range(s) \cup Range(t) \cup Range(u)
<1>1. s \in Seq(S) /\ t \in Seq(S) /\ u \in Seq(S)
  <2>1. /\ s \in Seq(Range(s)) /\ t \in Seq(Range(t)) /\ u \in Seq(Range(u))
        /\ Range(s) \subseteq S /\ Range(t) \subseteq S /\ Range(u) \subseteq S
    BY DEF IsLines
  <2> HIDE DEF S
  <2> QED
    BY <2>1, SeqMonotonic
<1> HIDE DEF S
<1> QED
  BY <1>1, ConcatAssociative

\* u is s with two lines more, each if its condition holds: one without requirements, and
\* one of hidden ones.
TwoMore(s, u, c, l, h, m) ==
  /\ u = s \o (Line(c, l) \o Line(h, m))
  /\ l.says = "no requirements" /\ m.says = "hidden" /\ m.num \in Nat

\* The two lines of a test's end.
LEMMA TellsTwo ==
  ASSUME NEW s, NEW c, NEW l, NEW h, NEW m, NEW u, Known(s), TwoMore(s, u, c, l, h, m)
  PROVE  /\ \A x \in Range(u) : x \in Range(s) \/ x = l \/ x = m
         /\ Cardinality(Where(u, "test")) = Cardinality(Where(s, "test"))
         /\ \A t, p : ShownIn(u, t, p) = ShownIn(s, t, p)
         /\ \A t : t # m.test => HiddenIn(u, t) = HiddenIn(s, t)
         /\ HiddenIn(u, m.test) = HiddenIn(s, m.test) + (IF h THEN m.num ELSE 0)
<1> DEFINE w == s \o Line(c, l)
<1>1. /\ l.says # "test" /\ l.says # "hidden" /\ l.says # "requirement"
      /\ m.says # "test" /\ m.says # "requirement" /\ m.says = "hidden"
  BY DEF TwoMore
<1>2. u = w \o Line(h, m)
  <2>1. IsLines(s) /\ IsLines(Line(c, l)) /\ IsLines(Line(h, m))
    BY FewLines DEF Known
  <2>2. u = s \o (Line(c, l) \o Line(h, m))
    BY DEF TwoMore
  <2> QED
    BY <2>1, <2>2, AppendGroups
<1>3. /\ Known(w) /\ Numbers(s) /\ Adds(s, w, c, l)
      /\ Range(w) = Range(s) \cup {x \in {l} : c}
  <2>1. l.says = "hidden" => l.num \in Nat
    BY <1>1
  <2> QED
    BY <2>1, TellsLine
<1> HIDE DEF w
<1>4. /\ Numbers(w) /\ Adds(w, u, h, m)
      /\ Range(u) = Range(w) \cup {x \in {m} : h}
  <2>1. m.says = "hidden" => m.num \in Nat
    BY DEF TwoMore
  <2> QED
    BY <1>2, <1>3, <2>1, TellsLine
<1>5. /\ Cardinality(Where(w, "test")) = Cardinality(Where(s, "test"))
      /\ \A t : HiddenIn(w, t) = HiddenIn(s, t)
      /\ \A t, p : ShownIn(w, t, p) = ShownIn(s, t, p)
  <2>1. Cardinality(Where(w, "test")) = Cardinality(Where(s, "test"))
    BY <1>1, <1>3, AddsNothing
  <2>2. \A t : HiddenIn(w, t) = HiddenIn(s, t)
    BY <1>1, <1>3, AddsNothing
  <2>3. \A t, p : ShownIn(w, t, p) = ShownIn(s, t, p)
    BY <1>1, <1>3, AddsNothing
  <2> QED
    BY <2>1, <2>2, <2>3
<1>6. /\ Cardinality(Where(u, "test")) = Cardinality(Where(w, "test"))
      /\ \A t : t # m.test => HiddenIn(u, t) = HiddenIn(w, t)
      /\ \A t, p : ShownIn(u, t, p) = ShownIn(w, t, p)
  <2>1. Cardinality(Where(u, "test")) = Cardinality(Where(w, "test"))
    BY <1>1, <1>4, AddsNothing
  <2>2. \A t : t # m.test => HiddenIn(u, t) = HiddenIn(w, t)
    BY <1>4, AddsNothing
  <2>3. \A t, p : ShownIn(u, t, p) = ShownIn(w, t, p)
    BY <1>1, <1>4, AddsNothing
  <2> QED
    BY <2>1, <2>2, <2>3
<1>7. HiddenIn(u, m.test) = HiddenIn(w, m.test) + (IF h THEN m.num ELSE 0)
  BY <1>1, <1>4 DEF Adds
<1>8. \A x \in Range(u) : x \in Range(s) \/ x = l \/ x = m
  BY <1>3, <1>4
<1> QED
  BY <1>5, <1>6, <1>7, <1>8

\* What a test's end changes for a level.
TestEnds(v, r) ==
  /\ pc = "body" /\ pc' = "tests" /\ results' = Append(results, r)
  /\ screen'[v] = screen[v] \o on_test_result(v, r)
  /\ r.num_passed = Answered(TRUE) /\ r.num_total = Len(reqs)

\* A test ends: the requirements that passed have been written, or are said to be hidden.
LEMMA ResultAccounts ==
  ASSUME NEW v \in Levels, v >= Summary, StateOK, Known(screen[v]), Accounts(v, screen[v]),
         NEW r \in TestResults, TestEnds(v, r)
  PROVE  Accounts(v, screen[v])'
<1> DEFINE s == screen[v]
           u == screen'[v]
           n == Len(results)
           k == r.num_passed
           l == [says |-> "no requirements", test |-> n + 1]
           m == [says |-> "hidden", test |-> n + 1, num |-> k]
           c == r.num_total = 0
           h == k > 0 /\ ~(v >= All)
<1>1. /\ n \in Nat /\ Begun = n + 1 /\ Begun' = n + 1
      /\ DOMAIN results = 1..n /\ DOMAIN results' = 1..n+1
      /\ results'[n + 1] = r /\ \A i \in 1..n : results'[i] = results[i]
  <2>1. n \in Nat /\ DOMAIN results = 1..n
    BY LenProperties DEF StateOK
  <2>2. /\ Len(results') = n + 1 /\ DOMAIN results' = 1..n+1 /\ results'[n + 1] = r
        /\ \A i \in 1..n : results'[i] = results[i]
    BY <2>1 DEF TestEnds, StateOK
  <2> QED
    BY <2>1, <2>2 DEF Begun, TestEnds
<1>2. /\ k \in Nat /\ r.num_total \in Nat
      /\ Answered(TRUE) = k /\ Answered(FALSE) = r.num_total - k
  BY Answers DEF TestResults, StateOK, TestEnds
<1>3. /\ l.says = "no requirements" /\ l.says \notin {"requirement", "hidden"}
      /\ m.says = "hidden" /\ m.test = n + 1 /\ m.num = k
  OBVIOUS
<1>4. TwoMore(s, u, c, l, h, m)
  <2>1. should_output_test(v) /\ (should_output_requirement(v, TRUE) <=> v >= All)
    BY DEF should_output_test, should_output_requirement
  <2>2. u = s \o (Line(c, l) \o Line(h, m))
    BY <2>1 DEF on_test_result, Line, TestEnds
  <2> QED
    BY <1>2, <2>2 DEF TwoMore
<1>5. k \in Nat /\ (h <=> k > 0 /\ ~(v >= All))
  BY <1>2
<1> HIDE DEF s, u, n, k, l, m, c, h
<1>6. /\ \A x \in Range(u) : x \in Range(s) \/ x = l \/ x = m
      /\ Cardinality(Where(u, "test")) = Cardinality(Where(s, "test"))
      /\ \A t, p : ShownIn(u, t, p) = ShownIn(s, t, p)
      /\ \A t : t # n + 1 => HiddenIn(u, t) = HiddenIn(s, t)
      /\ HiddenIn(u, n + 1) = HiddenIn(s, n + 1) + (IF h THEN k ELSE 0)
  <2>1. Known(s)
    BY DEF s
  <2> QED
    <3>1. /\ \A x \in Range(u) : x \in Range(s) \/ x = l \/ x = m
          /\ Cardinality(Where(u, "test")) = Cardinality(Where(s, "test"))
          /\ \A t, p : ShownIn(u, t, p) = ShownIn(s, t, p)
          /\ \A t : t # m.test => HiddenIn(u, t) = HiddenIn(s, t)
          /\ HiddenIn(u, m.test) = HiddenIn(s, m.test) + (IF h THEN m.num ELSE 0)
      BY <1>4, <2>1, TellsTwo
    <3>2. m.test = n + 1 /\ m.num = k
      BY <1>3
    <3> QED
      BY <3>1, <3>2, Zenon
<1>7. Cardinality(Where(u, "test")) = Begun'
  BY <1>1, <1>6 DEF Accounts, s
<1>8. \A x \in Range(u) : x.says \in {"requirement", "hidden"} => x.test \in 1..Begun'
  <2>1. \A x \in Range(s) : x.says \in {"requirement", "hidden"} => x.test \in 1..n+1
    BY <1>1 DEF Accounts, s
  <2>2. n + 1 \in 1..n+1
    BY <1>1
  <2> QED
    BY <1>1, <1>3, <1>6, <2>1, <2>2
<1>9. \A i \in 1..n : /\ ShownIn(u, i, TRUE) + HiddenIn(u, i) = results[i].num_passed
                      /\ ShownIn(u, i, FALSE) = Failed(results[i])
  <2>1. \A i \in 1..n : i # n + 1
    BY <1>1
  <2>2. \A i \in 1..n : /\ ShownIn(s, i, TRUE) + HiddenIn(s, i) = results[i].num_passed
                        /\ ShownIn(s, i, FALSE) = Failed(results[i])
    BY <1>1 DEF Accounts, s
  <2> QED
    BY <1>6, <2>1, <2>2
<1>10. /\ ShownIn(s, n + 1, TRUE) = IF v >= All THEN k ELSE 0
       /\ HiddenIn(s, n + 1) = 0
       /\ ShownIn(s, n + 1, FALSE) = r.num_total - k
  BY <1>1, <1>2 DEF Accounts, s, TestEnds
<1>11. ShownIn(u, n + 1, TRUE) + HiddenIn(u, n + 1) = k
  <2>1. HiddenIn(u, n + 1) = 0 + (IF h THEN k ELSE 0)
    BY <1>6, <1>10, Zenon
  <2>2. ShownIn(u, n + 1, TRUE) = IF v >= All THEN k ELSE 0
    BY <1>6, <1>10, Zenon
  <2>3. 0 + k = k /\ k + 0 = k /\ 0 + 0 = 0 /\ (k = 0 \/ k > 0)
    BY <1>2
  <2> QED
    BY <1>5, <2>1, <2>2, <2>3, Zenon
<1>12. ShownIn(u, n + 1, FALSE) = Failed(r)
  BY <1>6, <1>10 DEF Failed, k
<1>13. \A i \in DOMAIN results' :
         /\ ShownIn(u, i, TRUE) + HiddenIn(u, i) = results'[i].num_passed
         /\ ShownIn(u, i, FALSE) = Failed(results'[i])
  <2>1. \A i \in 1..n+1 : i \in 1..n \/ i = n + 1
    BY <1>1
  <2> SUFFICES ASSUME NEW i \in 1..n+1
               PROVE  /\ ShownIn(u, i, TRUE) + HiddenIn(u, i) = results'[i].num_passed
                      /\ ShownIn(u, i, FALSE) = Failed(results'[i])
    BY <1>1
  <2>2. CASE i \in 1..n
    BY <1>1, <1>9, <2>2
  <2>3. CASE i = n + 1
    BY <1>1, <1>11, <1>12, <2>3 DEF k
  <2> QED
    BY <2>1, <2>2, <2>3
<1>14. pc' # "body"
  BY DEF TestEnds
<1> QED
  BY <1>7, <1>8, <1>13, <1>14 DEF Accounts, u, Failed

\* u is s with two lines more, each if its condition holds, that say nothing of tests.
TwoOthers(s, u, c, l, h, m) ==
  /\ u = s \o (Line(c, l) \o Line(h, m))
  /\ l.says \notin {"test", "requirement", "hidden"}
  /\ m.says \notin {"test", "requirement", "hidden"}

\* Such lines change no count.
LEMMA TellsOthers ==
  ASSUME NEW s, NEW c, NEW l, NEW h, NEW m, NEW u, Known(s), TwoOthers(s, u, c, l, h, m)
  PROVE  /\ \A x \in Range(u) : x \in Range(s) \/ (c /\ x = l) \/ (h /\ x = m)
         /\ Cardinality(Where(u, "test")) = Cardinality(Where(s, "test"))
         /\ \A t, p : ShownIn(u, t, p) = ShownIn(s, t, p)
         /\ \A t : HiddenIn(u, t) = HiddenIn(s, t)
<1> DEFINE w == s \o Line(c, l)
<1>1. /\ l.says # "test" /\ l.says # "hidden" /\ l.says # "requirement"
      /\ m.says # "test" /\ m.says # "hidden" /\ m.says # "requirement"
  BY DEF TwoOthers
<1>2. u = w \o Line(h, m)
  <2>1. IsLines(s) /\ IsLines(Line(c, l)) /\ IsLines(Line(h, m))
    BY FewLines DEF Known
  <2>2. u = s \o (Line(c, l) \o Line(h, m))
    BY DEF TwoOthers
  <2> QED
    BY <2>1, <2>2, AppendGroups
<1>3. /\ Known(w) /\ Numbers(s) /\ Adds(s, w, c, l)
      /\ Range(w) = Range(s) \cup {x \in {l} : c}
  <2>1. l.says = "hidden" => l.num \in Nat
    BY <1>1
  <2> QED
    BY <2>1, TellsLine
<1> HIDE DEF w
<1>4. /\ Numbers(w) /\ Adds(w, u, h, m)
      /\ Range(u) = Range(w) \cup {x \in {m} : h}
  <2>1. m.says = "hidden" => m.num \in Nat
    BY <1>1
  <2> QED
    BY <1>2, <1>3, <2>1, TellsLine
<1>5. Cardinality(Where(u, "test")) = Cardinality(Where(s, "test"))
  <2>1. Cardinality(Where(w, "test")) = Cardinality(Where(s, "test"))
    BY <1>1, <1>3, AddsNothing
  <2>2. Cardinality(Where(u, "test")) = Cardinality(Where(w, "test"))
    BY <1>1, <1>4, AddsNothing
  <2> QED
    BY <2>1, <2>2
<1>6. \A t : HiddenIn(u, t) = HiddenIn(s, t)
  <2>1. \A t : HiddenIn(w, t) = HiddenIn(s, t)
    BY <1>1, <1>3, AddsNothing
  <2>2. \A t : HiddenIn(u, t) = HiddenIn(w, t)
    BY <1>1, <1>4, AddsNothing
  <2> QED
    BY <2>1, <2>2
<1>7. \A t, p : ShownIn(u, t, p) = ShownIn(s, t, p)
  <2>1. \A t, p : ShownIn(w, t, p) = ShownIn(s, t, p)
    BY <1>1, <1>3, AddsNothing
  <2>2. \A t, p : ShownIn(u, t, p) = ShownIn(w, t, p)
    BY <1>1, <1>4, AddsNothing
  <2> QED
    BY <2>1, <2>2
<1>8. \A x \in Range(u) : x \in Range(s) \/ (c /\ x = l) \/ (h /\ x = m)
  BY <1>3, <1>4
<1> QED
  BY <1>5, <1>6, <1>7, <1>8

\* What a level's lines are required to say of the tests.
Sound(v) == Concludes(screen[v]) /\ (v >= Summary => Accounts(v, screen[v]))

\* What the end of the tests changes for a level.
TestsEnd(v) ==
  /\ pc = "tests" /\ pc' = "summary" /\ UNCHANGED <<results, num_total>>
  /\ screen'[v] = screen[v] \o on_assignment_result(v)

\* The tests end: the score and the verdict are those of the state they are said in.
LEMMA ConclusionAccounts ==
  ASSUME NEW v \in Levels, StateOK, Known(screen[v]), Sound(v), TestsEnd(v)
  PROVE  Sound(v)'
<1> DEFINE s == screen[v]
           u == screen'[v]
           l == Score
           m == Verdict
           c == should_output_grade_percentage(v)
           h == should_output_student_summary(v)
<1>1. /\ l.says = "score" /\ m.says \in {"counts", "all tests passed"}
      /\ l.says \notin {"test", "requirement", "hidden"}
      /\ m.says \notin {"test", "requirement", "hidden"}
  BY DEF Score, Verdict
<1>2. TwoOthers(s, u, c, l, h, m)
  <2>1. u = s \o (Line(c, l) \o Line(h, m))
    BY DEF TestsEnd, on_assignment_result
  <2> HIDE DEF s, u, l, m, c, h
  <2> QED
    BY <1>1, <2>1 DEF TwoOthers
<1>3. Score' = l /\ Verdict' = m
  <2>1. results' = results /\ num_total' = num_total
    BY DEF TestsEnd
  <2> QED
    BY <2>1 DEF Score, Verdict, RequirementsPassed, RequirementsFailed, PassedWeighted,
                TotalWeighted, AllPassed, Passed, Failed, TestsFailed, SumOf, Sums
<1>4. Concludes(s) /\ (v >= Summary => Accounts(v, s))
  BY DEF Sound
<1>5. Known(s)
  OBVIOUS
<1> HIDE DEF s, u, l, m, c, h
<1>6. /\ \A x \in Range(u) : x \in Range(s) \/ (c /\ x = l) \/ (h /\ x = m)
      /\ Cardinality(Where(u, "test")) = Cardinality(Where(s, "test"))
      /\ \A t, p : ShownIn(u, t, p) = ShownIn(s, t, p)
      /\ \A t : HiddenIn(u, t) = HiddenIn(s, t)
  BY <1>2, <1>5, TellsOthers
<1>7. Concludes(screen[v])'
  <2> SUFFICES ASSUME NEW x \in Range(u)
               PROVE  /\ x.says = "score" => pc' = "summary" /\ x = l
                      /\ x.says \in {"counts", "all tests passed"} => pc' = "summary" /\ x = m
    BY <1>3 DEF Concludes, u
  <2>1. x \in Range(s) => x.says \notin {"score", "counts", "all tests passed"}
    BY <1>4 DEF Concludes, TestsEnd
  <2>2. x \in Range(s) \/ x = l \/ x = m
    BY <1>6
  <2>3. pc' = "summary"
    BY DEF TestsEnd
  <2> QED
    BY <1>1, <2>1, <2>2, <2>3
<1>8. ASSUME v >= Summary PROVE Accounts(v, screen[v])'
  <2>1. Begun = Len(results) + 0 /\ Begun' = Len(results) + 0 /\ results' = results /\ pc' # "body"
    BY DEF Begun, TestsEnd
  <2>2. Cardinality(Where(u, "test")) = Begun'
    BY <1>4, <1>6, <1>8, <2>1 DEF Accounts
  <2>3. \A x \in Range(u) : x.says \in {"requirement", "hidden"} => x.test \in 1..Begun'
    <3>1. \A x \in Range(s) : x.says \in {"requirement", "hidden"} => x.test \in 1..Begun
      BY <1>4, <1>8 DEF Accounts
    <3> QED
      BY <1>1, <1>6, <2>1, <3>1
  <2>4. \A i \in DOMAIN results :
          /\ ShownIn(u, i, TRUE) + HiddenIn(u, i) = results[i].num_passed
          /\ ShownIn(u, i, FALSE) = Failed(results[i])
    BY <1>4, <1>6, <1>8 DEF Accounts
  <2> QED
    BY <2>1, <2>2, <2>3, <2>4 DEF Accounts, u, Failed
<1> QED
  BY <1>7, <1>8 DEF Sound

\* Lines that conclude nothing are appended.
Appends(v, t) ==
  /\ IsLines(t) /\ screen'[v] = screen[v] \o t
  /\ \A l \in Range(t) : l.says \notin {"score", "counts", "all tests passed"}

\* They do not end the tests.
LEMMA OthersConclude ==
  ASSUME NEW v \in Levels, NEW t, Known(screen[v]), Concludes(screen[v]), pc # "summary", Appends(v, t)
  PROVE  Concludes(screen[v])'
<1>1. Range(screen'[v]) = Range(screen[v]) \cup Range(t)
  <2>1. IsLines(screen[v]) /\ IsLines(t)
    BY DEF Known, Appends
  <2>2. Range(screen[v] \o t) = Range(screen[v]) \cup Range(t)
    BY <2>1, ConcatLines
  <2> QED
    BY <2>2 DEF Appends
<1>2. \A l \in Range(screen[v]) : l.says \notin {"score", "counts", "all tests passed"}
  BY DEF Concludes
<1>3. \A l \in Range(screen'[v]) : l.says \notin {"score", "counts", "all tests passed"}
  BY <1>1, <1>2 DEF Appends
<1> QED
  BY <1>3 DEF Concludes

\* The lines of a student whose tests have not begun.
Fresh(v) ==
  /\ IsLines(screen'[v]) /\ pc' = "tests" /\ results' = <<>>
  /\ \A l \in Range(screen'[v]) : l.says \in {"metadata", "name", "could not locate"}

\* They say nothing of tests.
LEMMA FreshAccounts ==
  ASSUME NEW v \in Levels, Fresh(v)
  PROVE  Sound(v)'
<1> DEFINE u == screen'[v]
<1>1. Concludes(screen[v])'
  BY DEF Concludes, Fresh
<1>2. Where(u, "test") = {}
  BY DEF Where, Range, Fresh
<1>3. Begun' = 0 /\ DOMAIN results' = {}
  <2>1. Len(<<>>) + 0 = 0 /\ DOMAIN <<>> = {}
    OBVIOUS
  <2>2. Begun' = Len(<<>>) + 0
    BY Zenon DEF Begun, Fresh
  <2> QED
    BY <2>1, <2>2, Zenon DEF Fresh
<1>4. Cardinality(Where(u, "test")) = Begun'
  BY <1>2, <1>3, FS_EmptySet
<1>5. \A l \in Range(u) : l.says \notin {"requirement", "hidden"}
  BY DEF Fresh
<1>6. Accounts(v, screen[v])'
  <2>1. \A i \in DOMAIN results' :
          /\ ShownIn(u, i, TRUE) + HiddenIn(u, i) = results'[i].num_passed
          /\ ShownIn(u, i, FALSE) = Failed(results'[i])
    BY <1>3
  <2>2. \A l \in Range(u) : l.says \in {"requirement", "hidden"} => l.test \in 1..Begun'
    BY <1>5
  <2>3. pc' # "body"
    BY DEF Fresh
  <2> HIDE DEF u
  <2> QED
    BY <1>4, <2>1, <2>2, <2>3 DEF Accounts, u, Failed
<1> QED
  BY <1>1, <1>6 DEF Sound

\* Handlers write numbers, and what is appended to such lines are such lines.
LEMMA KnownLines ==
  /\ \A c, l : (l.says = "hidden" => l.num \in Nat) => Known(Line(c, l))
  /\ \A s, t : Known(s) /\ Known(t) => Known(s \o t)
<1>1. ASSUME NEW c, NEW l, l.says = "hidden" => l.num \in Nat PROVE Known(Line(c, l))
  <2>1. IsLines(Line(c, l)) /\ Range(Line(c, l)) = {x \in {l} : c}
    BY FewLines
  <2> QED
    BY <1>1, <2>1 DEF Known
<1>2. ASSUME NEW s, NEW t, Known(s), Known(t) PROVE Known(s \o t)
  <2>1. IsLines(s \o t) /\ Range(s \o t) = Range(s) \cup Range(t)
    BY <1>2, ConcatLines DEF Known
  <2> QED
    BY <1>2, <2>1 DEF Known
<1> QED
  BY <1>1, <1>2

\* The part of CountDiscipline that is about the lines of each level.
Grades == pc \in {"tests", "body", "summary"}
Screens == \A v \in Levels : Known(screen[v]) /\ (Grades => Sound(v))

\* A test is skipped.
SkipsTest(v) ==
  /\ pc = "tests" /\ pc' = "tests" /\ results' = results /\ screen'[v] = screen[v]

\* Nothing that is said or counted changes then.
LEMMA SoundStays ==
  ASSUME NEW v \in Levels, Sound(v), SkipsTest(v)
  PROVE  Sound(v)'
<1>1. \A l \in Range(screen[v]) : l.says \notin {"score", "counts", "all tests passed"}
  BY DEF Sound, Concludes, SkipsTest
<1>2. Concludes(screen[v])'
  BY <1>1 DEF Concludes, SkipsTest
<1>3. ASSUME v >= Summary PROVE Accounts(v, screen[v])'
  <2>1. Begun' = Begun
    BY DEF Begun, SkipsTest
  <2>2. Accounts(v, screen[v]) /\ screen'[v] = screen[v] /\ results' = results /\ pc' # "body"
    BY <1>3 DEF Sound, SkipsTest
  <2> QED
    BY <2>1, <2>2 DEF Accounts, Failed
<1> QED
  BY <1>2, <1>3 DEF Sound

\* A test begins, or the grader gives up.
LEMMA TestKept ==
  ASSUME StateOK, Screens, ShowTest
  PROVE  Screens'
<1> SUFFICES ASSUME NEW v \in Levels
             PROVE  Known(screen'[v]) /\ (Grades' => Sound(v)')
  BY DEF Screens
<1> DEFINE t == on_test_begin(v)
           l == [says |-> "test", test |-> Len(results) + 1]
<1>1. t = Line(should_output_test(v), l) /\ l.says = "test"
  BY DEF on_test_begin
<1> HIDE DEF t, l
<1>2. Known(t) /\ \A x \in Range(t) : x.says \notin {"score", "counts", "all tests passed"}
  <2>1. Known(t)
    BY <1>1, KnownLines
  <2>2. \A x \in Range(t) : x = l
    BY <1>1, FewLines
  <2> QED
    BY <1>1, <2>1, <2>2
<1>3. Known(screen[v]) /\ Sound(v) /\ pc = "tests"
  BY DEF Screens, Grades, ShowTest, BeginTest
<1>4. CASE pc' = "body"
  <2>1. screen'[v] = screen[v] \o t /\ results' = results /\ reqs' = <<>>
    BY <1>4 DEF ShowTest, BeginTest, Write, t
  <2>2. Known(screen'[v])
    BY <1>2, <1>3, <2>1, KnownLines
  <2>3. Concludes(screen[v])'
    <3>1. Appends(v, t)
      BY <1>2, <2>1 DEF Appends, Known
    <3> QED
      BY <1>3, <3>1, OthersConclude DEF Sound
  <2>4. ASSUME v >= Summary PROVE Accounts(v, screen[v])'
    BY <1>3, <1>4, <2>1, <2>4, TestAccounts DEF Sound, t
  <2> QED
    BY <2>2, <2>3, <2>4 DEF Sound
<1>5. CASE pc' # "body"
  <2>1. screen' = screen /\ pc' = "exit"
    BY <1>5 DEF ShowTest, BeginTest, Exit
  <2> QED
    BY <1>3, <2>1 DEF Grades
<1> QED
  BY <1>4, <1>5

\* A requirement is checked.
LEMMA RequirementKept ==
  ASSUME StateOK, Screens, NEW b \in BOOLEAN, NEW d, ShowRequirement(b, d)
  PROVE  Screens'
<1> SUFFICES ASSUME NEW v \in Levels
             PROVE  Known(screen'[v]) /\ (Grades' => Sound(v)')
  BY DEF Screens
<1> DEFINE t == on_requirement_result(v, b, d)
           l == [says |-> "requirement", test |-> Len(results) + 1, passed |-> b,
                 description |-> d, cnt |-> repeat_requirements_[v][d]]
<1>1. t = Line(should_output_requirement(v, b), l) /\ l.says = "requirement"
  BY DEF on_requirement_result
<1> HIDE DEF t, l
<1>2. Known(t) /\ \A x \in Range(t) : x.says \notin {"score", "counts", "all tests passed"}
  <2>1. Known(t)
    BY <1>1, KnownLines
  <2>2. \A x \in Range(t) : x = l
    BY <1>1, FewLines
  <2> QED
    BY <1>1, <2>1, <2>2
<1>3. Known(screen[v]) /\ Sound(v) /\ pc = "body" /\ pc' = "body"
  BY DEF Screens, Grades, ShowRequirement, Require
<1>4. screen'[v] = screen[v] \o t /\ results' = results /\ reqs' = Append(reqs, b)
  BY DEF ShowRequirement, Require, Write, t
<1>5. Known(screen'[v])
  BY <1>2, <1>3, <1>4, KnownLines
<1>6. Concludes(screen[v])'
  <2>1. Appends(v, t)
    BY <1>2, <1>4 DEF Appends, Known
  <2> QED
    BY <1>3, <2>1, OthersConclude DEF Sound
<1>7. ASSUME v >= Summary PROVE Accounts(v, screen[v])'
  BY <1>3, <1>4, <1>7, RequirementAccounts DEF Sound, t
<1> QED
  BY <1>5, <1>6, <1>7 DEF Sound

\* A test ends.
LEMMA TestResultKept ==
  ASSUME InputsOK, StateOK, Progress, Screens, NEW error \in BOOLEAN, ShowTestResult(error)
  PROVE  Screens'
<1> SUFFICES ASSUME NEW v \in Levels
             PROVE  Known(screen'[v]) /\ (Grades' => Sound(v)')
  BY DEF Screens
<1> DEFINE r == Finalize(error)
           t == on_test_result(v, r)
<1>1. Known(screen[v]) /\ Sound(v) /\ pc = "body" /\ pc' = "tests"
  BY DEF Screens, Grades, ShowTestResult, EndTest
<1>2. screen'[v] = screen[v] \o t /\ results' = Append(results, r)
  BY DEF ShowTestResult, EndTest, Write
<1>3. r \in TestResults /\ r.num_total = Len(reqs)
  BY <1>1, FinalizeType
<1>4. r.num_passed = Answered(TRUE)
  <2>1. r.num_passed = Cardinality({i \in DOMAIN reqs : reqs[i]})
    BY DEF Finalize
  <2> QED
    BY <2>1, Answers DEF StateOK
<1> HIDE DEF r
<1>5. Known(t) /\ \A x \in Range(t) : x.says \notin {"score", "counts", "all tests passed"}
  <2> DEFINE l == [says |-> "no requirements", test |-> Len(results) + 1]
             m == [says |-> "hidden", test |-> Len(results) + 1, num |-> r.num_passed]
             c == r.num_total = 0
             h == r.num_passed > 0 /\ ~should_output_requirement(v, TRUE)
  <2>1. t = <<>> \/ t = Line(c, l) \o Line(h, m)
    BY DEF on_test_result
  <2>2. l.says = "no requirements" /\ m.says = "hidden" /\ m.num \in Nat
    BY <1>3 DEF TestResults
  <2> HIDE DEF l, m, c, h, t
  <2>3. Known(<<>>) /\ Range(<<>>) = {}
    BY FewLines DEF Known
  <2>4. Known(Line(c, l)) /\ Known(Line(h, m))
    BY <2>2, KnownLines
  <2>5. Known(Line(c, l) \o Line(h, m)) /\ \A x \in Range(Line(c, l) \o Line(h, m)) : x = l \/ x = m
    <3>1. Range(Line(c, l) \o Line(h, m)) = Range(Line(c, l)) \cup Range(Line(h, m))
      BY <2>4, ConcatLines DEF Known
    <3> QED
      BY <2>4, <3>1, KnownLines, FewLines
  <2> QED
    BY <2>1, <2>2, <2>3, <2>5
<1> HIDE DEF t
<1>6. Known(screen'[v])
  BY <1>1, <1>2, <1>5, KnownLines
<1>7. Concludes(screen[v])'
  <2>1. Appends(v, t)
    BY <1>2, <1>5 DEF Appends, Known
  <2> QED
    BY <1>1, <2>1, OthersConclude DEF Sound
<1>8. ASSUME v >= Summary PROVE Accounts(v, screen[v])'
  <2>1. TestEnds(v, r)
    BY <1>1, <1>2, <1>3, <1>4 DEF TestEnds, t
  <2> QED
    BY <1>1, <1>3, <1>8, <2>1, ResultAccounts DEF Sound
<1> QED
  BY <1>6, <1>7, <1>8 DEF Sound

\* The tests end, or the grader crashes.
LEMMA AssignmentKept ==
  ASSUME StateOK, Screens, ShowAssignmentResult
  PROVE  Screens'
<1> SUFFICES ASSUME NEW v \in Levels
             PROVE  Known(screen'[v]) /\ (Grades' => Sound(v)')
  BY DEF Screens
<1>1. Known(screen[v]) /\ Sound(v) /\ pc = "tests"
  BY DEF Screens, Grades, ShowAssignmentResult, EndTests
<1>2. CASE pc' = "summary"
  <2>1. screen'[v] = screen[v] \o on_assignment_result(v)
    BY <1>2 DEF ShowAssignmentResult, Write
  <2>2. Known(on_assignment_result(v))
    <3>1. Score.says = "score" /\ Verdict.says \in {"counts", "all tests passed"}
      BY DEF Score, Verdict
    <3> QED
      BY <3>1, KnownLines DEF on_assignment_result
  <2>3. Known(screen'[v])
    BY <1>1, <2>1, <2>2, KnownLines
  <2>4. UNCHANGED <<results, num_total>>
    BY DEF ShowAssignmentResult, EndTests, runnerVars
  <2>5. TestsEnd(v)
    BY <1>1, <1>2, <2>1, <2>4 DEF TestsEnd
  <2> QED
    BY <1>1, <2>3, <2>5, ConclusionAccounts
<1>3. CASE pc' # "summary"
  <2>1. screen' = screen /\ pc' = "exit"
    BY <1>3 DEF ShowAssignmentResult, EndTests, Exit
  <2> QED
    BY <1>1, <2>1 DEF Grades
<1> QED
  BY <1>2, <1>3

\* A student begins, or has no executable.  StudentApp's only student has nothing but
\* the metadata above his tests.
LEMMA StudentKept ==
  ASSUME CountDiscipline, Screens, StateOK, ShowStudent
  PROVE  Screens'
<1>1. CASE BeginStudent /\ ~single
  <2> SUFFICES ASSUME NEW v \in Levels PROVE Known(screen'[v]) /\ Sound(v)'
    BY DEF Screens
  <2> DEFINE l == [says |-> "name", of |-> si + 1]
             m == [says |-> "could not locate", of |-> si + 1]
             h == students[si + 1] = "none"
  <2>1. screen'[v] = <<l>> \o Line(h, m)
    BY <1>1 DEF ShowStudent, StudentWithoutPath, BeginStudent, on_student_begin
  <2>2. l.says = "name" /\ m.says = "could not locate"
    OBVIOUS
  <2> HIDE DEF l, m, h
  <2>3. Known(<<l>>) /\ Known(Line(h, m))
    BY <2>2, FewLines, KnownLines DEF Known
  <2>4. Known(screen'[v])
    BY <2>1, <2>3, KnownLines
  <2>5. Range(screen'[v]) = Range(<<l>>) \cup Range(Line(h, m))
    BY <2>1, <2>3, ConcatLines DEF Known
  <2>6. \A x \in Range(screen'[v]) : x.says \in {"metadata", "name", "could not locate"}
    <3>1. \A x \in Range(screen'[v]) : x = l \/ x = m
      BY <2>5, FewLines
    <3> QED
      BY <2>2, <3>1
  <2>7. Fresh(v)
    BY <1>1, <2>4, <2>6 DEF Fresh, Known, BeginStudent
  <2> QED
    BY <2>4, <2>7, FreshAccounts
<1>2. CASE BeginStudent /\ single
  <2> SUFFICES ASSUME NEW v \in Levels PROVE Known(screen'[v]) /\ Sound(v)'
    BY DEF Screens
  <2>1. screen' = screen
    BY <1>2 DEF ShowStudent, StudentWithoutPath, BeginStudent, outputVars
  <2>2. si = 0
    <3>1. Len(students) = 1
      BY <1>2, Zenon DEF CountDiscipline
    <3>2. si \in 0..Len(students) /\ si < Len(students)
      BY <1>2 DEF StateOK, BeginStudent
    <3> QED
      BY <3>1, <3>2
  <2>3. \A l \in Range(screen[v]) : l.says = "metadata"
    BY <2>2 DEF CountDiscipline
  <2>4. Known(screen[v])
    BY DEF Screens
  <2>5. Fresh(v)
    BY <1>2, <2>1, <2>3, <2>4 DEF Fresh, Known, BeginStudent
  <2> QED
    BY <2>1, <2>4, <2>5, FreshAccounts
<1>3. CASE StudentWithoutPath
  <2> SUFFICES ASSUME NEW v \in Levels PROVE Known(screen'[v])
    BY <1>3 DEF Screens, Grades, StudentWithoutPath
  <2> DEFINE l == [says |-> "name", of |-> si + 1]
             m == [says |-> "could not locate", of |-> si + 1]
             h == students[si + 1] = "none"
             e == [says |-> "end"]
             c == should_output_student_summary(v)
  <2>1. screen'[v] = (<<l>> \o Line(h, m)) \o Line(c, e)
    BY <1>3 DEF ShowStudent, StudentWithoutPath, BeginStudent, on_student_begin, on_student_end
  <2>2. l.says = "name" /\ m.says = "could not locate" /\ e.says = "end"
    OBVIOUS
  <2> HIDE DEF l, m, h, c, e
  <2>3. Known(<<l>>) /\ Known(Line(h, m)) /\ Known(Line(c, e))
    BY <2>2, FewLines, KnownLines DEF Known
  <2> QED
    BY <2>1, <2>3, KnownLines
<1> QED
  BY <1>1, <1>2, <1>3 DEF ShowStudent

\* A student is done.
LEMMA EndKept ==
  ASSUME Screens, ShowStudentEnd
  PROVE  Screens'
<1> SUFFICES ASSUME NEW v \in Levels PROVE Known(screen'[v])
  BY DEF Screens, Grades, ShowStudentEnd, EndStudent
<1>1. Known(screen[v])
  BY DEF Screens
<1>2. Known(on_student_end(v))
  BY KnownLines DEF on_student_end
<1> QED
  BY <1>1, <1>2, KnownLines DEF ShowStudentEnd, Write

\* What the lines say of the tests is true at first,
LEMMA CountInit ==
  ASSUME OutputInit
  PROVE  CountDiscipline
<1>1. single => Len(students) = 1
  BY DEF OutputInit, Init
<1>2. pc = "students"
  BY DEF OutputInit, Init
<1>3. ASSUME NEW v \in Levels, NEW l \in Range(screen[v]) PROVE l = [says |-> "metadata"]
  <2>1. screen[v] = Line(should_output_run_metadata(v), [says |-> "metadata"])
    BY DEF OutputInit, on_run_metadata
  <2> QED
    BY <2>1, FewLines
<1>4. \A v \in Levels : \A l \in Range(screen[v]) :
        /\ si = 0 => l = [says |-> "metadata"]
        /\ l.says = "hidden" => l.num \in Nat
  BY <1>3
<1> QED
  BY <1>1, <1>2, <1>4 DEF CountDiscipline

\* and every step keeps it so.
LEMMA CountKept ==
  ASSUME InputsOK, StateOK, Progress, NumberDiscipline, CountDiscipline, [Next]_<<vars, outputVars>>
  PROVE  CountDiscipline'
<1>1. Screens
  BY DEF Screens, Known, Sound, Grades, NumberDiscipline, CountDiscipline
<1>2. UNCHANGED inputs
  <2>1. UNCHANGED vars => UNCHANGED inputs
    BY DEF vars
  <2> QED
    BY <2>1, InputsKept, OutputSteps
<1>3. CASE UNCHANGED <<vars, outputVars>>
  <2>1. /\ pc' = pc /\ si' = si /\ results' = results /\ reqs' = reqs /\ num_total' = num_total
        /\ screen' = screen /\ single' = single /\ students' = students
    BY <1>3 DEF vars, inputs, runnerVars, outputVars
  <2>2. Score' = Score /\ Verdict' = Verdict
    BY <2>1 DEF Score, Verdict, RequirementsPassed, RequirementsFailed, PassedWeighted,
                TotalWeighted, AllPassed, Passed, Failed, TestsFailed, SumOf, Sums
  <2>3. Begun' = Begun /\ Answered(TRUE)' = Answered(TRUE) /\ Answered(FALSE)' = Answered(FALSE)
    BY <2>1 DEF Begun, Answered
  <2>4. ASSUME NEW v \in Levels, Concludes(screen[v]) PROVE Concludes(screen[v])'
    BY <2>1, <2>2, <2>4 DEF Concludes
  <2>5. ASSUME NEW v \in Levels, Accounts(v, screen[v]) PROVE Accounts(v, screen[v])'
    BY <2>1, <2>3, <2>5 DEF Accounts, Failed
  <2> QED
    BY <2>1, <2>4, <2>5 DEF CountDiscipline
<1>4. CASE Next
  <2>1. Screens'
    <3>1. ASSUME NEW b \in BOOLEAN, NEW d \in Descriptions, ShowRequirement(b, d) PROVE Screens'
      BY <1>1, <3>1, RequirementKept
    <3>2. ASSUME NEW b \in BOOLEAN, ShowTestResult(b) PROVE Screens'
      BY <1>1, <3>2, TestResultKept
    <3>3. ASSUME SkipTest, UNCHANGED outputVars PROVE Screens'
      <4> SUFFICES ASSUME NEW v \in Levels PROVE Known(screen'[v]) /\ Sound(v)'
        BY DEF Screens
      <4>1. SkipsTest(v) /\ screen' = screen /\ Grades
        BY <3>3 DEF SkipsTest, SkipTest, outputVars, Grades
      <4> QED
        BY <1>1, <4>1, SoundStays DEF Screens
    <3>4. ASSUME BodyThrows \/ Finish, UNCHANGED outputVars PROVE Screens'
      <4>1. screen' = screen /\ pc' = "exit"
        BY <3>4 DEF BodyThrows, Finish, Exit, outputVars
      <4> QED
        BY <1>1, <4>1 DEF Screens, Grades
    <3> QED
      BY <1>1, <1>4, <3>1, <3>2, <3>3, <3>4, StudentKept, TestKept, AssignmentKept, EndKept DEF Next
  <2>2. ASSUME si' = 0, NEW v \in Levels PROVE screen' = screen /\ si = 0
    <3>1. si \in Nat
      BY LenProperties DEF StateOK, InputsOK
    <3>2. pc \notin {"tests", "body", "summary"}
      <4>1. CASE pc \in {"tests", "body", "summary"}
        <5>1. si > 0 /\ si' = si
          BY <1>4, <4>1 DEF Progress, Next, ShowStudent, BeginStudent, StudentWithoutPath,
             ShowTest, BeginTest, ShowAssignmentResult, EndTests, ShowStudentEnd, EndStudent,
             ShowTestResult, EndTest, ShowRequirement, Require, SkipTest, BodyThrows, Finish, runnerVars
        <5> QED
          BY <2>2, <5>1
      <4> QED
        BY <4>1
    <3>3. ~ShowStudent
      <4>1. si + 1 # 0
        BY <3>1
      <4> QED
        BY <2>2, <4>1 DEF ShowStudent, BeginStudent, StudentWithoutPath
    <3>4. Finish /\ UNCHANGED outputVars
      BY <1>4, <3>2, <3>3 DEF Next, ShowTest, BeginTest, ShowAssignmentResult, EndTests,
         ShowStudentEnd, EndStudent, ShowTestResult, EndTest, ShowRequirement, Require, SkipTest,
         BodyThrows
    <3> QED
      BY <2>2, <3>4 DEF Finish, runnerVars, outputVars
  <2>3. \A v \in Levels : \A l \in Range(screen'[v]) :
          /\ si' = 0 => l = [says |-> "metadata"]
          /\ l.says = "hidden" => l.num \in Nat
    <3>1. \A v \in Levels : \A l \in Range(screen'[v]) : l.says = "hidden" => l.num \in Nat
      BY <2>1 DEF Screens, Known
    <3>2. ASSUME si' = 0, NEW v \in Levels, NEW l \in Range(screen'[v]) PROVE l = [says |-> "metadata"]
      BY <2>2, <3>2 DEF CountDiscipline
    <3> QED
      BY <3>1, <3>2
  <2>4. (single => Len(students) = 1)'
    BY <1>2 DEF CountDiscipline, inputs
  <2> QED
    BY <2>1, <2>3, <2>4 DEF CountDiscipline, Screens, Sound, Grades
<1> QED
  BY <1>3, <1>4

\* The lines of every level account for every test, in every state.
THEOREM CountInvariant == Spec => []CountDiscipline
<1>1. OutputInit => CountDiscipline
  BY CountInit
<1>2. GradingDiscipline /\ NumberDiscipline /\ CountDiscipline /\ [Next]_<<vars, outputVars>>
      => CountDiscipline'
  BY CountKept DEF GradingDiscipline
<1>3. NumberDiscipline /\ Nested(screen) => NumberDiscipline
  OBVIOUS
<1> QED
  BY <1>1, <1>2, DisciplineInvariant, ScreenInvariant, PTL DEF Spec

\* Some test failed, if not all passed.
LEMMA SomeFailed ==
  ASSUME results \in Seq(TestResults), ~AllPassed(results)
  PROVE  TestsFailed > 0
<1> DEFINE S == {i \in DOMAIN results : ~Passed(results[i])}
           n == Len(results)
<1>1. n \in Nat /\ DOMAIN results = 1..n
  BY LenProperties
<1>2. S # {}
  BY DEF AllPassed
<1>3. IsFiniteSet(S)
  <2>1. 1 \in Int /\ n \in Int
    BY <1>1
  <2> HIDE DEF n
  <2>2. IsFiniteSet(1..n) /\ S \in SUBSET (1..n)
    BY <1>1, <2>1, FS_Interval
  <2> QED
    BY <2>2, FS_Subset
<1> HIDE DEF S
<1>4. Cardinality(S) \in Nat /\ Cardinality(S) # 0
  BY <1>2, <1>3, FS_CardinalityType, FS_EmptySet
<1> QED
  BY <1>4 DEF TestsFailed, S

\* What a level that shows tests is found to say of each: what its result holds.
LEMMA CountedRight ==
  ASSUME CountDiscipline, pc = "summary", NEW v \in Summary..MaxLevel, Len(results) \in Nat
  PROVE  /\ Counted(v) = [i \in DOMAIN results |->
                            [passed |-> results[i].num_passed, failed |-> Failed(results[i])]]
         /\ Cardinality(Said(v, "test")) = Len(results)
<1>1. Accounts(v, screen[v])
  <2>1. v \in Levels /\ v >= Summary
    BY DEF Silent, Summary, MaxLevel, Levels
  <2> QED
    BY <2>1 DEF CountDiscipline
<1>2. Begun = Len(results)
  <2>1. Begun = Len(results) + 0
    BY DEF Begun
  <2> QED
    BY <2>1
<1>3. Cardinality(Said(v, "test")) = Len(results)
  BY <1>1, <1>2 DEF Accounts, Said
<1>4. \A i \in DOMAIN results :
        /\ ShownIn(screen[v], i, TRUE) + HiddenIn(screen[v], i) = results[i].num_passed
        /\ ShownIn(screen[v], i, FALSE) = Failed(results[i])
  BY <1>1 DEF Accounts
<1>5. Counted(v) = [i \in DOMAIN results |->
        [passed |-> ShownIn(screen[v], i, TRUE) + HiddenIn(screen[v], i),
         failed |-> ShownIn(screen[v], i, FALSE)]]
  BY DEF Counted
<1> QED
  BY <1>3, <1>4, <1>5, Zenon

\* Whoever adds up the lines of a level, hidden requirements included, gets the results,
\* the score and the verdict, whatever requirements, tests and students there are.
THEOREM ScreenAddsUpCorrect == Spec => []ScreenAddsUp
<1>1. ASSUME GradingDiscipline, CountDiscipline, SummaryAddsUp PROVE ScreenAddsUp
  <2> SUFFICES ASSUME pc = "summary" PROVE ScreenAddsUp
    BY DEF ScreenAddsUp
  <2> DEFINE C == [i \in DOMAIN results |->
                     [passed |-> results[i].num_passed, failed |-> Failed(results[i])]]
             passed == SumOf([i \in DOMAIN results |-> results[i].num_passed])
             failed == RequirementsFailed
  <2>1. results \in Seq(TestResults) /\ Len(results) \in Nat
    BY <1>1, LenProperties DEF GradingDiscipline, StateOK
  <2>2. /\ RequirementsPassed = passed /\ num_total = checked
        /\ RequirementsPassed + RequirementsFailed = checked
    BY <1>1 DEF SummaryAddsUp
  <2>3. AllPassed(results) <=> si \notin failing
    BY <1>1 DEF SummaryAddsUp
  <2>4. \A v \in Summary..MaxLevel : Counted(v) = C /\ Cardinality(Said(v, "test")) = Len(results)
    BY <1>1, <2>1, CountedRight
  <2>5. /\ SumOf([i \in DOMAIN results |-> C[i].passed]) = passed
        /\ SumOf([i \in DOMAIN results |-> C[i].failed]) = failed
    <3>1. \A i \in DOMAIN results : C[i].passed = results[i].num_passed /\ C[i].failed = Failed(results[i])
      OBVIOUS
    <3> HIDE DEF C
    <3>2. /\ [i \in DOMAIN results |-> C[i].passed] = [i \in DOMAIN results |-> results[i].num_passed]
          /\ [i \in DOMAIN results |-> C[i].failed] = [i \in DOMAIN results |-> Failed(results[i])]
      BY <3>1
    <3> QED
      BY <3>2, Zenon DEF RequirementsFailed
  <2>6. AllPassed(results) => failed = 0 /\ num_total = passed
    <3> SUFFICES ASSUME AllPassed(results) PROVE failed = 0 /\ num_total = passed
      OBVIOUS
    <3> DEFINE F == [i \in DOMAIN results |-> Failed(results[i])]
    <3>1. DOMAIN results = 1..Len(results) /\ \A i \in 1..Len(results) : results[i] \in TestResults
      BY <2>1, LenProperties, ElementOfSeq
    <3>2. \A i \in 1..Len(results) : results[i].num_total = results[i].num_passed
      BY <3>1 DEF AllPassed, Passed
    <3>3. \A i \in 1..Len(results) : F[i] = 0
      BY <3>1, <3>2 DEF Failed, TestResults
    <3>4. F \in Seq(Int) /\ Len(F) = Len(results)
      <4>1. F = [i \in 1..Len(results) |-> 0]
        BY <3>1, <3>3
      <4> QED
        BY <2>1, <4>1
    <3>5. failed = 0
      <4> HIDE DEF F
      <4>1. SumOf(F) = 0
        BY <3>3, <3>4, SumZero
      <4> QED
        BY <4>1 DEF RequirementsFailed, F
    <3>6. num_total \in Nat /\ RequirementsPassed = num_total - failed
      BY <1>1 DEF GradingDiscipline, StateOK, RequirementsPassed
    <3> QED
      BY <2>2, <3>5, <3>6
  <2>7. \A v \in Levels : \A l \in Range(screen[v]) :
          /\ l.says = "score" => l = Score
          /\ l.says \in {"counts", "all tests passed"} => l = Verdict
    BY <1>1 DEF CountDiscipline, Concludes
  <2>8. \A v \in Levels : \A what : \A i \in Said(v, what) :
          screen[v][i] \in Range(screen[v]) /\ screen[v][i].says = what
    BY DEF Said, Where, Range
  <2>9. Score.points = passed /\ Score.total = passed + failed
    BY <2>2 DEF Score
  <2>10. ASSUME Verdict.says = "counts"
         PROVE  /\ Verdict.requirements_line = <<passed, failed>>
                /\ Verdict.tests_line[2] > 0 /\ si \in failing
    <3>1. ~AllPassed(results)
      BY <2>10 DEF Verdict
    <3>2. TestsFailed > 0
      BY <2>1, <3>1, SomeFailed
    <3> HIDE DEF passed, failed
    <3>3. Verdict.requirements_line = <<RequirementsPassed, RequirementsFailed>>
      BY <3>1 DEF Verdict
    <3>4. Verdict.tests_line = <<Len(results) - TestsFailed, TestsFailed>>
      BY <3>1 DEF Verdict
    <3>5. Verdict.requirements_line = <<passed, failed>>
      BY <2>2, <3>3 DEF failed
    <3>6. Verdict.tests_line[2] > 0
      BY <3>2, <3>4
    <3> QED
      BY <2>3, <3>1, <3>5, <3>6
  <2>11. ASSUME Verdict.says = "all tests passed"
         PROVE  Verdict.total = passed /\ failed = 0 /\ si \notin failing
    <3>1. AllPassed(results)
      BY <2>11 DEF Verdict
    <3>2. Verdict.total = num_total
      BY <3>1 DEF Verdict
    <3> QED
      BY <2>3, <2>6, <3>1, <3>2
  <2> HIDE DEF C, passed, failed
  <2>12. ASSUME NEW v \in Levels
         PROVE  /\ \A i \in Said(v, "score") :
                     screen[v][i].points = passed /\ screen[v][i].total = passed + failed
                /\ \A i \in Said(v, "counts") :
                     /\ screen[v][i].requirements_line = <<passed, failed>>
                     /\ screen[v][i].tests_line[2] > 0 /\ si \in failing
                /\ \A i \in Said(v, "all tests passed") :
                     screen[v][i].total = passed /\ failed = 0 /\ si \notin failing
    <3>1. \A i \in Said(v, "score") : screen[v][i] = Score
      <4>1. \A i \in Said(v, "score") : screen[v][i] \in Range(screen[v]) /\ screen[v][i].says = "score"
        BY <2>8
      <4> QED
        BY <2>7, <4>1
    <3>2. \A i \in Said(v, "counts") : screen[v][i] = Verdict /\ screen[v][i].says = "counts"
      <4>1. \A i \in Said(v, "counts") : screen[v][i] \in Range(screen[v]) /\ screen[v][i].says = "counts"
        BY <2>8
      <4> QED
        BY <2>7, <4>1
    <3>3. \A i \in Said(v, "all tests passed") :
            screen[v][i] = Verdict /\ screen[v][i].says = "all tests passed"
      <4>1. \A i \in Said(v, "all tests passed") :
              screen[v][i] \in Range(screen[v]) /\ screen[v][i].says = "all tests passed"
        BY <2>8
      <4> QED
        BY <2>7, <4>1
    <3>4. \A i \in Said(v, "score") :
            screen[v][i].points = passed /\ screen[v][i].total = passed + failed
      BY <2>9, <3>1, Zenon
    <3>5. \A i \in Said(v, "counts") :
            /\ screen[v][i].requirements_line = <<passed, failed>>
            /\ screen[v][i].tests_line[2] > 0 /\ si \in failing
      BY <2>10, <3>2, Zenon
    <3>6. \A i \in Said(v, "all tests passed") :
            screen[v][i].total = passed /\ failed = 0 /\ si \notin failing
      BY <2>11, <3>3, Zenon
    <3> QED
      BY <3>4, <3>5, <3>6
  <2>13. passed + failed = checked
    BY <2>2 DEF failed
  <2>14. Counted(Summary) = C
    BY <2>4 DEF Summary, MaxLevel
  <2> QED
    BY <2>4, <2>5, <2>12, <2>13, <2>14, Zenon DEF ScreenAddsUp
<1> QED
  BY <1>1, DisciplineInvariant, CountInvariant, SummaryAddsUpCorrect, PTL
=============================================================================
