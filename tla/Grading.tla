------------------------------ MODULE Grading ------------------------------
(***************************************************************************)
(* A run of the grader above the level of processes: StudentApp and        *)
(* ProfessorApp, MultiStudentRunner, AssignmentTestRunner, the part of     *)
(* TestContext that collects requirements, and the return code.            *)
(*                                                                         *)
(* mode is APP_MODE, fixed when the grader is built.  StudentApp, which    *)
(* professor mode uses too when it is given a file, has one "student", the *)
(* user, and calls run_all directly.  A test body is any sequence of       *)
(* requirements that ends by returning, by a ContextInternalError, or by   *)
(* an exception of another type.                                           *)
(*                                                                         *)
(* Output joins these actions to what the serializer writes for each, and  *)
(* states the next-state relation.                                         *)
(***************************************************************************)
EXTENDS Integers, Sequences, FiniteSets, SequencesExt

CONSTANTS
  Weights,       \* the weights a test may declare
  CodeMod,       \* 256: what _exit keeps of a return code
  MaxStudents,   \* bound: students of a run
  MaxTests,      \* bound: tests of the assignment
  MaxReqs        \* bound: requirements that are checked for one student

ASSUME WeightsAssumption == Weights \subseteq Nat
ASSUME CodeModAssumption == CodeMod \in Nat \ {0, 1}
ASSUME BoundsAssumption == {MaxStudents, MaxTests, MaxReqs} \subseteq Nat

VARIABLES
  mode, silent,    \* APP_MODE; verbosity is Silent
  single,          \* StudentApp runs, not ProfessorApp
  students,        \* what the file searcher found for each student
  tests,           \* the assignment's tests, in order
  pc,
  si, ti,          \* number of students and of tests begun
  exec_path_,      \* Assignment::exec_path_: whose executable it names, 0 at first
  reqs,            \* requirement_results of the test in progress
  results,         \* TestResults of the assignment run in progress
  num_total,       \* num_total_requirements
  graded,          \* per finished student: AssignmentResult::all_passed()
  code,            \* the exit status of the grader
  checked,         \* history: requirements this student's tests have checked
  failing          \* history: students for whom a requirement failed or a test broke off

inputs == <<mode, silent, single, students, tests>>
runnerVars == <<si, ti, exec_path_, reqs, results, num_total, graded>>
vars == <<inputs, pc, runnerVars, code, checked, failing>>

\* "ok" and "bad": an executable that Program's constructor accepts or rejects.
Paths == {"none", "ok", "bad"}
Tests == [prof : BOOLEAN, matches : BOOLEAN, weight : Weights]
NoCode == -1
Aborted == 255 % CodeMod      \* App::run's -1
Segfault == -2                \* no exit status at all

\* The user's own program always has a path, though maybe not a usable one.
Init ==
  /\ mode \in {"student", "professor"} /\ silent \in BOOLEAN
  /\ single \in IF mode = "student" THEN {TRUE} ELSE BOOLEAN
  /\ students \in IF single THEN {<<"ok">>, <<"bad">>}
                 ELSE BoundedSeq(Paths, MaxStudents)
  /\ tests \in BoundedSeq(Tests, MaxTests)
  /\ pc = "students" /\ si = 0 /\ ti = 0 /\ exec_path_ = 0
  /\ reqs = <<>> /\ results = <<>> /\ num_total = 0 /\ graded = <<>>
  /\ code = NoCode /\ checked = 0 /\ failing = {}

----------------------------------------------------------------------------
(* grading_session.hpp *)

Passed(r) == ~r.error /\ r.num_total = r.num_passed
AllPassed(rs) == \A i \in DOMAIN rs : Passed(rs[i])
\* The sums of the first k of a sequence of numbers, and of all of them.
Sums(numbers) ==
  LET sum[k \in 0..Len(numbers)] == IF k = 0 THEN 0 ELSE sum[k - 1] + numbers[k]
  IN  sum
SumOf(numbers) == Sums(numbers)[Len(numbers)]
TotalWeighted(rs) == SumOf([i \in DOMAIN rs |-> rs[i].num_total * rs[i].weight])
PassedWeighted(rs) == SumOf([i \in DOMAIN rs |-> rs[i].num_passed * rs[i].weight])
Failed(r) == r.num_total - r.num_passed

\* num_requirements_failed() and num_requirements_passed()
RequirementsFailed == SumOf([i \in DOMAIN results |-> Failed(results[i])])
RequirementsPassed == num_total - RequirementsFailed

----------------------------------------------------------------------------
(* MultiStudentRunner::run_all_students *)

\* A student without an executable gets an AssignmentResult with nothing in it.
StudentWithoutPath ==
  /\ pc = "students" /\ si < Len(students) /\ students[si + 1] = "none"
  /\ si' = si + 1
  /\ graded' = Append(graded, AllPassed(<<>>))
  /\ UNCHANGED <<inputs, pc, ti, exec_path_, reqs, results, num_total, code, checked, failing>>

\* Mutant of BeginStudent: run_all keeps the path of the previous student.
BeginStudentStalePath ==
  /\ pc = "students" /\ si < Len(students) /\ students[si + 1] # "none"
  /\ si' = si + 1 /\ pc' = "tests"
  /\ exec_path_' = IF exec_path_ = 0 THEN si + 1 ELSE exec_path_
  /\ ti' = 0 /\ results' = <<>> /\ num_total' = 0 /\ checked' = 0
  /\ UNCHANGED <<inputs, reqs, graded, code, failing>>

\* run_all(alternative_path)
BeginStudent ==
  /\ pc = "students" /\ si < Len(students) /\ students[si + 1] # "none"
  /\ si' = si + 1 /\ pc' = "tests"
  /\ exec_path_' = si + 1
  /\ ti' = 0 /\ results' = <<>> /\ num_total' = 0 /\ checked' = 0
  /\ UNCHANGED <<inputs, reqs, graded, code, failing>>

----------------------------------------------------------------------------
(* AssignmentTestRunner::run_all, run_one *)

Selected(t) == t.matches /\ (t.prof => mode = "professor")

SkipTest ==
  /\ pc = "tests" /\ ti < Len(tests) /\ ~Selected(tests[ti + 1])
  /\ ti' = ti + 1
  /\ UNCHANGED <<inputs, pc, si, exec_path_, reqs, results, num_total, graded, code,
                 checked, failing>>

Exit(status) == pc' = "exit" /\ code' = status

\* Program's constructor throws a runtime_error for a file it cannot grade, which is
\* caught by App::run only.
BeginTest ==
  /\ pc = "tests" /\ ti < Len(tests) /\ Selected(tests[ti + 1])
  /\ ti' = ti + 1 /\ reqs' = <<>>
  /\ IF students[exec_path_] = "ok" THEN pc' = "body" /\ UNCHANGED code
                                    ELSE Exit(Aborted)
  /\ UNCHANGED <<inputs, si, exec_path_, results, num_total, graded, checked, failing>>

\* TestContext::require
Require(passed) ==
  /\ pc = "body" /\ checked < MaxReqs
  /\ reqs' = Append(reqs, passed)
  /\ checked' = checked + 1
  /\ failing' = IF passed THEN failing ELSE failing \cup {si}
  /\ UNCHANGED <<inputs, pc, si, ti, exec_path_, results, num_total, graded, code>>

\* Mutant of Finalize: a test that broke off reports no requirements.
FinalizeUnlessError(error) ==
  [num_passed |-> IF error THEN 0 ELSE Cardinality({i \in DOMAIN reqs : reqs[i]}),
   num_total |-> IF error THEN 0 ELSE Len(reqs), weight |-> tests[ti].weight, error |-> error]

\* TestContext::finalize
Finalize(error) ==
  [num_passed |-> Cardinality({i \in DOMAIN reqs : reqs[i]}),
   num_total |-> Len(reqs), weight |-> tests[ti].weight, error |-> error]

\* The body returned or threw a ContextInternalError, which its result records.
EndTest(error) ==
  /\ pc = "body"
  /\ results' = Append(results, Finalize(error))
  /\ num_total' = num_total + Finalize(error).num_total
  /\ failing' = IF error THEN failing \cup {si} ELSE failing
  /\ pc' = "tests"
  /\ UNCHANGED <<inputs, si, ti, exec_path_, reqs, graded, code, checked>>

\* Any other exception ends the run of all students.
BodyThrows ==
  /\ pc = "body"
  /\ Exit(Aborted)
  /\ failing' = failing \cup {si}
  /\ UNCHANGED <<inputs, runnerVars, checked>>

\* With no test selected, run_all dereferences the begin() of an empty map.
EndTests ==
  /\ pc = "tests" /\ ti = Len(tests)
  /\ IF results = <<>> THEN Exit(Segfault) ELSE pc' = "summary" /\ UNCHANGED code
  /\ UNCHANGED <<inputs, runnerVars, checked, failing>>

\* on_assignment_result, on_student_end
EndStudent ==
  /\ pc = "summary"
  /\ graded' = Append(graded, AllPassed(results))
  /\ pc' = "students"
  /\ UNCHANGED <<inputs, si, ti, exec_path_, reqs, results, num_total, code, checked, failing>>

----------------------------------------------------------------------------
(* StudentApp::run_impl, ProfessorApp::run_impl; main returns their value *)

TestsFailed == Cardinality({i \in DOMAIN results : ~Passed(results[i])})
StudentsFailed == Cardinality({i \in DOMAIN graded : ~graded[i]})

\* Mutant of ReturnCode: counts who passed.
ReturnCodePassed ==
  Cardinality({i \in DOMAIN graded : graded[i]}) % CodeMod

ReturnCode ==
  CASE ~silent -> 0
    [] single  -> TestsFailed % CodeMod
    [] OTHER   -> StudentsFailed % CodeMod

Finish ==
  /\ pc = "students" /\ si = Len(students)
  /\ Exit(ReturnCode)
  /\ UNCHANGED <<inputs, runnerVars, checked, failing>>

----------------------------------------------------------------------------
\* Every test runs the executable of the student it is counted for, whoever came before
\* and whoever had none: the path is state of the registered assignment
\* (test_runner.cpp:38-40).
OwnExecutable == pc = "body" => exec_path_ = si /\ students[si] = "ok"

\* The summary accounts for every requirement that was checked, those of tests that
\* broke off included; a student passes exactly if nothing failed and no test broke
\* off, and then has the full score (grading_session.hpp, test_runner.cpp:79-92).
SummaryAddsUp ==
  pc = "summary" =>
    /\ num_total = checked
    /\ RequirementsPassed + RequirementsFailed = checked
    /\ RequirementsPassed = SumOf([i \in DOMAIN results |-> results[i].num_passed])
    /\ AllPassed(results) <=> si \notin failing
    /\ AllPassed(results) => PassedWeighted(results) = TotalWeighted(results)

\* A run in professor mode ended by itself, with every student graded.
Graded == pc = "exit" /\ si = Len(students) /\ Len(graded) = si /\ ~single

\* At Silent the exit status of a run of a class counts the students for whom something
\* failed, as far as a status goes, and at every other level it is 0.  Who had no executable
\* is not counted, and as many as a status has values count as none: the docs promise more
\* (SilentMode).
SilentCode == Graded => code = IF silent THEN Cardinality(failing) % CodeMod ELSE 0

----------------------------------------------------------------------------
(* The inductive invariant behind them. *)

TestResults == [num_passed : Nat, num_total : Nat, weight : Weights, error : BOOLEAN]

InputsOK ==
  /\ mode \in {"student", "professor"} /\ silent \in BOOLEAN /\ single \in BOOLEAN
  /\ students \in Seq(Paths) /\ tests \in Seq(Tests)
  /\ mode = "student" => single
  /\ single => \A i \in DOMAIN students : students[i] # "none"

StateOK ==
  /\ pc \in {"students", "tests", "body", "summary", "exit"}
  /\ si \in 0..Len(students) /\ ti \in 0..Len(tests)
  /\ reqs \in Seq(BOOLEAN) /\ results \in Seq(TestResults)
  /\ num_total \in Nat /\ checked \in Nat
  /\ graded \in Seq(BOOLEAN) /\ failing \in SUBSET (1..si)

\* Students are graded one after another, each on his own executable.
Progress ==
  /\ pc \in {"tests", "body", "summary"} => si > 0 /\ exec_path_ = si /\ Len(graded) = si - 1
  /\ pc = "body" => ti > 0 /\ students[si] = "ok"
  /\ pc = "students" => Len(graded) = si
  /\ \A i \in DOMAIN graded : graded[i] <=> i \notin failing

\* What has been counted of the student at hand.
Tally ==
  /\ \A i \in DOMAIN results : results[i].num_passed <= results[i].num_total
  /\ pc \in {"tests", "body", "summary"} =>
       /\ num_total = SumOf([i \in DOMAIN results |-> results[i].num_total])
       /\ checked = num_total + (IF pc = "body" THEN Len(reqs) ELSE 0)
       /\ si \notin failing <=> /\ AllPassed(results)
                                /\ pc = "body" => \A i \in DOMAIN reqs : reqs[i]

GradingDiscipline == InputsOK /\ StateOK /\ Progress /\ Tally /\ SilentCode
=============================================================================
