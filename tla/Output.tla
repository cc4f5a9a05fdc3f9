------------------------------- MODULE Output -------------------------------
(***************************************************************************)
(* What a run of the grader writes: PlainTextSerializer on the events of   *)
(* Grading, at every verbosity level.                                      *)
(*                                                                         *)
(* A serializer's level decides what it writes and nothing else, so the    *)
(* run is given one serializer per level: screen[v] is what level v has    *)
(* written for the student at hand, and levels can be compared.  A line is *)
(* a record of what it says; dividers, names and styles are left out, and  *)
(* so is how a condition is shown, which Requirement and Blocks model.     *)
(***************************************************************************)
EXTENDS Grading

CONSTANT Descriptions   \* of requirements: a text, then the numbers "(n)" it ends in

ASSUME DescriptionsAssumption == Descriptions \subseteq Seq(Nat) \ {<<>>}

VARIABLES
  screen,                 \* per level: lines written since the student began
  repeat_requirements_    \* per level: how often a description was written

outputVars == <<screen, repeat_requirements_>>

----------------------------------------------------------------------------
(* verbosity.hpp *)

Silent == 0
Quiet == 1
Summary == 2
All == 3
MaxLevel == 5              \* Extra, 4, and Max show what All does
Levels == Silent..MaxLevel

should_output_requirement(level, passed) == level >= All \/ (level >= Summary /\ ~passed)

\* Mutant of should_output_test: at the default level only.
should_output_test_default(level) == level = Summary

should_output_test(level) == level >= Summary
should_output_student_summary(level) ==
  level >= IF mode = "student" THEN Quiet ELSE Summary
should_output_grade_percentage(level) == mode = "professor" /\ level >= Quiet
should_output_run_metadata(level) == level > Silent

----------------------------------------------------------------------------
(* plaintext_serializer.cpp.  Each handler gives the lines level v adds. *)

Line(condition, line) == IF condition THEN <<line>> ELSE <<>>
Write(lines) == screen' = [v \in Levels |-> screen[v] \o lines[v]]

on_run_metadata(v) == Line(should_output_run_metadata(v), [says |-> "metadata"])

\* A student without an executable gets the same line in the short form.
on_student_begin(v, student) ==
  <<[says |-> "name", of |-> student]>> \o
  Line(students[student] = "none", [says |-> "could not locate", of |-> student])

on_test_begin(v) ==
  Line(should_output_test(v), [says |-> "test", test |-> Len(results) + 1])

\* The description is followed by how often level v has written it before.
on_requirement_result(v, passed, description) ==
  Line(should_output_requirement(v, passed),
       [says |-> "requirement", test |-> Len(results) + 1, passed |-> passed,
        description |-> description, cnt |-> repeat_requirements_[v][description]])

\* Mutant of on_test_result: every requirement is said to be hidden.
on_test_result_total(v, result) ==
  IF ~should_output_test(v) THEN <<>>
  ELSE Line(result.num_total = 0, [says |-> "no requirements", test |-> Len(results) + 1])
       \o Line(result.num_passed > 0 /\ ~should_output_requirement(v, TRUE),
               [says |-> "hidden", test |-> Len(results) + 1, num |-> result.num_total])

on_test_result(v, result) ==
  IF ~should_output_test(v) THEN <<>>
  ELSE Line(result.num_total = 0, [says |-> "no requirements", test |-> Len(results) + 1])
       \o Line(result.num_passed > 0 /\ ~should_output_requirement(v, TRUE),
               [says |-> "hidden", test |-> Len(results) + 1, num |-> result.num_passed])

\* output_grade_percentage: the percentage is weighted, the points are not.
Score == [says |-> "score", points |-> RequirementsPassed, total |-> num_total,
          weighted |-> <<PassedWeighted(results), TotalWeighted(results)>>]
Verdict ==
  IF AllPassed(results)
  THEN [says |-> "all tests passed", total |-> num_total, of_tests |-> Len(results)]
  ELSE [says |-> "counts", tests_line |-> <<Len(results) - TestsFailed, TestsFailed>>,
        requirements_line |-> <<RequirementsPassed, RequirementsFailed>>]
on_assignment_result(v) ==
  Line(should_output_grade_percentage(v), Score) \o Line(should_output_student_summary(v), Verdict)

on_student_end(v) == Line(should_output_student_summary(v), [says |-> "end"])

----------------------------------------------------------------------------
(* Grading's actions with what the serializers write. *)

OutputInit ==
  /\ Init
  /\ screen = [v \in Levels |-> on_run_metadata(v)]
  /\ repeat_requirements_ = [v \in Levels |-> [d \in Descriptions |-> 0]]

\* Mutant of ForgetStudent: the counts go on.
ForgetNothing == UNCHANGED repeat_requirements_

\* repeat_requirements_.clear()
ForgetStudent == repeat_requirements_' = [v \in Levels |-> [d \in Descriptions |-> 0]]

\* on_student_begin; the metadata and other students' lines are above the screen now.
\* StudentApp calls run_all directly.
ShowStudent ==
  \/ /\ BeginStudent /\ ~single
     /\ screen' = [v \in Levels |-> on_student_begin(v, si + 1)]
     /\ ForgetStudent
  \/ /\ BeginStudent /\ single
     /\ UNCHANGED outputVars
  \/ /\ StudentWithoutPath
     /\ screen' = [v \in Levels |-> on_student_begin(v, si + 1) \o on_student_end(v)]
     /\ ForgetStudent

\* run_one calls on_test_begin when Program's constructor has returned.
ShowTest ==
  /\ BeginTest
  /\ IF pc' = "body" THEN Write([v \in Levels |-> on_test_begin(v)]) ELSE UNCHANGED screen
  /\ UNCHANGED repeat_requirements_

ShowRequirement(passed, description) ==
  /\ Require(passed)
  /\ Write([v \in Levels |-> on_requirement_result(v, passed, description)])
  /\ repeat_requirements_' =
       [v \in Levels |-> [repeat_requirements_[v] EXCEPT
          ![description] = IF should_output_requirement(v, passed) THEN @ + 1 ELSE @]]

ShowTestResult(error) ==
  /\ EndTest(error)
  /\ Write([v \in Levels |-> on_test_result(v, Finalize(error))])
  /\ UNCHANGED repeat_requirements_

ShowAssignmentResult ==
  /\ EndTests
  /\ IF pc' = "summary" THEN Write([v \in Levels |-> on_assignment_result(v)]) ELSE UNCHANGED screen
  /\ UNCHANGED repeat_requirements_

ShowStudentEnd ==
  /\ EndStudent
  /\ IF single THEN UNCHANGED screen ELSE Write([v \in Levels |-> on_student_end(v)])
  /\ UNCHANGED repeat_requirements_

Next ==
  \/ ShowStudent \/ ShowTest \/ ShowAssignmentResult \/ ShowStudentEnd
  \/ \E b \in BOOLEAN : ShowTestResult(b) \/ \E d \in Descriptions : ShowRequirement(b, d)
  \/ (SkipTest \/ BodyThrows \/ Finish) /\ UNCHANGED outputVars

Spec == OutputInit /\ [][Next]_<<vars, outputVars>>

----------------------------------------------------------------------------
(* Properties *)

Where(lines, what) == {i \in DOMAIN lines : lines[i].says = what}
Said(v, what) == Where(screen[v], what)
ShownIn(lines, test, passed) ==
  Cardinality({i \in Where(lines, "requirement") : lines[i].test = test /\ lines[i].passed = passed})
HiddenIn(lines, test) ==
  SumOf([i \in DOMAIN lines |->
           IF i \in Where(lines, "hidden") /\ lines[i].test = test THEN lines[i].num ELSE 0])

\* What a reader who adds up the lines of a level with tests counts.
Counted(v) ==
  LET tests_(i) == [passed |-> ShownIn(screen[v], i, TRUE) + HiddenIn(screen[v], i),
                    failed |-> ShownIn(screen[v], i, FALSE)]
  IN [i \in DOMAIN results |-> tests_(i)]

\* Whoever adds up the lines of any level that shows tests, the ones said to be hidden
\* included, gets what each TestResult holds, and what the score and the verdict of
\* every level say (plaintext_serializer.cpp:108-192); "all tests passed" is never said
\* of a student for whom a requirement failed or a test broke off.
ScreenAddsUp ==
  pc = "summary" =>
    LET counted == Counted(Summary)
        passed  == SumOf([i \in DOMAIN results |-> counted[i].passed])
        failed  == SumOf([i \in DOMAIN results |-> counted[i].failed])
    IN  /\ \A v \in Summary..MaxLevel : Counted(v) = counted /\ Cardinality(Said(v, "test")) = Len(results)
        /\ passed + failed = checked
        /\ \A v \in Levels :
             /\ \A i \in Said(v, "score") :
                  screen[v][i].points = passed /\ screen[v][i].total = passed + failed
             /\ \A i \in Said(v, "counts") :
                  /\ screen[v][i].requirements_line = <<passed, failed>>
                  /\ screen[v][i].tests_line[2] > 0 /\ si \in failing
             /\ \A i \in Said(v, "all tests passed") :
                  screen[v][i].total = passed /\ failed = 0 /\ si \notin failing

Label(line) == IF line.cnt = 0 THEN line.description ELSE Append(line.description, line.cnt)

\* Requirements of one student that are written alike can be told apart, whatever tests
\* they are in: the numbers begin anew with each student, and lines have one label only
\* if an author has numbered a description himself (plaintext_serializer.cpp:71-73).
LabelsTellApart ==
  \A v \in Levels : \A i \in Said(v, "requirement") :
    LET line == screen[v][i]
        before == {j \in Said(v, "requirement") : j < i}
    IN  /\ line.cnt = Cardinality({j \in before : screen[v][j].description = line.description})
        /\ \A j \in before : Label(screen[v][j]) = Label(line) =>
             screen[v][j].description # line.description

\* A line without what depends on which others are written.
Fact(line) ==
  IF line.says = "requirement"
  THEN [says |-> "requirement", test |-> line.test, passed |-> line.passed, description |-> line.description]
  ELSE line
FactsOf(lines) == {Fact(line) : line \in {l \in Range(lines) : l.says # "hidden"}}
Facts(v) == FactsOf(screen[v])

\* docs/CLI-USAGE.md:225: "Each level includes all output from levels below"; a number
\* of hidden requirements gives way to the requirements.
LevelsNested == \A v \in Levels \ {MaxLevel} : Facts(v) \subseteq Facts(v + 1)

\* docs/CLI-USAGE.md:238 says of Silent: "Nothing on stdout. Program return code = # of
\* students not passing all tests".  A student without an executable passes none.
SilentMode ==
  Graded /\ silent =>
    /\ screen[Silent] = <<>>
    /\ code = Cardinality(failing \cup {s \in DOMAIN students : students[s] = "none"})

----------------------------------------------------------------------------
(* The inductive invariants behind these properties. *)

IsLines(lines) == lines \in Seq(Range(lines))

\* The requirement lines among the first n that show a description.
Alike(lines, n, description) ==
  {j \in Where(lines, "requirement") : j <= n /\ lines[j].description = description}

\* Every requirement line has the number of those above it with its description, and
\* count has the numbers of the next ones.
Numbered(lines, count) ==
  /\ count \in [Descriptions -> Nat]
  /\ \A i \in Where(lines, "requirement") :
       /\ lines[i].description \in Descriptions
       /\ lines[i].cnt = Cardinality(Alike(lines, i - 1, lines[i].description))
  /\ \A d \in Descriptions : count[d] = Cardinality(Alike(lines, Len(lines), d))

NumberDiscipline ==
  /\ DOMAIN screen = Levels /\ DOMAIN repeat_requirements_ = Levels
  /\ \A v \in Levels : IsLines(screen[v]) /\ Numbered(screen[v], repeat_requirements_[v])

\* The requirements of the test in progress.
Answered(passed) == Cardinality({i \in DOMAIN reqs : reqs[i] = passed})
Begun == Len(results) + (IF pc = "body" THEN 1 ELSE 0)

\* What the lines of a level that shows tests say of each test begun.
Accounts(v, lines) ==
  /\ Cardinality(Where(lines, "test")) = Begun
  /\ \A l \in Range(lines) : l.says \in {"requirement", "hidden"} => l.test \in 1..Begun
  /\ \A i \in DOMAIN results :
       /\ ShownIn(lines, i, TRUE) + HiddenIn(lines, i) = results[i].num_passed
       /\ ShownIn(lines, i, FALSE) = Failed(results[i])
  /\ pc = "body" =>
       /\ ShownIn(lines, Begun, TRUE) = IF v >= All THEN Answered(TRUE) ELSE 0
       /\ HiddenIn(lines, Begun) = 0
       /\ ShownIn(lines, Begun, FALSE) = Answered(FALSE)

\* The score and the verdict are said once the tests are through.
Concludes(lines) ==
  \A l \in Range(lines) :
    /\ l.says = "score" => pc = "summary" /\ l = Score
    /\ l.says \in {"counts", "all tests passed"} => pc = "summary" /\ l = Verdict

CountDiscipline ==
  /\ single => Len(students) = 1
  /\ \A v \in Levels : \A l \in Range(screen[v]) :
       /\ si = 0 => l = [says |-> "metadata"]
       /\ l.says = "hidden" => l.num \in Nat
  /\ pc \in {"tests", "body", "summary"} =>
       \A v \in Levels : Concludes(screen[v]) /\ (v >= Summary => Accounts(v, screen[v]))
=============================================================================
