------------------------------ MODULE Startup -------------------------------
(***************************************************************************)
(* From main to the first test: which assignment is graded, with which     *)
(* tests, and whose files.  The tests register themselves; the command     *)
(* line is parsed argument by argument and validated; the student's app    *)
(* finds the assignment, the professor's one reads the database of names   *)
(* and searches the tree of submissions for the file of each student.      *)
(*                                                                         *)
(* The disk is laid out when the program first looks at it: a list of      *)
(* entries in the order recursive_directory_iterator visits them, each     *)
(* with its depth below the search path.  A string is a sequence of        *)
(* characters, some of which stand for a run of them: <<"lab", ".", "out">>*)
(* is lab.out, <<>> the empty string, and Ids the _<digits>_<digits>_ of   *)
(* the name of a submission.                                               *)
(*                                                                         *)
(* std::regex is not part of this program: what a pattern makes of a name  *)
(* is given by the constants regex_format (a value as the format of        *)
(* regex_replace), regex_valid (no regex_error is thrown) and regex_match. *)
(* Only their behaviour on ordinary characters and the dot is assumed.     *)
(***************************************************************************)
EXTENDS Integers, Sequences, SequencesExt, FiniteSets

CONSTANTS
  Registrations,   \* [name, exec] in the metadata of the tests that exist
  Arguments,       \* [opt, val] a command line may hold
  Nodes,           \* what an entry of the disk can be
  Lines,           \* of a database: sequences of fields, a blank one is <<<<>>>>
  SearchDepth,     \* DEFAULT_SEARCH_DEPTH
  MaxInputs,       \* bounds tests + arguments + entries + lines together, options twice
  regex_format(_), regex_valid(_), regex_match(_, _)

ASSUME RegistrationsAssumption ==
  Registrations \subseteq [name : Seq(STRING) \ {<<>>}, exec : Seq(STRING) \ {<<>>}]
ASSUME ArgumentsAssumption ==
  Arguments \subseteq
    [opt : {"assignment", "-v", "-q", "--silent", "--stop", "--color", "--file", "--file-matcher",
            "--database", "--search-path"}, val : Seq(STRING)]
ASSUME NodesAssumption ==
  Nodes \subseteq [kind : {"file", "dir"}, name : Seq(STRING), time : Nat, elf : BOOLEAN, x : BOOLEAN]
ASSUME LinesAssumption == Lines \subseteq Seq(Seq(STRING)) \ {<<>>}
ASSUME BoundsAssumption == SearchDepth \in Nat /\ MaxInputs \in Nat

VARIABLES
  mode,          \* APP_MODE: "professor" or "student"
  pc,            \* where main is
  inputs,        \* how much of the environment has been chosen, up to MaxInputs
  declared,      \* the tests, in the order their registrars run; a test is its index
  registered_assignments_,
  used,          \* options seen on the command line
  opts,          \* opts_buffer_
  disk,
  has_database,  \* there is a file of names
  database,      \* and its lines
  chosen,        \* index of the assignment to grade, 0 for none yet
  students       \* [first, last, path]; path is an index in disk, 0 for none

vars == <<mode, pc, inputs, declared, registered_assignments_, used, opts,
          disk, has_database, database, chosen, students>>

\* The elements of s at the positions in keep, in order.
Upto(s, keep) ==
  LET upto[n \in 0..Len(s)] ==
        IF n = 0 THEN <<>> ELSE IF n \in keep THEN Append(upto[n - 1], s[n]) ELSE upto[n - 1]
  IN upto
At(s, keep) == Upto(s, keep)[Len(s)]

Take(n) == inputs' = inputs + n /\ inputs' <= MaxInputs

----------------------------------------------------------------------------
(* Registrars.  Several assignments may share a name or an executable.     *)

get_assignment(name) ==
  SelectInSeq(registered_assignments_, LAMBDA a : a.name = name)
get_assignment_by_pathname(exec) ==
  SelectInSeq(registered_assignments_, LAMBDA a : a.exec = exec)

\* Mutant of find_or_create_assignment: the executable is not compared.
find_or_create_by_name(meta) == get_assignment(meta.name)

\* The index of the assignment of a test, 0 when it has to be created.
find_or_create_assignment(meta) ==
  SelectInSeq(registered_assignments_, LAMBDA a : a.name = meta.name /\ a.exec = meta.exec)

RegisterTest(meta) ==
  /\ pc = "register"
  /\ Take(1)
  /\ declared' = Append(declared, meta)
  /\ LET test == Len(declared) + 1
         at == find_or_create_assignment(meta)
     IN registered_assignments_' =
          IF at = 0
          THEN Append(registered_assignments_, [name |-> meta.name, exec |-> meta.exec, tests |-> <<test>>])
          ELSE [registered_assignments_ EXCEPT ![at].tests = Append(@, test)]
  /\ UNCHANGED <<mode, pc, used, opts, disk, has_database, database, chosen, students>>

EnterMain ==
  /\ pc = "register"
  /\ pc' = "parse"
  /\ UNCHANGED <<mode, inputs, declared, registered_assignments_, used, opts,
                 disk, has_database, database, chosen, students>>

----------------------------------------------------------------------------
(* cl_args.cpp.  argparse refuses an unknown option, a value that is not   *)
(* one of the choices, and an option given twice unless it appends.        *)

Silent == 0
Summary == 2
MaxLevel == 5

choices(opt) ==
  CASE opt = "assignment" -> {a.name : a \in Range(registered_assignments_)}
    [] opt = "--stop" -> {<<"never">>, <<"first">>, <<"each">>}
    [] opt = "--color" -> {<<"never">>, <<"auto">>, <<"always">>}
    [] OTHER -> {}                      \* any value

ProfessorOnly == {"--file-matcher", "--database", "--search-path"}

setup_parser(arg) ==
  /\ choices(arg.opt) # {} => arg.val \in choices(arg.opt)
  /\ arg.opt \in used => arg.opt \in {"-v", "-q"}
  /\ arg.opt \in ProfessorOnly => mode = "professor"

StopOption(val) ==
  CASE val = <<"first-error">> -> "FirstError"
    [] val = <<"each-test-error">> -> "EachTestError"
    [] val = <<"never">> -> "Never"
    [] OTHER -> opts.stop_option

Stored(arg) ==
  CASE arg.opt = "assignment" -> [opts EXCEPT !.assignment_name = arg.val]
    [] arg.opt = "-v" -> [opts EXCEPT !.verbosity = @ + 1]
    [] arg.opt = "-q" -> [opts EXCEPT !.verbosity = @ - 1]
    [] arg.opt = "--silent" -> [opts EXCEPT !.verbosity = Silent]
    [] arg.opt = "--stop" -> [opts EXCEPT !.stop_option = StopOption(arg.val)]
    [] arg.opt = "--color" -> [opts EXCEPT !.colorize_option = arg.val]
    [] arg.opt = "--file" -> [opts EXCEPT !.file_name = arg.val]
    [] arg.opt = "--file-matcher" -> [opts EXCEPT !.file_matcher = arg.val]
    [] arg.opt = "--database" -> [opts EXCEPT !.database_path = arg.val]
    [] arg.opt = "--search-path" -> [opts EXCEPT !.search_path = arg.val]

ParseArg(arg) ==
  /\ pc = "parse"
  /\ Take(IF arg.opt = "assignment" THEN 1 ELSE 2)
  /\ used' = used \cup {arg.opt}
  /\ IF setup_parser(arg) THEN opts' = Stored(arg) /\ pc' = pc
     ELSE pc' = "exit1" /\ opts' = opts
  /\ UNCHANGED <<mode, declared, registered_assignments_, disk, has_database, database, chosen, students>>

\* The assignment is optional for a student only.
ParsedAll ==
  /\ pc = "parse"
  /\ pc' = IF mode = "professor" /\ "assignment" \notin used THEN "exit1" ELSE "disk"
  /\ UNCHANGED <<mode, inputs, declared, registered_assignments_, used, opts,
                 disk, has_database, database, chosen, students>>

----------------------------------------------------------------------------
(* The disk, and program_options.hpp's validate.                           *)

Depth(i) == disk[i].depth

\* The directory an entry at this depth would be put in, 0 for the search path.
ParentOf(depth, i) ==
  CHOOSE p \in 0..(i - 1) :
    /\ IF p = 0 THEN depth = 0 ELSE Depth(p) = depth - 1
    /\ \A j \in (p + 1)..(i - 1) : Depth(j) >= depth

PlaceEntry(node, depth) ==
  /\ pc = "disk"
  /\ Take(1)
  /\ depth = 0 \/ /\ disk # <<>>
                  /\ \/ depth <= Last(disk).depth
                     \/ depth = Last(disk).depth + 1 /\ Last(disk).kind = "dir"
  /\ \A i \in (ParentOf(depth, Len(disk) + 1) + 1)..Len(disk) :
       Depth(i) = depth /\ node.kind = "file" => disk[i].name # node.name   \* in one directory
  /\ disk' = Append(disk, [depth |-> depth, kind |-> node.kind, name |-> node.name,
                           time |-> node.time, elf |-> node.elf, x |-> node.x])
  /\ UNCHANGED <<mode, pc, declared, registered_assignments_, used, opts,
                 has_database, database, chosen, students>>

\* The file of that name in the working directory, 0 for none.
InCwd(name) == SelectInSeq(disk, LAMBDA e : e.depth = 0 /\ e.kind = "file" /\ e.name = name)

clamp(v) == IF v < Silent THEN Silent ELSE IF v > MaxLevel THEN MaxLevel ELSE v

check_is_compat_elf(name) == InCwd(name) # 0 /\ disk[InCwd(name)].elf

validate ==
  LET a == get_assignment(opts.assignment_name)
  IN /\ opts.file_matcher # <<"broken_regex">>
     /\ opts.search_path # <<"missing">>
     /\ opts.database_path # <<>> => has_database
     /\ opts.assignment_name # <<>> =>
          /\ a # 0
          /\ mode = "student" =>
               check_is_compat_elf(IF opts.file_name # <<>> THEN opts.file_name
                                   ELSE registered_assignments_[a].exec)

Validate ==
  /\ pc = "disk"
  /\ opts' = [opts EXCEPT !.verbosity = clamp(@)]
  /\ pc' = IF ~validate THEN "exit1" ELSE IF mode = "student" THEN "student_app" ELSE "read"
  /\ UNCHANGED <<mode, inputs, declared, registered_assignments_, used,
                 disk, has_database, database, chosen, students>>

----------------------------------------------------------------------------
(* student_app.cpp *)

Inferable ==
  {i \in DOMAIN disk : /\ Depth(i) = 0 /\ disk[i].kind = "file" /\ disk[i].x
                       /\ get_assignment_by_pathname(disk[i].name) # 0}

\* get_assignment_or_exit, with infer_assignment_or_exit when no name was given.
StudentApp ==
  /\ pc = "student_app"
  /\ IF opts.assignment_name # <<>>
     THEN /\ chosen' = get_assignment(opts.assignment_name)
          /\ pc' = IF chosen' = 0 THEN "aborted" ELSE "grading"
     ELSE IF Cardinality(Inferable) # 1
     THEN pc' = "exit1" /\ chosen' = chosen
     ELSE /\ pc' = "grading"
          /\ chosen' = get_assignment_by_pathname(disk[CHOOSE i \in Inferable : TRUE].name)
  /\ UNCHANGED <<mode, inputs, declared, registered_assignments_, used, opts,
                 disk, has_database, database, students>>

----------------------------------------------------------------------------
(* database_reader.cpp *)

WriteLine(line) ==
  /\ pc = "read" /\ has_database
  /\ Take(1)
  /\ database' = Append(database, line)
  /\ UNCHANGED <<mode, pc, declared, registered_assignments_, used, opts, disk, has_database, chosen,
                 students>>

WithoutCR(line) ==
  LET field == line[Len(line)]
  IN IF field # <<>> /\ Last(field) = "CR" THEN [line EXCEPT ![Len(line)] = Front(field)] ELSE line

Entries ==
  LET lines == [i \in DOMAIN database |-> WithoutCR(database[i])]
  IN At(lines, {i \in DOMAIN lines : lines[i] # << <<>> >>})

NotSearched == -1
NotLoaded == [ok |-> FALSE, names |-> <<>>]
Loaded(entries) ==
  [ok |-> TRUE,
   names |-> [i \in DOMAIN entries |-> [last |-> entries[i][1], first |-> entries[i][2], path |-> NotSearched]]]

read ==
  IF ~has_database \/ \E i \in DOMAIN Entries : Len(Entries[i]) # 2 THEN NotLoaded ELSE Loaded(Entries)

----------------------------------------------------------------------------
(* file_searcher.cpp, assignment_file_searcher.cpp.  The pattern is        *)
(* `lastname``firstname`_\d+_\d+_`base`\.`ext`.                            *)

Lower == [c \in {"A", "B", "C"} |-> CASE c = "A" -> "a" [] c = "B" -> "b" [] c = "C" -> "c"]
Letters == {"A", "B", "C", "a", "b", "c"}
Ids == "_0_0_"
AnyWord == <<"\\w+">>

name_tf(name) ==
  LET lower == [i \in DOMAIN name |-> IF name[i] \in DOMAIN Lower THEN Lower[name[i]] ELSE name[i]]
  IN At(lower, {i \in DOMAIN lower : lower[i] \notin {"SP", "CR"}})

\* Without a "." find_last_of is npos, and npos + 1 is 0: both parts are the name.
find_last_of_dot(exec) == SelectLastInSeq(exec, LAMBDA c : c = ".")
base(exec) ==
  IF find_last_of_dot(exec) = 0 THEN exec ELSE SubSeq(exec, 1, find_last_of_dot(exec) - 1)
ext(exec) == SubSeq(exec, find_last_of_dot(exec) + 1, Len(exec))

\* The pattern with its four arguments put in, as they are.
Substituted(lastname, firstname, exec) ==
  regex_format(lastname) \o regex_format(firstname) \o <<"_\\d+_\\d+_">>
    \o regex_format(base(exec)) \o <<"\\.">> \o regex_format(ext(exec))

\* Mutant of subst_args: the first name in front, as people write it.
subst_args_as_written(lastname, firstname) ==
  Substituted(firstname, lastname, registered_assignments_[chosen].exec)

subst_args(lastname, firstname) ==
  Substituted(lastname, firstname, registered_assignments_[chosen].exec)

\* The name of a submission.
Submission(who, exec) == who \o <<Ids>> \o exec

\* The name of a submission of somebody whose name is a word, \w+.
IsWord(who) == who # <<>> /\ Range(who) \subseteq Letters \cup {"_", Ids}
OfSomebody(name, exec) ==
  \E k \in 1..Len(name) : name = Submission(SubSeq(name, 1, k), exec) /\ IsWord(SubSeq(name, 1, k))

\* Characters with a meaning in a pattern or a format, and those of them that match themselves too.
Special == {".", "*", "+", "?", "(", ")", "[", "]", "{", "}", "|", "^", "$", "\\", "BACKTICK"}
Plain(str) == Range(str) \cap Special \subseteq {"."}
Exact(str) == "." \notin Range(str)

Fields == UNION {Range(line) : line \in Lines}
Names == Fields \cup {Front(field) : field \in Fields \ {<<>>}}
FileNames == {node.name : node \in Nodes}

\* std::regex: an ordinary character matches itself and nothing else, a dot itself and more.
ASSUME RegexAssumption ==
  \A meta \in Registrations : Plain(meta.exec) /\ "." \in Range(meta.exec) =>
    /\ \A last, first \in {name_tf(name) : name \in Names} : Plain(last \o first) =>
         LET expr == Substituted(last, first, meta.exec)
         IN  /\ regex_valid(expr)
             /\ \A name \in FileNames :
                  LET own == name = Submission(last \o first, meta.exec)
                  IN  /\ own => regex_match(expr, name)
                      /\ regex_match(expr, name) /\ Exact(last \o first \o base(meta.exec)) => own
    /\ LET expr == Substituted(<<>>, AnyWord, meta.exec)
       IN  /\ regex_valid(expr)
           /\ \A name \in FileNames :
                /\ OfSomebody(name, meta.exec) => regex_match(expr, name)
                /\ regex_match(expr, name) /\ Exact(base(meta.exec)) => OfSomebody(name, meta.exec)

does_match(expr, node) == regex_match(expr, node.name)

\* recursive_directory_iterator::pop: the next entry after the directory entry i is in.
pop(i) ==
  LET after == {j \in (i + 1)..Len(disk) : Depth(j) < Depth(i)}
  IN IF after = {} THEN Len(disk) + 1 ELSE CHOOSE j \in after : \A k \in after : j <= k

\* A turn of search_recursive's loop, at the entry w.at: a directory that is too deep is left,
\* and a file that matches is found.
Walk(expr, w) ==
  IF Depth(w.at) > SearchDepth THEN [w EXCEPT !.at = pop(w.at)]
  ELSE [at |-> w.at + 1,
        found |-> IF disk[w.at].kind = "file" /\ does_match(expr, disk[w.at])
                  THEN Append(w.found, w.at) ELSE w.found]

\* The loop after each turn; there are at most as many as entries.
Walks(expr) ==
  LET turn[k \in 0..Len(disk)] ==
        IF k = 0 THEN [at |-> 1, found |-> <<>>]
        ELSE LET w == turn[k - 1]
             IN  IF w.at > Len(disk) THEN w ELSE Walk(expr, w)
  IN turn

\* The indices of the files that match, in the order of the walk.
search_recursive(expr) == Walks(expr)[Len(disk)].found

\* The sort is not stable: files written at the same time come in any order.
most_recent(files) == {i \in Range(files) : \A j \in Range(files) : disk[j].time <= disk[i].time}

\* Leading alphabetic characters of the name of a file.
infer_student_names_from_file(i) ==
  LET stop == SelectInSeq(disk[i].name, LAMBDA c : c \notin Letters)
  IN [last |-> <<>>, path |-> i,
      first |-> IF stop = 0 THEN disk[i].name ELSE SubSeq(disk[i].name, 1, stop - 1)]

----------------------------------------------------------------------------
(* professor_app.cpp.  The database is read first, whatever was asked.     *)
(* An exception, such as regex_error, ends App::run.                       *)

ProfessorApp ==
  /\ pc = "read"
  /\ chosen' = get_assignment(opts.assignment_name)
  /\ CASE chosen' = 0 -> pc' = "aborted" /\ students' = students
       [] chosen' # 0 /\ opts.file_name # <<>> -> pc' = "student_app" /\ students' = students
       [] OTHER -> pc' = (IF read.ok THEN "search" ELSE "infer") /\ students' = read.names
  /\ UNCHANGED <<mode, inputs, declared, registered_assignments_, used, opts, disk, has_database, database>>

\* find_assignment_path, for one student of the database after another.
FindAssignmentPath(i) ==
  LET expr == subst_args(name_tf(students[i].last), name_tf(students[i].first))
      files == search_recursive(expr)
  IN /\ pc = "search"
     /\ i = SelectInSeq(students, LAMBDA s : s.path = NotSearched)
     /\ IF regex_valid(expr)
        THEN /\ pc' = pc
             /\ \E path \in IF files = <<>> THEN {0} ELSE most_recent(files) :
                  students' = [students EXCEPT ![i].path = path]
        ELSE pc' = "unhandled" /\ students' = students
     /\ UNCHANGED <<mode, inputs, declared, registered_assignments_, used, opts,
                    disk, has_database, database, chosen>>

InferStudents ==
  LET expr == subst_args(<<>>, AnyWord)
      files == search_recursive(expr)
  IN /\ pc = "infer"
     /\ IF regex_valid(expr)
        THEN pc' = "search" /\ students' = [i \in DOMAIN files |-> infer_student_names_from_file(files[i])]
        ELSE pc' = "unhandled" /\ students' = students
     /\ UNCHANGED <<mode, inputs, declared, registered_assignments_, used, opts,
                    disk, has_database, database, chosen>>

RunAllStudents ==
  /\ pc = "search"
  /\ \A i \in DOMAIN students : students[i].path # NotSearched
  /\ pc' = "grading"
  /\ UNCHANGED <<mode, inputs, declared, registered_assignments_, used, opts,
                 disk, has_database, database, chosen, students>>

----------------------------------------------------------------------------

Init ==
  /\ mode \in {"professor", "student"}
  /\ pc = "register"
  /\ inputs = 0
  /\ declared = <<>>
  /\ registered_assignments_ = <<>>
  /\ used = {}
  /\ opts = [verbosity |-> Summary, assignment_name |-> <<>>, stop_option |-> "Never",
             colorize_option |-> <<"auto">>, file_name |-> <<>>, file_matcher |-> <<>>,
             database_path |-> <<>>, search_path |-> <<>>]
  /\ disk = <<>>
  /\ has_database \in {FALSE, mode = "professor"}      \* a student's app never looks
  /\ database = <<>>
  /\ chosen = 0
  /\ students = <<>>

Next ==
  \/ \E meta \in Registrations : RegisterTest(meta)
  \/ EnterMain
  \/ \E arg \in Arguments : ParseArg(arg)
  \/ ParsedAll
  \/ \E node \in Nodes, depth \in 0..(SearchDepth + 1) : PlaceEntry(node, depth)
  \/ Validate
  \/ StudentApp
  \/ \E line \in Lines : WriteLine(line)
  \/ ProfessorApp
  \/ \E i \in DOMAIN students : FindAssignmentPath(i)
  \/ InferStudents
  \/ RunAllStudents

Spec == Init /\ [][Next]_vars

----------------------------------------------------------------------------
(* Properties *)

Grading == pc = "grading" /\ mode = "professor" /\ opts.file_name = <<>>

\* The files within reach, and those of this name.
WithinReach == {i \in DOMAIN disk : disk[i].kind = "file" /\ Depth(i) <= SearchDepth}
FilesOf(name) == {i \in WithinReach : disk[i].name = name}

(* assignment_file_searcher.cpp:36-78, file_searcher.cpp:35-72: a student  *)
(* of the database whose file is there, at whatever depth within the       *)
(* limit, gets a file at least as new, and gets no file but one named      *)
(* <last><first>, lower-cased and without spaces, for this executable, so  *)
(* that two students share a file only if they are named the same that     *)
(* way.  Without a database every file of somebody whose name is a word    *)
(* has one student, and there are no others: a word of letters, digits and *)
(* underscores, where docs/CLI-USAGE.md:152 has "any sequence of           *)
(* alphabetic characters".  This is for names without the characters       *)
(* std::regex gives a meaning.  docs/CLI-USAGE.md:127 permits "spaces and  *)
(* special characters other than a `,`", but they go into the pattern as   *)
(* they are: a dot, in a name or in front of the extension, finds other    *)
(* files too, and an unbalanced parenthesis ends the program ("unhandled") *)
(* before anybody is graded.  An executable without an extension is        *)
(* searched under a name it has not.                                       *)
OwnSubmission ==
  LET exec == registered_assignments_[chosen].exec
      paths == {students[i].path : i \in DOMAIN students}
      submissions == {i \in WithinReach : OfSomebody(disk[i].name, exec)}
  IN Grading /\ Plain(exec) /\ "." \in Range(exec) =>
       IF read.ok
       THEN \A i \in DOMAIN students :
              LET s == students[i]
                  who == name_tf(s.last) \o name_tf(s.first)
                  mine == FilesOf(Submission(who, exec))
              IN Plain(who) =>
                   /\ \A f \in mine : s.path # 0 /\ disk[f].time <= disk[s.path].time
                   /\ Exact(who \o base(exec)) => s.path \in mine \cup {0}
       ELSE /\ Len(students) = Cardinality(paths)
            /\ submissions \subseteq paths
            /\ Exact(base(exec)) => paths \subseteq submissions

(* auto_registrars.hpp:29, program_options.hpp:101, student_app.cpp:94,    *)
(* professor_app.cpp:35, database_reader.cpp:22: when grading starts, the  *)
(* assignment is the one asked for, by name or by the only executable of   *)
(* the directory that has one, and has all the tests written for it, in    *)
(* order, unless the name was given two executables; the students are the  *)
(* ones of the database, each of its lines once, or of none of its lines.  *)
(* Nothing a user may type makes an assertion of the grader fail while     *)
(* there is an assignment.  A start may be refused, though, for a          *)
(* --file-matcher, --database or --search-path that a --file makes         *)
(* unneeded: validate looks at them all the same, where cl_args.cpp:239    *)
(* says --file "overrides any usage" of them.                              *)
StartsAsAsked ==
  /\ pc = "aborted" => declared = <<>>
  /\ pc = "grading" =>
       LET a == registered_assignments_[chosen]
           written == At([i \in DOMAIN declared |-> i], {i \in DOMAIN declared : declared[i].name = a.name})
       IN /\ IF opts.assignment_name # <<>> THEN a.name = opts.assignment_name
             ELSE \A i \in DOMAIN disk :      \* no executable here is of another
                    /\ disk[i].kind = "file" /\ Depth(i) = 0 /\ disk[i].x
                    /\ \E d \in Range(declared) : d.exec = disk[i].name
                    => disk[i].name = a.exec
          /\ \A i \in Range(written) :
               a.tests = written \/ \E j \in Range(written) : declared[j].exec # declared[i].exec
          /\ \A i \in Range(a.tests) : declared[i] = [name |-> a.name, exec |-> a.exec]
  /\ Grading =>
       LET lines == At(database, {i \in DOMAIN database : database[i] \notin {<< <<>> >>, << <<"CR">> >>}})
           of(i) == <<students[i].last, students[i].first>>
       IN IF has_database /\ \A l \in Range(lines) : Len(l) = 2
          THEN /\ Len(students) = Len(lines)
               /\ \A i \in DOMAIN students : of(i) \in {lines[i], WithoutCR(lines[i])}
          ELSE \A i \in DOMAIN students : students[i].path > 0 /\ students[i].last = <<>>

----------------------------------------------------------------------------
(* The inductive invariants behind these properties. *)

Pair(a) == [name |-> a.name, exec |-> a.exec]
Assignments == [name : Seq(STRING) \ {<<>>}, exec : Seq(STRING) \ {<<>>}, tests : Seq(Nat)]
\* The tests declared for this name and this executable.
Declared(pair) == At([i \in DOMAIN declared |-> i], {i \in DOMAIN declared : declared[i] = pair})

\* Every assignment has some test, all of its tests, and a name and an executable no other has.
Registry ==
  /\ declared \in Seq(Registrations) /\ registered_assignments_ \in Seq(Assignments)
  /\ \A i \in DOMAIN declared : \E a \in Range(registered_assignments_) : Pair(a) = declared[i]
  /\ \A a, b \in DOMAIN registered_assignments_ :
       Pair(registered_assignments_[a]) = Pair(registered_assignments_[b]) => a = b
  /\ \A a \in Range(registered_assignments_) :
       Pair(a) \in Range(declared) /\ a.tests = Declared(Pair(a))

Options ==
  [verbosity : Int, assignment_name : Seq(STRING), stop_option : {"Never", "FirstError", "EachTestError"},
   colorize_option : Seq(STRING) \cup {<<"auto">>}, file_name : Seq(STRING), file_matcher : Seq(STRING),
   database_path : Seq(STRING), search_path : Seq(STRING)]

\* A name that was given is an assignment's, unless there is none; each app runs on what it needs.
Commanded ==
  /\ mode \in {"professor", "student"} /\ opts \in Options
  /\ pc \in {"register", "parse", "exit1", "disk", "student_app", "read", "search", "infer", "grading",
             "aborted", "unhandled"}
  /\ pc = "register" => used = {} /\ opts.assignment_name = <<>>
  /\ pc # "exit1" /\ (opts.assignment_name # <<>> \/ "assignment" \in used) /\ declared # <<>> =>
       \E a \in Range(registered_assignments_) : a.name = opts.assignment_name
  /\ mode = "professor" => pc \in {"register", "parse", "exit1"} \/ "assignment" \in used
  /\ pc \in {"read", "search", "infer"} => mode = "professor"
  /\ pc \in {"search", "infer"} => opts.file_name = <<>>
  /\ pc = "student_app" => mode = "student" \/ opts.file_name # <<>>
  /\ pc = "aborted" => declared = <<>>

\* The assignment is the one that was asked for.
Asked ==
  LET a == registered_assignments_[chosen]
  IN /\ chosen \in DOMAIN registered_assignments_
     /\ IF opts.assignment_name # <<>> THEN a.name = opts.assignment_name
        ELSE \A i \in Inferable : disk[i].name = a.exec

Entry == [depth : Nat, kind : {"file", "dir"}, name : FileNames, time : Nat, elf : BOOLEAN, x : BOOLEAN]
Students == [last : Seq(STRING), first : Seq(STRING), path : Int]
Inputs ==
  /\ disk \in Seq(Entry) /\ students \in Seq(Students)
  /\ database \in Seq(Lines)

\* The file found for a student of the database.
FoundFor(s) ==
  LET files == search_recursive(subst_args(name_tf(s.last), name_tf(s.first)))
  IN IF files = <<>> THEN s.path = 0 ELSE s.path \in most_recent(files)

\* The students are those of the database, each searched for in turn, or those of the files.
Listed ==
  IF read.ok
  THEN /\ Len(students) = Len(Entries)
       /\ \A i \in DOMAIN students :
            /\ <<students[i].last, students[i].first>> = Entries[i]
            /\ students[i].path = NotSearched \/ FoundFor(students[i])
  ELSE LET files == search_recursive(subst_args(<<>>, AnyWord))
       IN students = [i \in DOMAIN files |-> infer_student_names_from_file(files[i])]

StartDiscipline ==
  /\ Registry /\ Commanded /\ Inputs
  /\ pc \in {"search", "infer", "grading"} => Asked
  /\ pc = "infer" => students = <<>> /\ ~read.ok
  /\ pc = "search" \/ Grading => Listed
  /\ Grading => \A i \in DOMAIN students : students[i].path # NotSearched
=============================================================================
