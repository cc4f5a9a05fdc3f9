# asmgrader in TLA+

asmgrader grades assembly programs. For every test it forks the student's
program under `ptrace(2)`, runs it, calls functions in it, injects system calls,
reads and writes its memory and its standard streams, and collects the
requirements the test body checks. The modules here model that program from its
source under `src/`; `PROJECT.json` maps every definition to the lines it models.

## 1. The system

| Component | Source | State it keeps | Operations | Modelled by |
|---|---|---|---|---|
| Tracer, TracedWaitid | `src/subprocess/tracer.cpp`, `tracer.hpp`, `tracer_types.hpp` | `pid_`, records, `exit_code_`, `mmaped_address_` | `begin`, `run`, `execute_syscall`, `jump_to`, register requests | `Tracee`, `Tracer` (partly) |
| TracedSubprocess | `traced_subprocess.cpp` | the Tracer | start, restart, kill, destructor | `TestSession` |
| Subprocess, processes | `subprocess.cpp` | `child_pid_` | fork, kill, `wait_for_exit`, destructor | `TestSession` (partly) |
| Subprocess, streams | `subprocess.cpp` | two pipes, `stdout_buffer_`, `stdout_cursor_` | read, send, close, recreate | `StdStreams` (partly) |
| Program | `program.cpp`, `program.hpp` | `alloced_mem_`, the symbol table | `run`, `call_function`, `alloc_mem` | `TestSession`, `ChildMemory`, `StdStreams` (partly) |
| TestContext | `test_context.cpp` | requirement results, the Program | everything a test body calls | `TestSession`, `StdStreams`, `Grading`, `Inspection` (partly) |
| MemoryIO, Serde | `subprocess/memory/` | none | read and write blocks, strings | `ChildMemory` (partly) |
| AsmBuffer, AsmFunction, AsmData, AsmSymbol | `api/` | the address and size of an object, an error of its look-up | set, read, call | `ChildMemory`, `Inspection` (partly) |
| SymbolTable, ElfReader | `src/symbols/` | symbols | look-up by name | `Symbols`, `Inspection` (partly) |
| RegistersState | `api/registers_state.hpp` | one snapshot | read, print, `valid_pcs` | `Registers`, `Inspection` (partly) |
| Requirements, tokenizer, decomposer | `api/expression_inspection.hpp`, `requirement.hpp`, `decomposer.hpp` | the token array | tokenize, split at the comparison, list operands | `Tokenizer`, `Requirement` (partly) |
| stringize, highlighter | `api/stringize.hpp`, `syntax_highlighter.cpp` | none | find, merge and render literal blocks | `Blocks` (partly) |
| AssignmentTestRunner | `test_runner.cpp` | the assignment's executable path | `run_all`, `run_one` | `Grading`, `Output` |
| MultiStudentRunner | `multi_student_runner.cpp` | none | `run_all_students` | `Grading`, `Output` |
| Session results | `grading_session.hpp` | plain results | totals, `all_passed` | `Grading` |
| Serializer, verbosity | `src/output/` | the sink, counters of repeated descriptions | one callback per event | `Output` (partly) |
| Registrars, metadata | `registrars/`, `api/assignment.hpp` | assignments and tests | registration at start-up, look-ups | `Startup` (partly) |
| Command line | `user/cl_args.cpp`, `program_options.hpp` | the options | parse, validate | `Startup` (partly) |
| DatabaseReader | `database_reader.cpp` | none | read names | `Startup` |
| File searching | `user/file_searcher.cpp`, `assignment_file_searcher.cpp` | the pattern's arguments | match files, infer students | `Startup` (partly) |
| StudentApp, ProfessorApp, App | `src/app/` | the options | `run`, the return code | `Startup`, `Grading` (partly) |
| Utilities, formatters | `common/` | none | value types, wrappers of libc | not modelled |

The grader is one thread. What runs beside it is the child. They interact
through ptrace stops, `waitid(2)` polled with a budget of 10 ms, signals, two
pipes and the child's memory. Above that everything is a sequence of calls:
`App` -> `MultiStudentRunner` -> `AssignmentTestRunner` -> a test body ->
`TestContext` -> `Program` -> `TracedSubprocess` -> `Tracer`. `main` comes before
it, with what the tests registered, the command line and the search for files;
every event of it goes to the serializer.

What is hard here:

* **Interleaving.** The child stops, exits or is killed between any two of the
  grader's ptrace requests, and a wait may give up at any moment of that.
* **Timeouts.** `wait_with_timeout` makes no last poll. Afterwards the child may
  be running, or stopped without anybody having been told; whichever operation
  comes next starts from there.
* **One step of several failing.** `begin`, `execute_syscall`, `restart` and
  `call_function` are each several requests; an early return leaves the rest undone.
* **State that outlives a process.** `exit_code_`, the records, `alloced_mem_`,
  `stdout_buffer_` and the assignment's `exec_path_` go on to the next process
  or the next student.
* **Text that is read back.** A condition's text is tokenized again at run time, a
  value's text is searched for literal blocks, a student's name becomes a regular
  expression: each reader has to see what the writer meant.
* **Limits.** Full pipes, the mapped page, a word-wise write shorter than a word,
  a return code of eight bits.

What makes each component correct, in one sentence:

* *Tracer, TracedSubprocess:* an operation starts with a stopped child whose stop
  was reported, ends with one, and leaves no trace of an injected call; there is
  one child at a time and none is left behind.
* *Streams:* every byte is delivered once and in order, through restarts.
* *Memory:* objects the grader places in the child do not disturb each other.
* *Requirement:* the operands a report names are those the compiler compared.
* *Highlighter:* what is shown is what was meant, whatever a program printed.
* *Snapshots and calls:* a snapshot says what the registers held when it was
  taken; the failure of an inner call is the outer call's.
* *Startup:* what is graded is what was asked for, everyone on his own file.
* *Output:* whoever adds up the lines gets the results, at every level.
* *Grading:* each student's results come from that student's program and nothing
  that was checked is left out of the totals.

`hazards` in `PROJECT.json` lists where each of these bites, with the properties
that watch it.

## 2. Modules

```
Tracee            the child and the kernel, as ptrace, waitid and kill show them
  Tracer          EXTENDS Tracee: Tracer's loops, one request or poll per step
    TestSession   EXTENDS Tracer: TestContext, Program and TracedSubprocess operations
      Lifecycle             abstract specification, INSTANCEd by TestSession
      TestSession_proofs    theorems: types, core safety, refinement, reports and records
      MCTestSession         for TLC
StdStreams        MCStdStreams      pipes and buffers
  StdStreams_proofs         theorems
ChildMemory       MCChildMemory     the mapped page
  ChildMemory_proofs        theorems
Tokenizer         the lexer's kinds, matchers and parsers, as operators
  Requirement     MCRequirement     from a condition's text to its operands
    Requirement_proofs      theorems about both
Blocks            MCBlocks          from a value to the styled text of a report
Registers         a snapshot's operators, for both processors
Symbols           the symbol table's operators
  Inspection      MCInspection      EXTENDS both: calls and snapshots of a test
    Inspection_proofs       theorems
Startup           MCStartup         from main to the first test
  Startup_proofs            theorems
Grading           students, tests, requirements, return code
  Output          MCOutput          EXTENDS Grading: what is written at every level
    Output_proofs           theorems about both
Induction         induction and recursion over the naturals, for the proofs
```

A module ends with the inductive invariants its theorems rest on; section 5 says
what they add to the properties.

### Tracee, Tracer, TestSession

`Tracee` is the environment: a child executes grader code (between fork and
execve), a program, a called function, the return breakpoint or the instruction
that `execute_syscall` writes (`place`). It makes system calls, faults, hits
breakpoints, exits, replaces itself by execve or kills itself, as any program
may. `unwaited` says that `waitid` has something to report. As in the kernel, a
ptrace request works on a stopped child whether or not the stop was reported,
and resuming it discards the report.

`Tracer` has one action per ptrace request and per poll of `waitid`. `pc` names
the place in the code: `check`, `cont`, `wait`, `ran` for `run` and `run_until`;
`resume`, `rcont`, `rwait` for `resume_until`, whose predicate is `goal`;
`inject` and `restore` for `execute_syscall`; `begin` for `begin`. A wait may
time out whenever it has not returned, even if a stop is there to be reported,
because the code does not poll once more. `run_until`'s timeout sends SIGSTOP
and does not wait for it; `resume_until`'s leaves the child running. `crashed`
is the end of the grader by a failed ASSERT or an exception nobody catches.
`blame` says which one. `assert_invariants` accepts a child that is gone and
throws for a zombie. A program makes any number of system calls; `MaxSyscalls`
bounds how many of them have an identity of their own and can be told from the
others in the records (`Push`). `run_next_syscall` gives the exit what the entry left of its
time: nothing (`ResumeExpired`, TimedOut without a resumption) or less than the poll
period (`ResumeTooShort`, which fails an assertion).

`TestSession` adds the operations of a test body: `RunProgram`, `CallFunction`,
`ExecSyscall`, `RestartProgram`, `DestroyContext`, in any order, and their
continuations (`RunProgramRan`, `Kill`, `Killed`, `Start`, `Returned`, ...).
`slow` and `lost` are history variables: some wait has timed out; a syscall stop
went unreported. Most guarantees hold only without a timeout, and the ones that
hold with timeouts say so.

Abstracted: registers other than the exit argument and the system call's
identity; the contents of memory; formatting. A failure of `pipe2` or `fork` is
not modelled, and neither is the death of the grader (`PTRACE_O_EXITKILL`). A
failed `execve` is: the child goes on as a second copy of the grader (`stray`).

`Lifecycle` is the abstract specification, about processes only: at most one, reaped before the next is
spawned and before the context is gone, and none dies or vanishes between two
operations before the first timeout. `ImplementsLifecycle` is the refinement,
with `Phase`, `Child` and `slow` as the mapping.

### StdStreams

The pipes, `stdout_buffer_` and `stdout_cursor_` under `get_stdout`,
`get_full_stdout`, `send_stdin`, `flush_stdin`, `run`, `call_function` and
`restart_program`. The child is only stopped, running, dead or reaped here; how
it gets there is TestSession's subject. A byte of stdout is named by its place
in what the programs wrote (`written`), so that loss, duplication and reordering
show; of stdin only the number of unread bytes is kept. `send_stdin` on a full
pipe sleeps, on a pipe without a reader it ends the grader by SIGPIPE; both are
modelled. The three buffers `flush_stdin` allocates in the child are left to `ChildMemory`.
`kill` drains the pipe of a child that is alive and closes it;
`restart` of a reaped child goes to `create` directly, and what a function printed
before it exited is lost if nobody had read it (`lossy`). A `kill` that fails in
`restart_program` throws and ends the test.

### ChildMemory

The page `Tracer::begin` maps: `WriteBlock`, `ReadBlock` and `ReadString` of
PtraceMemoryIO on whole words, `alloc_mem` from the page's end less 32
(`OFFSET_ADDITION`) downwards until three quarters of the page are used, `AsmBuffer`s, and the return breakpoint and by-value arguments of
`setup_function_call` from the bottom upwards. A ptrace request fails for a word outside
the page (`Mapped`; what lies beside it is taken as unmapped), and with it the read of a
block or string, the write, or the preparation of the call, each with what was done
before it left done. Nothing limits the arguments of a call; `ArgRoom` is the part
of the page where no buffer can be, and `BuffersApart` speaks of arguments in it. `alloced_mem_` is not reset by a
restart, as in the code. The x86-64 variant is modelled. The loops of
`write_block_impl` and `read_block_impl` are functions of the number of turns made
(`WriteTurns`, `ReadTurns`), and so is the cursor of the by-value arguments. The child is stopped
while the grader touches its memory (this is `StoppedBetweenOperations`), so one
block is one step. The return address on the child's stack and the argument registers are left out.

### Grading

From the students the file searcher returned to the exit status. `mode` is what
the grader was built as; `single` says that `StudentApp` runs, which professor
mode uses as well when it is given a file. A test body is
any sequence of requirements which ends by returning, by a
`ContextInternalError` (recorded in the result) or by another exception (which
ends the run, for all students). A program that Program's constructor rejects
ends the run too. A student without an executable gets an empty result, and
`all_passed` of an empty result holds. When no test is selected, `run_all`
dereferences the first element of an empty map, and the run ends there.

`Output` repeats `Grading`'s actions with what the serializer writes at each.

### Output

`PlainTextSerializer` has no influence on the run, so one run is given six of
them, one for every level: `screen[v]` is what level `v` has written for the
student at hand, and the levels can be compared with each other and with the
results. Each handler (`on_test_begin`, `on_requirement_result`, ...) gives the
lines a level adds; a line is a record of what it says. `repeat_requirements_`
counts, per level, how often a description was written, which gives a repeated
one its number. The text of a condition is left to `Requirement` and `Blocks`.

Behaviour the properties state or exclude, worth knowing:

* A run of professor mode at level Silent still writes every student's name and
  "could not locate", and does not count a student without an executable (`SilentMode`
  fails). `SilentCode` says what the exit status is: those who failed something, modulo
  `CodeMod` (256 in the program), so that 256 failing students exit with 0.
* A test that broke off with all its requirements passed counts as failed, while
  the score says 100%; with no requirements at all the score is 0% of 0.
* The number after a repeated description counts the lines of the level only, so
  it differs between levels.

### Startup

One process from its static initialisers to the first test, in stages (`pc`):
`register`, `parse`, `disk`, then `student_app` or `read`, `search`/`infer`, and
`grading`, `exit1`, `aborted` or `unhandled`. `RegisterTest` is `TestAutoRegistrar`;
`ParseArg` is one argument, refused by argparse or stored by its action;
`Validate` is `ProgramOptions::validate`; `StudentApp` infers the assignment if
it has to; `ProfessorApp` reads the database, `FindAssignmentPath` searches for one
student, `InferStudents` for all. The disk (`PlaceEntry`) and the database
(`WriteLine`) are laid out before the program first looks at them and do not
change. The tree is kept as the list of its entries in the order of
`recursive_directory_iterator`, so that `++` is the next one and `pop` the next
one that is less deep; `search_recursive` is the loop over it, turn by turn (`Walk`,
`Walks`), and the property compares it with the set of files within the depth
limit. What a filter keeps of a list is given by positions (`At`), since what a test
selects cannot be passed to the provers as an operator.

`std::regex` is external and given by three constants: what a format becomes
(`regex_format`), whether an expression is one (`regex_valid`) and which file names it
matches (`regex_match`). `RegexAssumption` says the little the proofs need: the
pattern made of names and an executable without special characters but the dot is an
expression, matches the file of that name, and matches no other unless it has a dot. `MCStartup` gives the constants a meaning for characters, dots, groups,
`+` and `*`. A pattern of the user's own is only valid or not; the search uses the default one.
The final state is
what `Grading` starts from: `students` with or without a path.

Behaviour worth knowing:

* One malformed line makes the database an error, which is logged only: the
  students are then inferred from file names. With a database of blank lines
  nobody is graded.
* Names, base and extension go into the pattern as they are. A "." in a name or in front of
  the extension (`a.b.out`) matches any character; an unbalanced parenthesis makes
  the constructor of `std::regex` throw, and `App::run` returns -1 before anybody is graded
  (`unhandled`). Two students whose names run together alike share a pattern.
* Without a database a name is `\w+`, digits and underscores included.
* For an executable without a "." base and extension are both the whole name
  (`npos + 1` is 0): the pattern is `lab\.lab` and nothing is found.
* A late submission (`doejohn_LATE_...`) is found only when students are inferred.
* Tests of one name with two executables are two assignments, of which only the
  first can be chosen by name; of two names with one executable only the first is inferred.
* `--stop` accepts `first` and `each`, its action compares with `first-error` and
  `each-test-error`: the option never has an effect.
* `-f` in professor mode still reads the database and still validates the matcher, the
  path and the database it makes unneeded, against its help text; the file itself is not validated.
* Without any registered assignment, `""` as its name passes validation in
  professor mode and fails an assertion; `StartsAsAsked` allows only this abort.

### Registers, Symbols, Inspection

`Registers` gives `RegistersState`: what a dump prints, the flags, `valid_pcs`. A
register is the set of its pieces (cut after 16, 32, 64 and 128 bits) that are
not zero, which is what the narrower views and the comparisons tell apart.
`Symbols` gives what ElfReader lists and SymbolTable keeps and finds.
`Inspection` is a test that calls functions (`CallReturns`, `CallCutOff`,
`CallExits`, `CallRefused`), with results of earlier calls as arguments, reads
symbols (`GetValue`, `SetValueThrows`) and takes and copies snapshots. A callee
may change one register piece, move the stack pointer, set flags, raise a signal
(`UnexpectedReturn`), time out (`TimedOut`) or end the process; a call is one step because
the child is stopped around it. A failure of the call's own set-up or of the restart
behind an exit is left out; `TestSession` and `ChildMemory` have them.
A snapshot's `alternative` is the snapshot whose flags its `pstate` refers to.

Behaviour worth knowing, each an exception a property names or left to this list:

* `pstate` of a copied x86-64 snapshot reads the flags of the object it was copied from, which
  may be gone; the label `rsp` of an x86-64 dump shows the instruction pointer; the
  aarch64 dump shows the sign flag as `V`. `SnapshotTrue` says all three.
* r15 is not compared, and of the aarch64 vector registers more than the halves the standard
  preserves. `PcsVerdict` says both.
* A call that is cut off leaves its return address on the stack, so that the calls after it start misaligned.
* An undefined symbol has the address 0 and is found; `set_value` on an unknown
  symbol reads address 0 and throws.
* A program without a static symbol table ends the grader (a postcondition of SymbolTable).
* Reading a register of the other processor throws an exception no test expects.

### Blocks

`stringize::str` marks literal blocks as `%#` and a style between backticks, and
the highlighter finds the blocks in the resulting text, merges neighbours and renders
them. `FindBlock` is one round of the search, with `str` the remaining text and
`idx` its supposed position; `Render` is `highlight` or `render_blocks`, whose
exception `maybe_highlight` answers with a second attempt (`attempt`). `value` is
either what an author wrote in the documented syntax, or a value that holds a
string a student's program produced. A block whose content begins with an escaped `<`
is shown with its end delimiter, since the escape is counted into `idx` twice, and shifts
all blocks behind it; two of them may lose the report. `ShownAsMeant` and `LostOnly` say
so. A block whose content ends in a backslash cannot be written, and is not enumerated. Which token of a text gets which colour is
left out; that a text between blocks may be refused is `NotTokenized`.

### Tokenizer, Requirement

`Tokenizer` translates `parse_all`'s parts: for every kind of token a matcher,
which looks at the rest of the text (and, for brackets and operators, at the
tokens before it), and a parser, which here gives the length of the token or
`Throws`. Characters are strings of length one; this is the one place where text
is spelled out, because what the code decides depends on it.

In `Requirement` an author writes a condition that C++ accepts, lexeme by lexeme
(`WriteOperand`, `WriteInfix`, `OpenCall`, ...), knowing which operators the
decomposer rejects. Each lexeme carries the kind it has in C++, and `top` is the
comparison at which the compiler decomposes the expression. `Require` is the
macro, `Token` one round of `parse_all`, `EndTokens` its end, `Split` is
`decomposed_to_op`. So the program's view of the text and the compiler's are
computed independently, and the properties relate them. A ParsingError
(`rejected`) leaves the test's body; the ASSERT in `subseq` (`aborted`) ends the grader.

Left out of the conditions: subscripts, the ternary operator, braces, lists of template
arguments, user-defined literals, suffixes in another order than the grammar's (`1lu`), chains such
as `a == b < c`, uneven blanks, and the operators `++`, `--` and `.*`.

`RejectedOnly`, `SplitAtComparison` and `AbortedOnly` name the exceptions they
need, and `RejectedAlways` that the first two below are refused in every context; these
are what the code does with legal conditions:

* A condition that ends in an operand spelled `u`, `U`, `L`, `u8` or `U8` is refused: without
  a quote ahead, the rest of the text counts as a string's prefix.
* `0x1.8p1` is refused. The fraction of a hexadecimal float is expected to have a `0x` of its own.
* A condition of exactly `MaxNumTokens` tokens is refused; `EndDelimiter` needs a place too.
* The first token spelled like the comparison is taken. `f(a == b) == c` and
  `f<x> < y` are reported with the wrong operands.
* `p<=">"`, without blanks, aborts the grader: the `<` is taken for a template
  bracket, and no token `<=` is left to be found (`TemplateMistaken`).
* `p<=">"-p(p<=p)` is split at the second `<=`, because the first was torn apart. Only the
  attempt to prove `SplitAtComparison` showed this: it takes ten lexemes, and the run
  stops at six. The property now allows it.

Not used as a property, because only the kinds of brackets and signs differ: `)` is classified by
the first brackets although `expression_inspection.hpp:967` says the most recent
ones, so the kinds in `f((x))` are not those of C++; a sign after the `)` of a call is taken as unary.

## 3. Runs

| Run | What it asks | Bounds |
|---|---|---|
| `session_safety` | type, eight safety properties of the core, refinement of `Lifecycle` | `ExitCodes` {7, 256}, 2 system calls told apart, 3 operations |
| `session_live` | every operation finishes if the program's system calls end; a timed-out child becomes traceable or dies | {7}, 2, 2 |
| `syscall_unrecorded` | finding: a system call without a record | {7}, 2, 2 |
| `streams` | bytes delivered once and in order; `flush_stdin` terminating, with all bytes counted | pipes of 2 and 3 bytes, 3 bytes written, sends up to 4, 5 operations |
| `memory` | buffers, arguments and breakpoint apart; frame of a write; exact reads | words of 3, page of 48, sizes {1, 2, 4, 22}, bytes {0, 1}, 4 operations |
| `output` | own executable, sums, return code; lines of every level add up to the results, are told apart, and levels contain the lower ones | 2 students, 2 tests, 2 requirements per student, 2 descriptions, weights {1, 2}, `CodeMod` 2 |
| `silent_mode` | finding: a silent run names students and does not count one | as above |
| `requirement` | operands whole; refusals, aborts and wrong splits only in the listed cases, two refusals always; no name missing from the report | conditions of 6 lexemes, 15 operands of which one repeats, 7 binary operators, 7 tokens |
| `blocks` | shown as meant; reports lost in the listed cases only | strings of 4 of six characters and one of 8, 3 parts, 6 contents, 5 lists of styles |
| `str_unparsable` | finding: a program's output can make a report throw | as above |
| `inspection` | snapshots true, `valid_pcs` exact, stack aligned, failures of inner calls | both processors, 2 calls, 1 argument, 5 register pieces, stack moved by 0 or 1 |
| `startup` | everyone gets a newest file of his own; the assignment, its tests and the students are those asked for | `MaxInputs` 6, 3 assignments, 9 entries, 8 lines: tests, entries, lines and the assignment's name count one, options two; `SearchDepth` 1 |

Why the bounds are enough:

* *Session.* Three operations are the shortest sequences in which a first one
  leaves something behind, a second one meets it and a third one sees what came
  of it (a timed-out run, a restart, a run). Two system calls let one be
  unreported while the other is in progress. 256 makes the exit code the grader reads at the
  entry of exit differ from the one waitid would report, so that a confusion of the two shows.
* *Streams.* Pipes of 2 and 3 with 3 bytes to write and 4 to send fill up and make both sides
  block; `Chunk` 2 makes `flush_stdin` go round its loop with a last read cut short. The numbers stand for 64 KiB and 32 bytes.
* *Memory.* The sizes are below and above a word; two buffers of 22 exhaust the part of the page that
  may be allocated, and two arguments of 22 run over the buffers and past the page. 3, 48, 3 and 5 stand for 8, 4096, 32
  and 32. A word of 3 keeps every alignment of a write in play.
* *Requirement.* Six lexemes hold a call or template arguments next to a
  comparison, or a group with a comparison in it. There is an operand of every
  kind of literal, with the suffixes, prefixes, escapes and inner quotes that
  the matchers look for; a condition has one of them (`MaxOthers`) beside any number of `p`, since
  a matcher looks for one character ahead at a time. With 7 tokens some
  conditions of six lexemes, torn apart, are too long for the array.
* *Output.* Two students let one's state leak to the next. `CodeMod` 2 stands
  for 256 and is passed by two failing students. Two requirements repeat a
  description, and the two descriptions are such that a number put after one gives the other.
* *Blocks.* `%#`, the backtick, the backslash, both angle brackets and a letter are the
  characters the search tells apart; four of them hold the opener with an end or
  an escape. Three parts put a block next to a block and a text on either side.
* *Inspection.* Two calls are a call and what it left to the next, or an inner and an
  outer one; the pieces are a saved register, one that valid_pcs forgets, the last
  of each list, and pieces below, at and above 64 bits.
* *Startup.* Depth 1 is enough for a file in the search path, one in a
  directory, and one too deep; with one test and the assignment's name four inputs are left: a directory in a
  directory, a file too deep in it and one behind it, or two lines and two files.
  `SearchDepth` 1 stands for 10.

`CHECK_DEADLOCK FALSE` everywhere: each model ends, because the condition is reported or refused, the context is
destroyed (`done`), the grader aborts (`crashed`) or exits (`exit`), or has used
its bound on operations; and a `send_stdin` on a full pipe whose reader is
stopped sleeps for ever, in the program as in the model.

### Fairness

* `WF(GraderStep)`: the grader's one thread goes on while an operation is in
  progress. Between operations nothing is assumed; a test body may stop there.
* `SF(ResumeOutOfTime)`: `resume_until`'s budget is for its whole loop. The child may
  stop over and over, so that the timeout is only enabled again and again;
  the clock runs nevertheless.
* `WF(KernelStep)`: pending signals are delivered, and a system call that waits
  for nothing finishes. A call that may block for ever gets no fairness.
* In `StdStreams` only `WF(GraderStep)`; the child is under no obligation.

`OperationsFinish` has a hypothesis, `CallsEnd`: from some moment on the program makes no
more system calls. A program that never ceases keeps `run_until`, whose budget is
per stop, busy for ever; this is in the model, since `MaxSyscalls` does not bound how
many calls there are.

## 4. What the runs found

Three runs exhibit a disagreement between the code and a line of its documentation or
comments. They are the `findings` of `PROJECT.json`:

1. A system call whose entry stop is not reported in time is never recorded (`tracer.hpp:58`).
2. A silent run writes the name of a student it cannot locate, and does not count him
   (`docs/CLI-USAGE.md:238`).
3. A program's output that begins a literal block and does not end it makes the
   report of a requirement throw, and with it the run of the grader (`stringize.hpp:181`).

The other disagreements met are stated by the passing properties as what the code does, with
the line that says otherwise in their comments:

| The source says | The code does | Stated by |
|---|---|---|
| `error_types.hpp:12`: TimedOut, "surpassed maximum timeout" | a program that keeps making system calls is never timed out | `OperationsFinish` (its hypothesis) |
| `tracer.cpp:320`: "Restore original instructions" | an injected call that times out leaves the patch in place | `InjectionRestored` (`~slow`) |
| `run_result.hpp:8`: there is a `Kind::Killed` | a program that dies by SIGKILL aborts the grader | `CrashCauses` |
| `tracer.hpp:58`: "Records each syscall execution" | a number beyond `SYSCALL_MAP` ends the grader | `CrashCauses` (another cause, by its comment) |
| `test_context.cpp:109`: the program has "exited" | `exit(256)` is reported as 256, which no parent sees | `ExitReportTrue` |
| `test_context.hpp:80`: "all stdout from since the beginning" | what a function prints before it exits is lost | `NothingLost` (`~lossy`) |
| `ptrace_memory_io.cpp:58`: bytes "we need to write AGAIN" | a short write zeroes up to seven bytes below the address | `WriteFrame` |
| `docs/CLI-USAGE.md:238`: "# of students not passing all tests" | cut to eight bits, 256 failing students are 0 | `SilentCode` |
| `expression_inspection.hpp:155`: hexadecimal floats | `0x1.8p1` is refused | `RejectedAlways` |
| `expression_inspection.hpp:170`: identifiers | a condition that ends in `u` or `L` is refused | `RejectedAlways` |
| `syntax_highlighter.hpp:117`: an escaped `<` begins a block's text | the end delimiter is shown too, later blocks are shifted | `ShownAsMeant`, `LostOnly` |
| `registers_state.hpp:464`: registers [12, 36) are preserved | r15 is not compared | `PcsVerdict` |
| `registers_state.hpp:362`: `rsp`, the stack pointer | an x86-64 dump shows the instruction pointer (`:759`) | `SnapshotTrue` |
| `test_context.hpp:90`: a snapshot of the registers | a copy's `pstate` follows the object it was copied from | `SnapshotTrue` |
| `registers_state.hpp:592`: the V flag | an aarch64 dump shows the sign (`:567`) | `SnapshotTrue` |
| `docs/CLI-USAGE.md:127`: special characters are permitted | they are part of a regular expression | `OwnSubmission` (`Plain`, `Exact`) |
| `docs/CLI-USAGE.md:152`: "alphabetic characters" | `\w+` | `OwnSubmission` |
| `cl_args.cpp:239`: `--file` overrides other options and no database is read | they are validated, and it is read | `StartsAsAsked` (by its comment) |

One more is in the model without a property: `run` resumes wherever an earlier operation left
the program, where `test_context.hpp:109` has "normally from `_start`".

The models also show behaviour the source makes no statement about, or that is a
matter of opinion. Besides what section 2 lists: `exit_code_` outlives a restart,
so `get_exit_code` may be the previous process's; any SIGTRAP in a called function
counts as its return; a `send_stdin` to a dead program raises SIGPIPE.

## 5. What is proved

Each theorem holds for all values of the constants that satisfy the module's
assumptions. What these assume is said below where it is more than a type.
TLC checked every inductive invariant on the run of its module before it was proved.

| Theorem | Property | From |
|---|---|---|
| **`TestSession_proofs`** | | |
| `TypeCorrect` | `TypeOK` | itself |
| `StoppedBetweenOperationsCorrect`, `CrashCausesCorrect`, `OneChildCorrect`, `NoOrphanCorrect` | the property in the name | `Discipline` |
| `InjectionRestoredCorrect` | `InjectionRestored` | `PatchDiscipline` |
| `ImplementsLifecycleCorrect` | `ImplementsLifecycle` | step simulation, under `Discipline` |
| `ExitReportTrueCorrect` | `ExitReportTrue` | `ReportDiscipline` |
| `StartedFreshCorrect` | `StartedFresh` | `StartDiscipline` |
| `OwnReturnCorrect` | `OwnReturn` | `PairDiscipline` |
| **`StdStreams_proofs`** | | |
| `TypeCorrect` | | `TypeOK` |
| `DeliveredOnceCorrect`, `NothingLostCorrect` | the property in the name | `StreamDiscipline` |
| `FlushExactCorrect` | every unread byte is counted or still there | `StreamDiscipline` |
| `FlushProgress` | every read of `flush_stdin` takes bytes out of the pipe | `StreamDiscipline` |
| **`ChildMemory_proofs`** | | |
| `WriteBlockEffect` | what `write_block_impl` leaves in memory, zeros below a short value included | induction on its turns |
| `ReadBlockExact`, `ReadStringExact` | a block and a string are read as they are in memory, or the read fails at a word that is not mapped | induction on turns |
| `BuffersApartCorrect`, `BreakpointStandsCorrect` | the property in the name | `MemoryDiscipline` |
| `WriteFrameCorrect` | `WriteFrame` (action property) | `MemoryDiscipline`, `WriteBlockEffect` |
| `ReadsExactCorrect` | `ReadsExact` | `ReadBlockExact`, `ReadStringExact` |
| **`Output_proofs`** | | |
| `OwnExecutableCorrect`, `SummaryAddsUpCorrect`, `SilentCodeCorrect` | the property in the name | `GradingDiscipline` |
| `LabelsTellApartCorrect` | `LabelsTellApart` | `NumberDiscipline` |
| `LevelsNestedCorrect` | `LevelsNested` | `Nested(screen)`, what a level says in terms of the one below |
| `ScreenAddsUpCorrect` | `ScreenAddsUp` | `CountDiscipline` |
| **`Inspection_proofs`** | | |
| `TypeCorrect` | | `TypeOK` |
| `StackAlignedCorrect` | `StackAligned` | `AlignDiscipline` |
| `NestedFailureCorrect` | `NestedFailure` | `NestedDiscipline` |
| `PcsVerdictCorrect` | `PcsVerdict` | `PcsDiscipline` |
| **`Requirement_proofs`** | | |
| `TokenDisciplineInvariant` | `TokenDiscipline` | itself |
| `OperandsWholeCorrect`, `RejectedOnlyCorrect`, `AbortedOnlyCorrect`, `SplitAtComparisonCorrect`, `WhereCompleteCorrect` | the property in the name | `TokenDiscipline` |
| **`Startup_proofs`** | | |
| `SearchExact` | a search finds each matching file within the limit once, in order | induction on the walk |
| `StartDisciplineInvariant` | `StartDiscipline` | itself |
| `OwnSubmissionCorrect` | `OwnSubmission` | `StartDiscipline`, `SearchExact` |
| `StartsAsAskedCorrect` | `StartsAsAsked` | `StartDiscipline` |

*TestSession.* `Discipline` strengthens the safety properties to an inductive invariant. The property
"stopped when idle" says nothing of the other values of `pc`; the invariant adds
that the child is `Quiet` (stopped and reported, or reaped) wherever the grader
does not wait, that a SIGKILL is pending only in `killwait`, and that the child
`killwait` waits for was killed by it and did not die by itself. Two parts hold
even after timeouts: no process exists at `fork` and `done`, and a dead child
has no signals pending. This is what `OneChild` and `NoOrphan` need.
`PatchDiscipline` adds that the registers saved by `execute_syscall` are never
those of the patch itself, without which an injected call inside another's debris could
restore the patch. `ReportDiscipline` follows where a SIGKILL may be left pending, so
that no report of an exit is overtaken by another death. `StartDiscipline` names
every state between `fork` and the end of the injected `mmap`: none has code of
the program in it. `PairDiscipline` says which system call is under way when a
record may be completed; it holds while no entry went unreported (`lost`).

*StdStreams.* What was delivered is the buffer up to the cursor, and what the
program wrote is the buffer followed by the pipe, as long as nobody closed the
pipe with bytes in it; `Drained` says why `kill` does not. `flush_stdin`'s
`ppoll` finds the pipe readable only with bytes in it (`Flushing`).

*ChildMemory.* The page has to be a whole number of words and a quarter of it has
to hold the breakpoint below the lowest buffer (`RoomAssumption`: 4096 is). The
padding is at least a word less one byte, which is why no by-value argument spoils the
breakpoint, whatever the arguments are. Buffers stay apart from the arguments that lie in `ArgRoom`.
A read of a string fails only if no byte from its start to the page's last word is zero.

*Grading, Output.* `Tally` ties the running totals to the list of results;
`Progress` says whose executable is in `exec_path_`. `Numbered` states of every
line that its number is how many lines above it have the same description, so that no two of those are numbered alike. `Accounts` is the sum of the lines of
each test begun, the hidden ones included, at each level that shows tests.

*Inspection.* A stack stays aligned while no call was cut off (`disturbed`). Results are
a tree: each depends on earlier ones only and has the error theirs forces on
it. `Around` relates the registers before and after the last call, with whatever
`setup_function_call` changed in between left to the registers `valid_pcs` does not
look at; r15 is never named. `NamesApart` states that the names `ToString` builds differ, which is true of numbers.
At most six arguments fit the registers (`MaxArgs`).

*Startup.* `Registry` says that the assignments partition the tests; `Commanded`
that a name that came through the parser is an assignment's unless there is none;
`Listed` that the students are the database's entries with what a search for
each found, or the files that a search for all found. `OwnSubmission` follows
because a pattern of plain names matches the files of one name (`RegexAssumption`), `StartsAsAsked` because
the entries are the lines that have something on them.
Names with other special characters are outside of the theorem, as of the property.

*Requirement, Tokenizer.* The theorems hold for conditions of any length and for all operands and
operators `RequirementAssumption` admits. An operand is an identifier or a literal that is
one token when it stands alone (`Wellformed`). `TokenDiscipline` has three parts.
`Shape` is about the author: where each lexeme stands in the text, with a blank before it or
with a first character that C++ does not read together with what precedes (`Placed`), which
lexeme may follow which, and how brackets nest. `Lexing` is about the tokenizer: after each round there is a
lexeme it has read to the end, or has broken inside of an operator whose `<` or `>` it took for a bracket,
so that one of four residues is left; every operand passed has its own
token, and so has every lexeme while no template was mistaken; and the
numbers of bracket tokens are those of the brackets passed. The last is what keeps a `)` from throwing
in `is_grouping` and an honest `>` from being read as a comparison. `Outcome` says what
`find_end_delim_idx` and `subseq` make of the tokens. Most of the proof is about the
`Tokenizer`: for every kind, what its matcher and parser say of a text that
begins with an operand or operator is what they say of it alone, if what follows it in the condition
cannot continue it. There are two exceptions, for which the Tokenizer throws: a
hexadecimal float with a point, and a prefix of a string literal at the very end, for which a quote is
searched in vain.

Loops and recursive functions are proved about with `Induction`: induction
with a set in place of a predicate, induction up to a bound, and the
existence of a recursive function, all from the theorems on finite sets. The library's
induction theorems take an operator as a parameter, which the
provers cannot instantiate.

Model-checked only:

* *Liveness*, out of the prover's reach as is ENABLED: `OperationsFinish`,
  `EventuallyTraceable`, `FlushEnds`, `SendsThatFitReturn`.
* *`RejectedAlways`:* the proof shows where the tokenizer may throw; that it always does there
  would need the dual lemma for each parser before it.
* *`SnapshotTrue`:* after its type, what is left of it is that a copy copies.
* *Blocks:* `ShownAsMeant`, `LostOnly`. The text of a value and the pieces of a report are
  built with `FlattenSeq`, a recursion over sets of indices that `Induction`, which is about
  natural numbers, does not reach; and a proof has to follow where each block of the value ended up in the
  text. For arbitrary contents the properties would need assumptions first, such as that no part ends in a backslash.
* The findings, which are violations.

## 6. Plan

Done: core session with its refinement and proofs, streams, memory, requirements,
grading and output, blocks, registers and symbols, start-up; proofs of all safety
properties but `RejectedAlways`, `SnapshotTrue` and those of `Blocks`.

Next, in this order:

1. *Proofs of Blocks:* `LostOnly` and `ShownAsMeant` for strings of any length.
2. *Subprocess without a tracer:* timed `read_stdout`, moves, `wait_for_exit(timeout)`.

## 7. Not modelled

Colours, layout and wording of reports, help texts, `--version`, logging and stack
traces keep no state that a later step depends on. A user's own `--file-matcher` is an arbitrary
regular expression; only whether it is one is modelled, and `std::regex` itself is a
constant (section 2). Parsing ELF files is the ELFIO library's, parsing
arguments argparse's; both are modelled by what the code makes of their results.
`find_closest_above` has no caller. Values of registers and memory are small, and
the conversions between C++ types and bytes are abstracted. `common/` holds value types,
formatters and wrappers whose effects are in `Tracee`. A failed `fork` or `pipe2`,
the timed waits of a child that is not traced and moves of a `Subprocess` wait for the plan's second item.
The tests and the build are used as documentation only.
