---------------------------- MODULE TestSession ----------------------------
(***************************************************************************)
(* One test's use of its program: the operations of TestContext, Program   *)
(* and TracedSubprocess that start, run, call into, restart and destroy    *)
(* the traced child, over Tracer's loops.  The test body performs them one *)
(* at a time, in any order, until the context is destroyed; the child      *)
(* moves whenever ptrace and the kernel let it.                            *)
(***************************************************************************)
EXTENDS Tracer, FiniteSets

CONSTANT MaxOps   \* bound: operations the test body performs

ASSUME MaxOpsAssumption == MaxOps \in Nat

VARIABLE ops      \* operations the test body has begun

vars == <<traceeVars, graderVars, ops>>

TypeOK == TraceeTypeOK /\ TracerTypeOK /\ ops \in Nat

\* Program's constructor is about to call TracedSubprocess::start.
Init ==
  /\ TraceeInit /\ TracerInit
  /\ pc = "fork" /\ task = "ctor" /\ res = Res("none") /\ blame = "none"
  /\ slow = FALSE /\ lost = FALSE /\ ops = 0

\* The steps below leave the Tracer's own members alone.
Move(next) == pc' = next /\ UNCHANGED <<tracerVars, blame, lost>>
Finish(result, next) == Move(next) /\ res' = result /\ UNCHANGED <<task, slow, ops>>
Enter(operation, next) ==
  /\ pc = "idle" /\ ops < MaxOps /\ ops' = ops + 1
  /\ Move(next) /\ task' = operation /\ res' = Res("none") /\ UNCHANGED slow

----------------------------------------------------------------------------
(* TestContext::run *)

RunProgram == Enter("run", "check") /\ UNCHANGED traceeVars

\* At the entry of exit(2) the program counts as exited; an error is thrown, and
\* the test ends by destroying its context.
RunProgramRan ==
  /\ pc = "ran" /\ task = "run"
  /\ CASE res.kind = "predsat"  -> Finish([res EXCEPT !.kind = "exited"], "idle")
       [] res.kind = "timedout" -> Finish(res, "dtor")
       [] OTHER                 -> Finish(res, "idle")
  /\ UNCHANGED traceeVars

----------------------------------------------------------------------------
(* Program::call_function *)

\* setup_function_call and jump_to need a stopped child; they are ptrace requests
\* only, during which a stopped child does not move.
CallFunction ==
  /\ pc = "idle" /\ ops < MaxOps /\ ops' = ops + 1
  /\ task' = "call"
  /\ CASE proc = "stopped" -> /\ SetRegs("func")
                              /\ Move("check") /\ res' = Res("none")
       [] ~Live -> /\ pc' = "crashed" /\ blame' = "contract"
                   /\ UNCHANGED <<traceeVars, tracerVars, res, lost>>
       [] OTHER -> /\ Move("idle") /\ res' = Res("failed")
                   /\ UNCHANGED traceeVars
  /\ UNCHANGED slow

CallFunctionRan ==
  /\ pc = "ran" /\ task = "call"
  /\ CASE res.kind = "timedout" -> Finish(res, "idle")
       [] res.kind = "exited"   -> Finish(res, "alive")
       [] res.kind = "sigtrap"  -> Finish(Res("returned"), "idle")
       [] OTHER                 -> Finish(Res("unexpected"), "idle")
  /\ UNCHANGED traceeVars

----------------------------------------------------------------------------
(* TestContext::exec_syscall, restart_program; Subprocess::restart, kill   *)

ExecSyscall == Enter("exec", "inject") /\ UNCHANGED traceeVars

RestartProgram == Enter("restart", "alive") /\ UNCHANGED traceeVars

\* Mutant of Kill: does not wait for the process it has killed.
KillNoWait ==
  /\ pc \in {"alive", "dkill"}
  /\ IF Exists THEN Signal("KILL") ELSE UNCHANGED traceeVars
  /\ Move(IF pc = "alive" THEN "fork" ELSE "base")
  /\ UNCHANGED <<task, res, slow, ops>>

\* restart() and ~TracedSubprocess kill a child that is_alive.
Kill ==
  /\ pc \in {"alive", "dkill"}
  /\ IF Exists THEN Signal("KILL") /\ Move("killwait")
               ELSE UNCHANGED traceeVars /\ Move(IF pc = "alive" THEN "fork" ELSE "base")
  /\ UNCHANGED <<task, res, slow, ops>>

AfterKill == IF task = "dtor" THEN "base" ELSE "fork"

Killed ==
  /\ pc = "killwait" /\ proc = "zombie"
  /\ Report
  /\ IF status.how = "killed" THEN Finish(res, AfterKill)
                              ELSE Crash("notkilled") /\ UNCHANGED ops

KillTimeout ==
  /\ pc = "killwait"
  /\ Move(IF task = "dtor" THEN "base" ELSE "returned")
  /\ res' = Res("failed") /\ slow' = TRUE
  /\ UNCHANGED <<traceeVars, task, ops>>

\* Subprocess::create in the parent; exit_code_, records and the rest of the Tracer
\* keep what the previous process left there.
Start ==
  /\ pc = "fork"
  /\ Fork
  /\ pc' = "begin"
  /\ UNCHANGED <<task, tracerVars, res, blame, slow, lost, ops>>

\* Program's constructor ignores start's result, restart_program throws on an error,
\* and call_function reports an unexpected return once the restart succeeded.
Returned ==
  /\ pc = "returned"
  /\ CASE task = "restart" /\ res.kind # "ok" -> Finish(res, "dtor")
       [] task = "call" /\ res.kind = "ok"    -> Finish(Res("unexpected"), "idle")
       [] OTHER                               -> Finish(res, "idle")
  /\ UNCHANGED traceeVars

----------------------------------------------------------------------------
(* ~TracedSubprocess, then ~Subprocess *)

DestroyContext ==
  /\ pc = "idle"
  /\ Move("dtor") /\ task' = "dtor" /\ res' = Res("none")
  /\ UNCHANGED <<traceeVars, slow, ops>>

DtorRun ==
  /\ pc = "dtor"
  /\ Move(IF Exists THEN "check" ELSE "base") /\ task' = "dtor"
  /\ UNCHANGED <<traceeVars, res, slow, ops>>

DtorRan == pc = "ran" /\ task = "dtor" /\ Finish(res, "dkill") /\ UNCHANGED traceeVars

\* Mutant of BaseWait: ~Subprocess only closes the pipes.
BaseNoWait == pc = "base" /\ UNCHANGED traceeVars /\ Finish(res, "done")

\* wait_for_exit() of a child that survived kill's 10 ms.
BaseWait ==
  /\ pc = "base"
  /\ IF Exists THEN proc = "zombie" /\ Report ELSE UNCHANGED traceeVars
  /\ Finish(res, "done")

----------------------------------------------------------------------------
SessionStep ==
  \/ RunProgram \/ RunProgramRan \/ CallFunction \/ CallFunctionRan
  \/ ExecSyscall \/ RestartProgram \/ Kill \/ Killed \/ KillTimeout \/ Start
  \/ Returned \/ DestroyContext \/ DtorRun \/ DtorRan \/ BaseWait

Next ==
  \/ SessionStep
  \/ TracerStep /\ UNCHANGED ops
  \/ TraceeStep /\ UNCHANGED <<graderVars, ops>>

Spec == Init /\ [][Next]_vars

(* The grader's thread keeps going while an operation is in progress; its  *)
(* 10 ms budget runs out however often the child stops meanwhile; and the  *)
(* kernel delivers signals and finishes what does not wait for anything.   *)
GraderStep == pc # "idle" /\ (SessionStep \/ (TracerStep /\ UNCHANGED ops))
KernelStep ==
  /\ SigstopDelivered \/ ChildKilled \/ ChildExit \/ ProgramExec
     \/ ("STOP" \in sigs /\ SyscallReturn)
  /\ UNCHANGED <<graderVars, ops>>

Fairness ==
  /\ WF_vars(GraderStep)
  /\ SF_vars(ResumeOutOfTime /\ UNCHANGED ops)
  /\ WF_vars(KernelStep)

FairSpec == Spec /\ Fairness

----------------------------------------------------------------------------
(* Properties that hold. *)

\* Between operations the child is in a ptrace stop that has been reported, or
\* reaped, unless some wait on a child has timed out: what every operation that
\* starts with a ptrace request relies on (tracer.cpp, get_registers, run_until).
StoppedBetweenOperations ==
  pc = "idle" /\ ~slow => proc \in {"stopped", "reaped"} /\ ~unwaited

\* A grader that never saw a timeout is only brought down by a ptrace request when
\* the child died inside a wait loop that goes on after any death it does not expect
\* (run_until has no branch for the Kind::Killed of run_result.hpp:8, so tracer.cpp:340
\* asserts on the reaped child); and only a timeout lets restart's kill() find a child
\* that has already exited.  The third cause, blame "unmapped", is a system call number
\* beyond SYSCALL_MAP, which tracer.hpp:58 would have recorded like any other.
CrashCauses ==
  /\ blame = "notstopped" => slow \/ proc = "reaped"
  /\ blame = "notkilled"  => slow

\* run_until pairs each syscall exit with the record of its own entry, across
\* run_until's timeouts, restarts and injected calls, as long as no unreported syscall
\* stop was resumed and no start or injected call ran out of time.
OwnReturn ==
  ~lost => \A i \in 1..Len(records) : records[i].ret \in {NoRet, records[i].id}

\* TestContext::run says "exited with code c" only while the child waits at the entry
\* of exit(c), its memory still there, or once waitid reported c.  At the entry c is the
\* argument itself: exit(256) is said to have exited with 256, although no parent can get
\* that from waitid and test_context.cpp:109 calls it an exit "for all intents and purposes".
ExitReportTrue ==
  pc = "idle" /\ task = "run" /\ res.kind = "exited" =>
    \/ proc = "stopped" /\ why = "entry" /\ sys.nr = "exit" /\ sys.arg = res.code
    \/ proc = "reaped" /\ status = [how |-> "exited", code |-> res.code]

\* A successful start or restart leaves the new process at its first instruction, with
\* nothing pending and nothing of execute_syscall's patch left.
StartedFresh ==
  pc = "idle" /\ task \in {"ctor", "restart"} /\ res.kind = "ok" =>
    proc = "stopped" /\ place = "start" /\ ~unwaited /\ sigs = {}

\* Whatever became of an injected system call, and of the three starts of a process
\* that inject mmap(2), the test never goes on with the child at or past the patched
\* instruction, unless a wait has timed out (execute_syscall, tracer.cpp:316-327): an
\* injected call that does leaves before "Restore original instructions and program state"
\* (tracer.cpp:320), and the child stays inside the patch.
InjectionRestored == pc = "idle" /\ ~slow => place \notin {"patch", "spent"}

\* A second process is only forked when the first has been reaped.
OneChild == pc = "fork" => ~Exists

\* A destroyed context leaves neither a process nor a zombie behind.
NoOrphan == pc = "done" => ~Exists

\* The programs make no more system calls from some moment on.
CallsEnd == <>[][~SyscallEnter]_vars

\* Every operation of the test finishes, whatever else the program does, if it makes only
\* finitely many system calls.  The hypothesis is needed: error_types.hpp:12 calls TimedOut
\* "Program / operation surpassed maximum timeout", but run_until waits for up to 10 ms anew
\* after each system call (tracer.cpp:339-342), and runs a program that never ceases to
\* make them for ever.
OperationsFinish == CallsEnd => (pc # "idle" ~> pc \in {"idle", "done", "crashed"})

\* After a timeout of run_until the child does get to a traceable state, or dies.
EventuallyTraceable ==
  pc = "ran" /\ res.kind = "timedout" ~> proc \notin {"running", "insys"}

----------------------------------------------------------------------------
(* The abstract specification the session implements. *)

Phase == CASE pc = "idle"    -> "idle"
           [] pc = "done"    -> "over"
           [] pc = "crashed" -> "aborted"
           [] OTHER          -> "busy"
Child == IF Live THEN "alive" ELSE IF proc = "zombie" THEN "dead" ELSE "absent"

L == INSTANCE Lifecycle WITH phase <- Phase, child <- Child, late <- slow

\* The session's interleaving of grader, child and signals is an implementation of the
\* lifecycle TestContext, restart() and the destructors promise.
ImplementsLifecycle == L!Spec

----------------------------------------------------------------------------
(* The inductive invariant behind StoppedBetweenOperations, CrashCauses,   *)
(* OneChild, NoOrphan and ImplementsLifecycle.                             *)

\* Where the grader's thread waits for the child, or has none.
Waiting == {"wait", "rwait", "killwait", "fork", "begin"}

Quiet == proc \in {"stopped", "reaped"} /\ ~unwaited

\* A child without a pending SIGKILL cannot leave a reported stop by itself, so it is
\* quiet at every point of the grader that is not a wait, until a wait times out.
Discipline ==
  /\ ~Live => sigs = {}
  /\ proc = "none" => pc = "fork"
  /\ pc \in {"fork", "done"} => ~Exists
  /\ blame # "none" => pc = "crashed"
  /\ CrashCauses
  /\ ~slow =>
       /\ pc \notin Waiting => Quiet
       /\ "KILL" \in sigs => pc = "killwait"
       /\ pc = "killwait" => \/ proc = "stopped" /\ "KILL" \in sigs
                             \/ proc = "zombie" /\ status.how = "killed"

\* ... and behind InjectionRestored: user code is at the patch only while the injected
\* call is under way, and what is saved to be put back never is the patch itself.
PatchDiscipline ==
  ~slow =>
    /\ saved \notin {"patch", "spent"}
    /\ place \in {"patch", "spent"} =>
         \/ pc \in {"resume", "rcont", "rwait"} /\ goal \in {"entry", "exit", "misread"}
         \/ pc \in {"restore", "crashed"}

\* Where the child is: in a ptrace stop of a kind, in a system call, or in user code.
At(kind, where) == proc = "stopped" /\ why = kind /\ place = where
In(nr, where) == proc = "insys" /\ sys.nr = nr /\ place = where
Runs(where) == proc = "running" /\ place = where

\* ... and behind ExitReportTrue: only a failed restart or the destructor leaves a SIGKILL
\* pending, so what run_until has reported of an exit stays true until the next operation.
ReportDiscipline ==
  /\ task = "dtor" => pc \in {"dtor", "check", "cont", "wait", "ran", "dkill", "killwait",
                             "base", "done", "crashed"}
  /\ task = "run" => pc \in {"check", "cont", "wait", "ran", "idle", "dtor", "crashed"}
  /\ pc = "dkill" => task = "dtor"
  /\ pc = "alive" => task = "restart" \/ proc = "reaped"
  /\ pc = "killwait" => task \in {"restart", "dtor"}
  /\ "KILL" \in sigs => \/ pc \in {"killwait", "dtor", "crashed"} \/ task = "dtor"
                        \/ pc = "returned" /\ task = "restart" /\ res.kind = "failed"
  /\ pc = "ran" /\ res.kind = "exited" =>
       proc = "reaped" /\ status = [how |-> "exited", code |-> res.code]
  /\ pc = "ran" /\ task = "run" /\ res.kind = "predsat" =>
       proc = "stopped" /\ why = "entry" /\ sys.nr = "exit" /\ sys.arg = res.code
  /\ ExitReportTrue

\* ... and behind StartedFresh: the stops of a new process on its way from fork(2) through
\* execve(2) and the injected mmap(2), with no code of the program in between.
StartDiscipline ==
  task \in {"ctor", "restart"} =>
    /\ pc \in {"begin", "resume", "rcont", "rwait", "inject", "restore"} => sigs = {}
    /\ pc = "begin" => At("sigstop", "grader")
    /\ pc \in {"resume", "rcont"} =>
         \/ goal = "exec" /\ (At("sigstop", "grader") \/ At("fault", "stray"))
         \/ goal = "execexit" /\ At("exec", "start") /\ sys.nr = "execed"
         \/ goal = "entry" /\ At("exit", "patch")
         \/ goal = "exit" /\ At("entry", "spent") /\ sys.nr = "injected"
    /\ pc = "rwait" =>
         \/ goal = "exec" /\ (Runs("grader") \/ Runs("stray") \/ At("fault", "stray"))
         \/ goal = "exec" /\ At("exec", "start") /\ sys.nr = "execed"
         \/ goal = "execexit" /\ (In("execed", "start") \/ At("exit", "start"))
         \/ goal = "entry" /\ Runs("patch")
         \/ goal = "entry" /\ At("entry", "spent") /\ sys.nr = "injected"
         \/ goal = "exit" /\ (In("injected", "spent") \/ At("exit", "spent"))
    /\ pc = "inject" => At("exit", "start")
    /\ pc \in {"resume", "rcont", "rwait"} /\ goal \in {"entry", "exit"} => saved = "start"
    /\ pc = "restore" => At("exit", "spent") /\ saved = "start" /\ ~unwaited
    /\ pc \in {"returned", "idle"} /\ res.kind = "ok" =>
         At("exit", "start") /\ ~unwaited /\ sigs = {}

\* ... and behind OwnReturn: a system call is under way from its entry until its exit has
\* been reported.
InCall == \/ proc = "insys"
          \/ proc = "stopped" /\ (why \in {"entry", "exec"} \/ (why = "exit" /\ unwaited))

Resuming == {"resume", "rcont", "rwait"}

\* The program's call under way has the last record, once its entry has been reported; the
\* grader's own calls begin and end within resume_until, and no code of the program runs there.
PairDiscipline ==
  ~lost /\ pc # "crashed" =>
    /\ InCall =>
         /\ sys.id = 0 => pc \in Resuming
         /\ sys.id # 0 => \/ proc = "stopped" /\ why = "entry" /\ unwaited
                          \/ Len(records) > 0 /\ records[Len(records)].id = sys.id
    /\ proc = "stopped" /\ why = "entry" =>
         /\ ~unwaited => pc = "cont" \/ sys.nr \in {"exit", "injected"}
         /\ pc = "rwait" => sys.nr = "injected"
         /\ sys.nr = "injected" => sys.id = 0
    /\ proc = "stopped" /\ why = "exec" => sys.nr = "execed" /\ place \notin {"grader", "stray"}
    /\ pc \in Resuming =>
         /\ place \notin ProgramCode
         /\ proc = "insys" => sys.nr \in {"exit", "injected", "execed"}
         /\ goal \in {"exit", "execexit"} /\ Live =>
              IF pc = "rwait"
              THEN proc = "insys" \/ (proc = "stopped" /\ why = "exit")
              ELSE proc = "stopped" /\ why = (IF goal = "exit" THEN "entry" ELSE "exec")
    /\ pc = "begin" /\ Live => At("sigstop", "grader")
    /\ pc = "restore" /\ Live => proc = "stopped"
    /\ saved \notin {"patch", "spent", "grader", "stray"}
    /\ place \in {"patch", "spent"} =>
         pc = "restore" \/ (pc \in Resuming /\ goal \in {"entry", "exit", "misread"})
    /\ place \in {"grader", "stray"} /\ Live => \/ pc = "begin"
                                                \/ pc \in Resuming /\ goal = "exec"

----------------------------------------------------------------------------
(* What the source says and the code does not do: expected to be violated. *)

\* tracer.hpp:58: run "Records each syscall execution": a call of the program whose
\* return run_until has handled has a record.
EachSyscallRecorded ==
  [][RunExit /\ sys.id # 0 => \E i \in 1..Len(records) : records[i].id = sys.id]_vars

=============================================================================
