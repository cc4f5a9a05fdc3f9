------------------------------- MODULE Tracer -------------------------------
(***************************************************************************)
(* asmgrader::Tracer (src/subprocess/tracer.cpp) and TracedWaitid: the     *)
(* control loops run_until, resume_until, execute_syscall and begin, each  *)
(* ptrace request and each waitid(2) poll a step of its own, so that the   *)
(* child moves between any two of them.                                    *)
(*                                                                         *)
(* pc is where the grader's only thread is; task is the TestContext or     *)
(* TracedSubprocess operation it executes.  An ASSERT that fails and an    *)
(* exception nobody catches both end the grader: pc = "crashed", and blame *)
(* says which check failed.                                                *)
(***************************************************************************)
EXTENDS Tracee, Sequences

VARIABLES
  pc,          \* where the grader's thread is
  task,        \* the operation in progress, or the last one
  goal,        \* what resume_until waits for
  saved,       \* orig_regs, orig_instrs of execute_syscall: where user code was
  records,     \* syscall_records_
  exit_code_,  \* exit_code_: a set with at most one code
  res,         \* the result of the operation
  blame,       \* the check that ended the grader, "none" while it runs
  slow,        \* history: a wait on a child has run out of time
  lost         \* history: a syscall stop was discarded unreported, or left behind
               \* by a resume_until that ran out of time

tracerVars == <<goal, saved, records, exit_code_>>
graderVars == <<pc, task, goal, saved, records, exit_code_, res, blame, slow, lost>>

Goals == {"none", "exec", "execexit", "entry", "exit", "misread"}
Kinds == {"none", "ok", "exited", "predsat", "timedout", "failed",
          "sigtrap", "sigsegv", "sigstop", "returned", "unexpected"}
Results == [kind : Kinds, code : Int]
Res(k) == [kind |-> k, code |-> 0]
Blames == {"none", "contract", "notstopped", "unmapped", "misread", "notkilled", "tooshort"}

\* ret is the id of the call whose return value the record holds; NoRet is nullopt.
Records == [nr : SyscallNrs, id : Nat, ret : Nat \cup {-1}]
NoRet == -1

Tasks == {"ctor", "run", "call", "exec", "restart", "dtor"}
Pcs == {"idle", "check", "cont", "wait", "ran", "resume", "rcont", "rwait", "inject",
        "restore", "returned", "alive", "dkill", "killwait", "fork", "begin",
        "dtor", "base", "done", "crashed"}

TracerTypeOK ==
  /\ pc \in Pcs /\ task \in Tasks /\ goal \in Goals /\ saved \in Places
  /\ records \in Seq(Records)
  /\ exit_code_ \in SUBSET Int
  /\ res \in Results /\ blame \in Blames
  /\ slow \in BOOLEAN /\ lost \in BOOLEAN

TracerInit ==
  /\ goal = "none" /\ saved = "start" /\ records = <<>> /\ exit_code_ = {}

Crash(check) ==
  /\ pc' = "crashed" /\ blame' = check
  /\ UNCHANGED <<task, goal, saved, records, exit_code_, res, slow, lost>>

\* A step of the grader that only moves its thread.
Goto(next) ==
  /\ pc' = next
  /\ UNCHANGED <<task, goal, saved, records, exit_code_, res, blame, slow, lost>>

\* assert_invariants: throws for a missing process and for a zombie.
AssertInvariants(next) ==
  IF Live THEN Goto(next) ELSE Crash("contract")

\* ASSERT(ptrace(request, pid)), which fails with ESRCH unless it is stopped.
AssertPtrace(codeAt, next) ==
  IF proc = "stopped"
  THEN /\ Resume(codeAt)
       /\ lost' = (lost \/ (unwaited /\ why \in {"entry", "exit"}))
       /\ pc' = next
       /\ UNCHANGED <<task, goal, saved, records, exit_code_, res, blame, slow>>
  ELSE Crash("notstopped") /\ UNCHANGED traceeVars

\* Mutant of SignalOf: a SIGSTOP reported as a kind RunResult does not have.
SignalOfStopped(stop) == CASE stop \in {"trap", "exec"} -> "sigtrap"
                           [] stop = "fault"            -> "sigsegv"
                           [] stop = "sigstop"          -> "stopped"

\* The kind of RunResult for each stop that is not a syscall trap.
SignalOf(stop) == CASE stop \in {"trap", "exec"} -> "sigtrap"
                    [] stop = "fault"            -> "sigsegv"
                    [] stop = "sigstop"          -> "sigstop"

----------------------------------------------------------------------------
(* run_until(pred).  The predicate is TestContext::run's when the task is  *)
(* "run", and empty otherwise.                                             *)

\* Mutant of PredSat: any system call satisfies the predicate.
PredAny == task = "run"

PredSat == task = "run" /\ sys.nr = "exit"

RunCheck == pc = "check" /\ AssertInvariants("cont") /\ UNCHANGED traceeVars

RunCont ==
  /\ pc = "cont"
  /\ AssertPtrace(IF place = "start" THEN "main" ELSE place, "wait")

\* Mutants of RunTimeout: the wait has no bound; the child is not stopped.
RunTimeoutNever == pc = "wait" /\ FALSE /\ UNCHANGED <<traceeVars, graderVars>>
RunTimeoutNoStop ==
  /\ pc = "wait"
  /\ pc' = "ran" /\ res' = Res("timedout") /\ slow' = TRUE
  /\ UNCHANGED <<traceeVars, task, tracerVars, blame, lost>>

\* The poll found nothing in DEFAULT_TIMEOUT, which does not say that nothing
\* has happened since the last poll: kill(SIGSTOP), and nobody waits for the stop.
RunTimeout ==
  /\ pc = "wait"
  /\ Signal("STOP")
  /\ pc' = "ran" /\ res' = Res("timedout") /\ slow' = TRUE
  /\ UNCHANGED <<task, tracerVars, blame, lost>>

\* push_back.  Calls above MaxSyscalls, which share an identity, share the last place.
Push(record) ==
  LET n == Len(records) IN
  IF n > 0 /\ record.id > MaxSyscalls /\ records[n].id = record.id
  THEN [records EXCEPT ![n] = record]
  ELSE Append(records, record)

RunEntry ==
  /\ pc = "wait" /\ proc = "stopped" /\ why = "entry"
  /\ Report
  /\ IF sys.nr = "bogus"
     THEN Crash("unmapped")                    \* SYSCALL_MAP.at throws
     ELSE /\ records' = Push([nr |-> sys.nr, id |-> sys.id, ret |-> NoRet])
          /\ IF PredSat
             THEN pc' = "ran" /\ res' = [kind |-> "predsat", code |-> sys.arg]
             ELSE pc' = "cont" /\ UNCHANGED res
          /\ UNCHANGED <<task, goal, saved, exit_code_, blame, slow, lost>>

\* get_syscall_exit_info fills the last record, unless it is complete already.
RunExit ==
  /\ pc = "wait" /\ proc = "stopped" /\ why = "exit"
  /\ Report
  /\ LET n == Len(records) IN
     records' = IF n = 0 \/ records[n].ret # NoRet THEN records
                ELSE [records EXCEPT ![n].ret = sys.id]
  /\ pc' = "cont"
  /\ UNCHANGED <<task, goal, saved, exit_code_, res, blame, slow, lost>>

\* Mutant of RunSignal: the child is resumed before its signal is reported.
RunSignalResumed ==
  /\ pc = "wait" /\ proc = "stopped" /\ why \in {"sigstop", "exec", "trap", "fault"}
  /\ Resume(place)
  /\ pc' = "ran" /\ res' = Res(SignalOf(why))
  /\ UNCHANGED <<task, tracerVars, blame, slow, lost>>

RunSignal ==
  /\ pc = "wait" /\ proc = "stopped" /\ why \in {"sigstop", "exec", "trap", "fault"}
  /\ Report
  /\ pc' = "ran" /\ res' = Res(SignalOf(why))
  /\ UNCHANGED <<task, tracerVars, blame, slow, lost>>

RunExited ==
  /\ pc = "wait" /\ proc = "zombie" /\ status.how = "exited"
  /\ Report
  /\ exit_code_' = {status.code}
  /\ pc' = "ran" /\ res' = [kind |-> "exited", code |-> status.code]
  /\ UNCHANGED <<task, goal, saved, records, blame, slow, lost>>

\* CLD_KILLED matches no branch of the loop.
RunKilled ==
  /\ pc = "wait" /\ proc = "zombie" /\ status.how = "killed"
  /\ Report
  /\ Goto("cont")

Run == RunCheck \/ RunCont \/ RunTimeout \/ RunEntry \/ RunExit \/ RunSignal
       \/ RunExited \/ RunKilled

----------------------------------------------------------------------------
(* resume_until(pred), towards goal. *)

Reached == CASE goal = "exec" -> why = "exec"
             [] OTHER         -> why \in {"entry", "exit"}

\* Where the caller goes on: begin waits for the exec event, then for the exit
\* of execve, then injects mmap(2); run_next_syscall waits for an entry and an exit.
ResumeCheck == pc = "resume" /\ AssertInvariants("rcont") /\ UNCHANGED traceeVars

ResumeCont == pc = "rcont" /\ AssertPtrace(place, "rwait")

\* Mutant of ResumeReached: run_next_syscall returns at the entry of the call.
ResumeReachedAtEntry ==
  /\ pc = "rwait" /\ proc = "stopped" /\ Reached
  /\ Report
  /\ \/ goal = "exec"     /\ goal' = "execexit" /\ pc' = "resume"
     \/ goal = "execexit" /\ goal' = "none" /\ pc' = "inject"
     \/ goal = "entry"    /\ goal' = "none" /\ pc' = "restore"
  /\ UNCHANGED <<task, saved, records, exit_code_, res, blame, slow, lost>>

ResumeReached ==
  /\ pc = "rwait" /\ proc = "stopped" /\ Reached
  /\ Report
  /\ \/ /\ goal = "exec"     /\ goal' = "execexit" /\ pc' = "resume" /\ UNCHANGED blame
     \/ /\ goal = "execexit" /\ goal' = "none" /\ pc' = "inject" /\ UNCHANGED blame
     \/ /\ goal = "entry"    /\ goal' = (IF why = "entry" THEN "exit" ELSE "misread")
        /\ pc' = "resume" /\ UNCHANGED blame
     \/ /\ goal = "exit"     /\ goal' = "none" /\ pc' = "restore" /\ UNCHANGED blame
     \/ /\ goal = "misread"  /\ UNCHANGED goal       \* ASSERT(entry->op == ..._ENTRY)
        /\ pc' = "crashed" /\ blame' = "misread"
  /\ UNCHANGED <<task, saved, records, exit_code_, res, slow, lost>>

\* Any other event, deaths included, is dropped ...
OtherEvent == proc = "zombie" \/ (proc = "stopped" /\ ~Reached)

TimedOut ==
  /\ pc' = "returned" /\ goal' = "none" /\ saved' = "start"
  /\ res' = Res("timedout") /\ slow' = TRUE /\ lost' = TRUE
  /\ UNCHANGED <<task, records, exit_code_, blame>>

\* ... and the loop resumes the child again while time remains.
ResumeOther == pc = "rwait" /\ OtherEvent /\ Report /\ Goto("rcont")

ResumeOutOfTime == pc = "rwait" /\ OtherEvent /\ Report /\ TimedOut

\* run_next_syscall gives the exit what the entry has left of its time.  With none the
\* loop is not entered, and the child stays at the entry ...
ResumeExpired ==
  /\ pc = "resume" /\ goal \in {"exit", "misread"} /\ Live
  /\ TimedOut
  /\ UNCHANGED traceeVars

\* ... and with a microsecond at most, ASSERT(timeout > poll_period) fails on the child
\* just resumed.
ResumeTooShort ==
  /\ pc = "resume" /\ goal \in {"exit", "misread"} /\ proc = "stopped"
  /\ Resume(place)
  /\ pc' = "crashed" /\ blame' = "tooshort" /\ slow' = TRUE
  /\ UNCHANGED <<task, goal, saved, records, exit_code_, res, lost>>

\* Unlike run_until, the child is left running.
ResumeTimeout ==
  /\ pc = "rwait"
  /\ TimedOut
  /\ UNCHANGED traceeVars

----------------------------------------------------------------------------
(* execute_syscall: registers and 8 instruction bytes are saved, patched,  *)
(* and put back only when both resumptions succeed.                        *)

Inject ==
  /\ pc = "inject"
  /\ IF proc = "stopped"
     THEN /\ saved' = place /\ SetRegs("patch")
          /\ goal' = "entry" /\ pc' = "resume"
          /\ UNCHANGED res
     ELSE /\ res' = Res("failed") /\ pc' = "returned"      \* PTRACE_GETREGSET: ESRCH
          /\ UNCHANGED <<traceeVars, saved, goal>>
  /\ UNCHANGED <<task, records, exit_code_, blame, slow, lost>>

\* Mutant of Restore: the original instructions are not put back.
RestoreNothing ==
  /\ pc = "restore"
  /\ saved' = "start"
  /\ res' = Res("ok") /\ pc' = "returned"
  /\ UNCHANGED <<traceeVars, task, goal, records, exit_code_, blame, slow, lost>>

Restore ==
  /\ pc = "restore"
  /\ SetRegs(saved)
  /\ saved' = "start"
  /\ res' = Res("ok") /\ pc' = "returned"
  /\ UNCHANGED <<task, goal, records, exit_code_, blame, slow, lost>>

\* Mutant of Begin: the child is let go without waiting for the exec event.
BeginNoWait ==
  /\ pc = "begin" /\ proc = "stopped"
  /\ Resume(place)
  /\ goal' = "none" /\ pc' = "returned" /\ res' = Res("ok")
  /\ UNCHANGED <<task, saved, records, exit_code_, blame, slow, lost>>

\* begin(pid): waitid(2) without a timeout for the SIGSTOP of init_child.
Begin ==
  /\ pc = "begin" /\ proc = "stopped"
  /\ Report
  /\ goal' = "exec" /\ pc' = "resume"
  /\ UNCHANGED <<task, saved, records, exit_code_, res, blame, slow, lost>>

ResumeUntil == ResumeCheck \/ ResumeCont \/ ResumeReached \/ ResumeOther
               \/ ResumeOutOfTime \/ ResumeExpired \/ ResumeTooShort \/ ResumeTimeout
TracerStep == Run \/ ResumeUntil \/ Inject \/ Restore \/ Begin
=============================================================================
