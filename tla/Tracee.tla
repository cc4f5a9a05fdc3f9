------------------------------- MODULE Tracee -------------------------------
(***************************************************************************)
(* The traced child process, as src/subprocess sees it through fork(2),    *)
(* execve(2), ptrace(2), waitid(2) and kill(2).  It is the environment of  *)
(* the Tracer: the kernel and an arbitrary student program.                *)
(*                                                                         *)
(* A child is running user code, inside a system call, in a ptrace stop, a *)
(* zombie, or gone.  A stop (or the death) is unwaited until waitid(2)     *)
(* reports it; a ptrace request on a stopped child works whether or not    *)
(* the stop has been reported, and discards an unreported one.  Signals    *)
(* other than SIGKILL stop a traced child and are dropped when it resumes, *)
(* because every resumption in src/subprocess passes signal 0.             *)
(***************************************************************************)
EXTENDS Integers

CONSTANTS
  ExitCodes,    \* the values the program passes to exit(2)
  MaxSyscalls   \* bound: system calls of the programs that are told apart; they may
                \* make any number, and those above the bound share one identity

ASSUME ExitCodesAssumption == ExitCodes \subseteq Int
ASSUME MaxSyscallsAssumption == MaxSyscalls \in Nat

VARIABLES
  proc,       \* what the process is doing
  why,        \* the kind of its ptrace stop, "none" when it is not stopped
  unwaited,   \* waitid(2) has a stop or a death to report
  sigs,       \* signals sent to it by the grader, not delivered yet
  sys,        \* the system call it is making, or made last
  place,      \* whose code it executes in user mode
  status,     \* the wait status of a dead process
  made        \* system calls made by the programs, up to one above MaxSyscalls; it
              \* names each of them

traceeVars == <<proc, why, unwaited, sigs, sys, place, status, made>>

ProcStates == {"none", "running", "insys", "stopped", "zombie", "reaped"}
Stops == {"sigstop", "entry", "exit", "exec", "trap", "fault"}

(* exit and exit_group, execve, kill(getpid(), SIGKILL), numbers beyond    *)
(* the syscall table, and any other call, which may block for ever.        *)
ProgramCalls == {"other", "exit", "exec", "suicide", "bogus"}
Returning == {"other", "bogus", "injected", "execed"}

(* "grader": between fork and execve; "stray": after a failed execve;      *)
(* "start": at _start; "main": the program; "func": a function the grader  *)
(* called; "landing": the return breakpoint was hit; "patch": at the       *)
(* syscall instruction the grader wrote; "spent": past it.                 *)
Places == {"grader", "stray", "start", "main", "func", "landing", "patch", "spent"}
ProgramCode == {"main", "func", "landing"}

SyscallNrs == ProgramCalls \cup {"none", "injected", "execed"}
Syscalls == [nr : SyscallNrs, id : Nat, arg : Int]
NoSys == [nr |-> "none", id |-> 0, arg |-> 0]
Statuses == [how : {"none", "exited", "killed"}, code : Int]
NoStatus == [how |-> "none", code |-> 0]

TraceeTypeOK ==
  /\ proc \in ProcStates
  /\ why \in Stops \cup {"none"}
  /\ unwaited \in BOOLEAN
  /\ sigs \in SUBSET {"STOP", "KILL"}
  /\ sys \in Syscalls
  /\ place \in Places
  /\ status \in Statuses
  /\ made \in Nat

TraceeInit ==
  /\ proc = "none" /\ why = "none" /\ unwaited = FALSE /\ sigs = {}
  /\ sys = NoSys /\ place = "grader" /\ status = NoStatus /\ made = 0

Live == proc \in {"running", "insys", "stopped"}
Exists == proc \notin {"none", "reaped"}        \* kill(pid, 0) finds it, zombies included

----------------------------------------------------------------------------
(* What the grader's requests do to it. *)

\* fork(2), then Tracer::init_child: PTRACE_TRACEME and raise(SIGSTOP).
Fork ==
  /\ proc' = "stopped" /\ why' = "sigstop" /\ unwaited' = TRUE
  /\ sigs' = {} /\ sys' = NoSys /\ place' = "grader" /\ status' = NoStatus
  /\ UNCHANGED made

\* waitid(2) reports the stop or the death, and reaps the dead.
Report ==
  /\ unwaited
  /\ unwaited' = FALSE
  /\ proc' = IF proc = "zombie" THEN "reaped" ELSE proc
  /\ UNCHANGED <<why, sigs, sys, place, status, made>>

\* PTRACE_SYSCALL or PTRACE_CONT; user code, if any, goes on in codeAt.
Resume(codeAt) ==
  /\ proc' = IF why \in {"entry", "exec"} THEN "insys" ELSE "running"
  /\ why' = "none" /\ unwaited' = FALSE /\ place' = codeAt
  /\ sys' = IF why = "exit" THEN NoSys ELSE sys
  /\ UNCHANGED <<sigs, status, made>>

\* PTRACE_SETREGSET on a stopped child: user code will go on at codeAt.  At the entry
\* of a system call the new registers are also the arguments of that call.
SetRegs(codeAt) ==
  /\ place' = codeAt
  /\ sys' \in IF why = "entry" /\ sys.nr = "exit"
             THEN {[sys EXCEPT !.arg = c] : c \in ExitCodes} ELSE {sys}
  /\ UNCHANGED <<proc, why, unwaited, sigs, status, made>>

\* kill(2): nothing happens to a zombie.
Signal(sig) ==
  /\ sigs' = IF Live THEN sigs \cup {sig} ELSE sigs
  /\ UNCHANGED <<proc, why, unwaited, sys, place, status, made>>

----------------------------------------------------------------------------
(* What it does by itself. *)

Stop(kind) == proc' = "stopped" /\ why' = kind /\ unwaited' = TRUE
Die(how, code) ==
  /\ proc' = "zombie" /\ why' = "none" /\ unwaited' = TRUE
  /\ status' = [how |-> how, code |-> code]
  /\ sigs' = {} /\ sys' = NoSys /\ place' = "grader"    \* no longer there

SyscallEnter ==
  /\ proc = "running" /\ place \in ProgramCode
  /\ made' = IF made <= MaxSyscalls THEN made + 1 ELSE made
  /\ \E nr \in ProgramCalls : \E arg \in IF nr = "exit" THEN ExitCodes ELSE {0} :
       sys' = [nr |-> nr, id |-> made', arg |-> arg]
  /\ Stop("entry")
  /\ UNCHANGED <<sigs, place, status>>

InjectedEnter ==
  /\ proc = "running" /\ place = "patch"
  /\ sys' = [nr |-> "injected", id |-> 0, arg |-> 0]
  /\ place' = "spent"
  /\ Stop("entry")
  /\ UNCHANGED <<sigs, status, made>>

SyscallReturn ==
  /\ proc = "insys" /\ sys.nr \in Returning
  /\ Stop("exit")
  /\ UNCHANGED <<sigs, sys, place, status, made>>

\* The program's own execve(2): PTRACE_O_TRACEEXEC stops it in the new image.
ProgramExec ==
  /\ proc = "insys" /\ sys.nr = "exec"
  /\ sys' = [sys EXCEPT !.nr = "execed"]
  /\ place' = "main"
  /\ Stop("exec")
  /\ UNCHANGED <<sigs, status, made>>

ChildExit ==
  /\ proc = "insys" /\ sys.nr = "exit"
  /\ Die("exited", sys.arg % 256)
  /\ UNCHANGED made

ChildKilled ==
  /\ \/ proc = "insys" /\ sys.nr = "suicide"
     \/ Live /\ "KILL" \in sigs
  /\ Die("killed", 9)
  /\ UNCHANGED made

\* A fatal signal.  A stray grader ends in one: its contract check throws out of
\* ~TracedSubprocess, so std::terminate raises SIGABRT.
Fault ==
  /\ proc = "running" /\ place \in ProgramCode \cup {"spent", "stray"}
  /\ Stop("fault")
  /\ UNCHANGED <<sigs, sys, place, status, made>>

\* The called function returns to the int3 that setup_function_return wrote.
ReturnTrap ==
  /\ proc = "running" /\ place = "func"
  /\ place' = "landing"
  /\ Stop("trap")
  /\ UNCHANGED <<sigs, sys, status, made>>

\* A breakpoint instruction of the program itself.
OwnTrap ==
  /\ proc = "running" /\ place \in {"main", "func"}
  /\ Stop("trap")
  /\ UNCHANGED <<sigs, sys, place, status, made>>

\* A pending SIGSTOP is delivered on the way back to user mode.
SigstopDelivered ==
  /\ proc = "running" /\ "STOP" \in sigs
  /\ sigs' = sigs \ {"STOP"}
  /\ Stop("sigstop")
  /\ UNCHANGED <<sys, place, status, made>>

\* Subprocess::create in the child: execve(2).  When it fails, create returns an
\* error in the child too, which runs on as a second grader.
GraderExec ==
  /\ proc = "running" /\ place = "grader"
  /\ \/ /\ place' = "start"
        /\ sys' = [nr |-> "execed", id |-> 0, arg |-> 0]
        /\ Stop("exec")
     \/ place' = "stray" /\ UNCHANGED <<proc, why, unwaited, sys>>
  /\ UNCHANGED <<sigs, status, made>>

TraceeStep ==
  \/ SyscallEnter \/ InjectedEnter \/ SyscallReturn \/ ProgramExec \/ ChildExit
  \/ ChildKilled \/ Fault \/ ReturnTrap \/ OwnTrap \/ SigstopDelivered
  \/ GraderExec
=============================================================================
