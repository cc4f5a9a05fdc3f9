------------------------ MODULE TestSession_proofs ------------------------
(***************************************************************************)
(* Proofs about TestSession, for every set of exit codes and every bound:  *)
(* who steps when and what is left of a process, and that what a test is   *)
(* told about its program is true: an exit that TestContext::run reports,  *)
(* a start that Tracer::begin calls successful, and the return values of   *)
(* the recorded system calls.                                              *)
(***************************************************************************)
EXTENDS TestSession, TLAPS

USE DEF ProcStates, Stops, Places, ProgramCode, ProgramCalls, Returning, SyscallNrs,
        Goals, Kinds, Blames, Tasks, Pcs

(* The child's own steps, and the requests it receives, keep its state     *)
(* well-typed.                                                             *)
LEMMA TraceeStepType ==
  ASSUME TraceeTypeOK, TraceeStep
  PROVE  TraceeTypeOK'
<1> USE ExitCodesAssumption DEF TraceeTypeOK, Stop, Die, Syscalls, Statuses, NoSys
<1>1. ASSUME SyscallEnter PROVE TraceeTypeOK'
  BY <1>1 DEF SyscallEnter
<1>2. ASSUME InjectedEnter PROVE TraceeTypeOK'
  BY <1>2 DEF InjectedEnter
<1>3. ASSUME SyscallReturn PROVE TraceeTypeOK'
  BY <1>3 DEF SyscallReturn
<1>4. ASSUME ProgramExec PROVE TraceeTypeOK'
  BY <1>4 DEF ProgramExec
<1>5. ASSUME ChildExit PROVE TraceeTypeOK'
  BY <1>5 DEF ChildExit
<1>6. ASSUME ChildKilled PROVE TraceeTypeOK'
  BY <1>6 DEF ChildKilled
<1>7. ASSUME Fault PROVE TraceeTypeOK'
  BY <1>7 DEF Fault
<1>8. ASSUME ReturnTrap PROVE TraceeTypeOK'
  BY <1>8 DEF ReturnTrap
<1>9. ASSUME OwnTrap PROVE TraceeTypeOK'
  BY <1>9 DEF OwnTrap
<1>10. ASSUME SigstopDelivered PROVE TraceeTypeOK'
  BY <1>10 DEF SigstopDelivered
<1>11. ASSUME GraderExec PROVE TraceeTypeOK'
  <2>1. CASE place' = "stray" /\ UNCHANGED <<proc, why, unwaited, sys>>
    BY <1>11, <2>1 DEF GraderExec
  <2>2. CASE sys' = [nr |-> "execed", id |-> 0, arg |-> 0] /\ Stop("exec") /\ place' = "start"
    <3>1. sys' \in Syscalls
      BY <2>2
    <3> QED
      BY <1>11, <2>2, <3>1 DEF GraderExec
  <2> QED
    BY <1>11, <2>1, <2>2 DEF GraderExec
<1> QED
  BY <1>1, <1>2, <1>3, <1>4, <1>5, <1>6, <1>7, <1>8, <1>9, <1>10, <1>11 DEF TraceeStep

\* Every request of the tracer keeps the kernel's state well-typed.
LEMMA RequestType ==
  ASSUME TraceeTypeOK
  PROVE  /\ Report => TraceeTypeOK'
         /\ Fork => TraceeTypeOK'
         /\ \A codeAt \in Places : Resume(codeAt) => TraceeTypeOK'
         /\ \A codeAt \in Places : SetRegs(codeAt) => TraceeTypeOK'
         /\ \A sig \in {"STOP", "KILL"} : Signal(sig) => TraceeTypeOK'
         /\ UNCHANGED traceeVars => TraceeTypeOK'
<1> USE ExitCodesAssumption DEF TraceeTypeOK, Syscalls, Statuses, NoSys, NoStatus
<1>1. Report => TraceeTypeOK'
  BY DEF Report
<1>2. Fork => TraceeTypeOK'
  BY DEF Fork
<1>3. ASSUME NEW codeAt \in Places, Resume(codeAt) PROVE TraceeTypeOK'
  <2>1. sys' \in Syscalls
    BY <1>3 DEF Resume
  <2> QED
    BY <1>3, <2>1 DEF Resume
<1>4. ASSUME NEW codeAt \in Places PROVE SetRegs(codeAt) => TraceeTypeOK'
  BY DEF SetRegs
<1>5. ASSUME NEW sig \in {"STOP", "KILL"} PROVE Signal(sig) => TraceeTypeOK'
  BY DEF Signal
<1>6. UNCHANGED traceeVars => TraceeTypeOK'
  BY DEF traceeVars
<1> QED
  BY <1>1, <1>2, <1>3, <1>4, <1>5, <1>6
----------------------------------------------------------------------------
(* The grader's steps. *)

\* A stop kind that is not a syscall trap has a result kind.
LEMMA SignalOfKind ==
  ASSUME NEW stop \in {"sigstop", "exec", "trap", "fault"}
  PROVE  Res(SignalOf(stop)) \in Results
  BY DEF SignalOf, Res, Results

\* The results of run() are results.
LEMMA ResType == \A k \in Kinds : Res(k) \in Results
  BY DEF Res, Results

\* Moving on, or crashing, keeps the tracer's state well-typed.
LEMMA MoveType ==
  ASSUME TracerTypeOK
  PROVE  /\ \A next \in Pcs : Goto(next) => TracerTypeOK'
         /\ \A check \in Blames : Crash(check) => TracerTypeOK'
<1>1. ASSUME NEW next \in Pcs, Goto(next) PROVE TracerTypeOK'
  BY <1>1 DEF TracerTypeOK, Goto
<1>2. ASSUME NEW check \in Blames, Crash(check) PROVE TracerTypeOK'
  BY <1>2 DEF TracerTypeOK, Crash
<1> QED
  BY <1>1, <1>2

\* push_back leaves the new record in the last place and every other one where it was.
LEMMA PushRecord ==
  ASSUME TracerTypeOK, NEW new \in Records
  PROVE  /\ Push(new) \in Seq(Records) /\ Len(Push(new)) \in Nat \ {0}
         /\ Push(new)[Len(Push(new))] = new
         /\ Len(Push(new)) - 1 \in 0..Len(records)
         /\ \A i \in 1..Len(Push(new)) - 1 : Push(new)[i] = records[i]
<1> DEFINE n == Len(records)
<1>1. records \in Seq(Records) /\ n \in Nat
  BY DEF TracerTypeOK
<1>2. CASE n > 0 /\ new.id > MaxSyscalls /\ records[n].id = new.id
  <2>1. Push(new) = [records EXCEPT ![n] = new]
    BY <1>2 DEF Push
  <2>2. n \in 1..n
    BY <1>1, <1>2
  <2> QED
    BY <1>1, <2>1, <2>2
<1>3. CASE ~(n > 0 /\ new.id > MaxSyscalls /\ records[n].id = new.id)
  <2>1. Push(new) = Append(records, new)
    BY <1>3 DEF Push
  <2> QED
    BY <1>1, <2>1
<1> QED
  BY <1>2, <1>3

\* The steps of Tracer::run keep the types.
LEMMA RunType ==
  ASSUME TraceeTypeOK, TracerTypeOK, Run
  PROVE  TraceeTypeOK' /\ TracerTypeOK'
<1> USE DEF tracerVars
<1>1. CASE RunCheck
  <2>1. TraceeTypeOK'
    BY <1>1, RequestType DEF RunCheck
  <2>2. TracerTypeOK'
    BY <1>1, MoveType DEF RunCheck, AssertInvariants
  <2> QED
    BY <2>1, <2>2
<1>2. CASE RunCont
  <2>1. (IF place = "start" THEN "main" ELSE place) \in Places
    BY DEF TraceeTypeOK
  <2>2. TraceeTypeOK'
    BY <1>2, <2>1, RequestType DEF RunCont, AssertPtrace
  <2>3. TracerTypeOK'
    <3>1. CASE proc = "stopped"
      <4>1. lost' \in BOOLEAN
        BY <1>2, <3>1 DEF RunCont, AssertPtrace
      <4> QED
        BY <1>2, <3>1, <4>1 DEF RunCont, AssertPtrace, TracerTypeOK
    <3>2. CASE proc # "stopped"
      BY <1>2, <3>2, MoveType DEF RunCont, AssertPtrace
    <3> QED
      BY <3>1, <3>2
  <2> QED
    BY <2>2, <2>3
<1>3. CASE RunTimeout
  <2>1. TraceeTypeOK'
    BY <1>3, RequestType DEF RunTimeout
  <2>2. TracerTypeOK'
    BY <1>3, ResType DEF RunTimeout, TracerTypeOK
  <2> QED
    BY <2>1, <2>2
<1>4. CASE RunEntry
  <2>1. TraceeTypeOK'
    BY <1>4, RequestType DEF RunEntry
  <2>2. CASE sys.nr = "bogus"
    BY <1>4, <2>1, <2>2, MoveType DEF RunEntry
  <2>3. CASE sys.nr # "bogus"
    <3>1. res' \in Results
      BY <1>4, <2>3 DEF RunEntry, Results, TraceeTypeOK, TracerTypeOK, Syscalls
    <3>2. [nr |-> sys.nr, id |-> sys.id, ret |-> NoRet] \in Records
      BY DEF Records, NoRet, TraceeTypeOK, Syscalls
    <3>3. records' \in Seq(Records)
      BY <1>4, <2>3, <3>2, PushRecord DEF RunEntry
    <3> QED
      BY <1>4, <2>1, <2>3, <3>1, <3>3 DEF RunEntry, TracerTypeOK
  <2> QED
    BY <2>2, <2>3
<1>5. CASE RunExit
  <2>1. TraceeTypeOK'
    BY <1>5, RequestType DEF RunExit
  <2>2. records' \in Seq(Records)
    <3> DEFINE n == Len(records)
    <3>1. CASE n = 0 \/ records[n].ret # NoRet
      BY <1>5, <3>1 DEF RunExit, TracerTypeOK
    <3>2. CASE ~(n = 0 \/ records[n].ret # NoRet)
      <4>1. n \in 1..Len(records) /\ records \in Seq(Records)
        BY <3>2 DEF TracerTypeOK
      <4>2. records[n] \in Records
        BY <4>1
      <4>3. [records[n] EXCEPT !.ret = sys.id] \in Records
        BY <4>2 DEF Records, TraceeTypeOK, Syscalls
      <4>4. records' = [records EXCEPT ![n] = [records[n] EXCEPT !.ret = sys.id]]
        BY <1>5, <3>2 DEF RunExit
      <4> QED
        BY <4>1, <4>3, <4>4
    <3> QED
      BY <3>1, <3>2
  <2> QED
    BY <1>5, <2>1, <2>2 DEF RunExit, TracerTypeOK
<1>6. CASE RunSignal
  <2>1. TraceeTypeOK'
    BY <1>6, RequestType DEF RunSignal
  <2>2. res' \in Results
    BY <1>6, SignalOfKind DEF RunSignal
  <2> QED
    BY <1>6, <2>1, <2>2 DEF RunSignal, TracerTypeOK
<1>7. CASE RunExited
  <2>1. TraceeTypeOK'
    BY <1>7, RequestType DEF RunExited
  <2>2. status.code \in Int
    BY DEF TraceeTypeOK, Statuses
  <2>3. res' \in Results
    BY <1>7, <2>2 DEF RunExited, Results
  <2> QED
    BY <1>7, <2>1, <2>2, <2>3 DEF RunExited, TracerTypeOK
<1>8. CASE RunKilled
  BY <1>8, RequestType, MoveType DEF RunKilled
<1> QED
  BY <1>1, <1>2, <1>3, <1>4, <1>5, <1>6, <1>7, <1>8 DEF Run

\* The steps of resume_until keep the types.
LEMMA ResumeType ==
  ASSUME TraceeTypeOK, TracerTypeOK, ResumeUntil
  PROVE  TraceeTypeOK' /\ TracerTypeOK'
<1>1. CASE ResumeCheck
  BY <1>1, RequestType, MoveType DEF ResumeCheck, AssertInvariants
<1>2. CASE ResumeCont
  <2>1. TraceeTypeOK'
    BY <1>2, RequestType DEF ResumeCont, AssertPtrace, TraceeTypeOK
  <2>2. CASE proc = "stopped"
    <3>1. lost' \in BOOLEAN
      BY <1>2, <2>2 DEF ResumeCont, AssertPtrace
    <3> QED
      BY <1>2, <2>1, <2>2, <3>1 DEF ResumeCont, AssertPtrace, TracerTypeOK
  <2>3. CASE proc # "stopped"
    BY <1>2, <2>1, <2>3, MoveType DEF ResumeCont, AssertPtrace
  <2> QED
    BY <2>2, <2>3
<1>3. CASE ResumeReached
  <2>1. TraceeTypeOK'
    BY <1>3, RequestType DEF ResumeReached
  <2> QED
    BY <1>3, <2>1 DEF ResumeReached, TracerTypeOK
<1>4. CASE ResumeOther
  BY <1>4, RequestType, MoveType DEF ResumeOther
<1>5. CASE ResumeOutOfTime
  <2>1. TraceeTypeOK'
    BY <1>5, RequestType DEF ResumeOutOfTime
  <2> QED
    BY <1>5, <2>1, ResType DEF ResumeOutOfTime, TimedOut, TracerTypeOK
<1>6. CASE ResumeTimeout
  <2>1. TraceeTypeOK'
    BY <1>6, RequestType DEF ResumeTimeout
  <2> QED
    BY <1>6, <2>1, ResType DEF ResumeTimeout, TimedOut, TracerTypeOK
<1>7. CASE ResumeExpired
  <2>1. TraceeTypeOK'
    BY <1>7, RequestType DEF ResumeExpired
  <2> QED
    BY <1>7, <2>1, ResType DEF ResumeExpired, TimedOut, TracerTypeOK
<1>8. CASE ResumeTooShort
  <2>1. TraceeTypeOK'
    BY <1>8, RequestType DEF ResumeTooShort, TraceeTypeOK
  <2> QED
    BY <1>8, <2>1 DEF ResumeTooShort, TracerTypeOK
<1> QED
  BY <1>1, <1>2, <1>3, <1>4, <1>5, <1>6, <1>7, <1>8 DEF ResumeUntil

\* The steps of execute_syscall and of starting keep the types.
LEMMA InjectType ==
  ASSUME TraceeTypeOK, TracerTypeOK, Inject \/ Restore \/ Begin
  PROVE  TraceeTypeOK' /\ TracerTypeOK'
<1>1. CASE Inject
  <2>1. TraceeTypeOK'
    BY <1>1, RequestType DEF Inject
  <2> QED
    BY <1>1, <2>1, ResType DEF Inject, TraceeTypeOK, TracerTypeOK
<1>2. CASE Restore
  <2>1. TraceeTypeOK'
    BY <1>2, RequestType DEF Restore, TracerTypeOK
  <2> QED
    BY <1>2, <2>1, ResType DEF Restore, TracerTypeOK
<1>3. CASE Begin
  <2>1. TraceeTypeOK'
    BY <1>3, RequestType DEF Begin
  <2> QED
    BY <1>3, <2>1 DEF Begin, TracerTypeOK
<1> QED
  BY <1>1, <1>2, <1>3

\* Every operation of the session keeps the types.
LEMMA SessionType ==
  ASSUME TypeOK, SessionStep
  PROVE  TypeOK'
<1> USE DEF TypeOK, Move, Finish, Enter, tracerVars
<1>1. ASSUME NEW operation \in Tasks, NEW next \in Pcs, Enter(operation, next)
      PROVE  TracerTypeOK' /\ ops' \in Nat
  BY <1>1, ResType DEF TracerTypeOK
<1>1a. CASE RunProgram
  BY <1>1, <1>1a, RequestType DEF RunProgram
<1>1b. CASE ExecSyscall
  BY <1>1, <1>1b, RequestType DEF ExecSyscall
<1>1c. CASE RestartProgram
  BY <1>1, <1>1c, RequestType DEF RestartProgram
<1>1d. CASE DestroyContext
  <2>1. TraceeTypeOK'
    BY <1>1d, RequestType DEF DestroyContext
  <2> QED
    BY <1>1d, <2>1, ResType DEF DestroyContext, TracerTypeOK
<1>2. CASE RunProgramRan
  <2>1. TraceeTypeOK'
    BY <1>2, RequestType DEF RunProgramRan
  <2>2. [res EXCEPT !.kind = "exited"] \in Results
    BY DEF TracerTypeOK, Results
  <2> QED
    BY <1>2, <2>1, <2>2 DEF RunProgramRan, TracerTypeOK
<1>3. CASE CallFunction
  <2>1. TraceeTypeOK'
    BY <1>3, RequestType DEF CallFunction
  <2> QED
    BY <1>3, <2>1, ResType DEF CallFunction, TracerTypeOK
<1>4. CASE CallFunctionRan
  <2>1. TraceeTypeOK'
    BY <1>4, RequestType DEF CallFunctionRan
  <2> QED
    BY <1>4, <2>1, ResType DEF CallFunctionRan, TracerTypeOK
<1>5. CASE Kill
  <2>1. TraceeTypeOK'
    BY <1>5, RequestType DEF Kill
  <2> QED
    BY <1>5, <2>1 DEF Kill, TracerTypeOK
<1>6. CASE Killed
  <2>1. TraceeTypeOK'
    BY <1>6, RequestType DEF Killed
  <2>2. CASE status.how = "killed"
    BY <1>6, <2>1, <2>2 DEF Killed, AfterKill, TracerTypeOK
  <2>3. CASE status.how # "killed"
    BY <1>6, <2>1, <2>3, MoveType DEF Killed
  <2> QED
    BY <2>2, <2>3
<1>7. CASE KillTimeout
  <2>1. TraceeTypeOK'
    BY <1>7, RequestType DEF KillTimeout
  <2> QED
    BY <1>7, <2>1, ResType DEF KillTimeout, TracerTypeOK
<1>8. CASE Start
  <2>1. TraceeTypeOK'
    BY <1>8, RequestType DEF Start
  <2> QED
    BY <1>8, <2>1 DEF Start, TracerTypeOK
<1>9. CASE Returned
  <2>1. TraceeTypeOK'
    BY <1>9, RequestType DEF Returned
  <2> QED
    BY <1>9, <2>1, ResType DEF Returned, TracerTypeOK
<1>10. CASE DtorRun
  <2>1. TraceeTypeOK'
    BY <1>10, RequestType DEF DtorRun
  <2> QED
    BY <1>10, <2>1 DEF DtorRun, TracerTypeOK
<1>11. CASE DtorRan
  <2>1. TraceeTypeOK'
    BY <1>11, RequestType DEF DtorRan
  <2> QED
    BY <1>11, <2>1 DEF DtorRan, TracerTypeOK
<1>12. CASE BaseWait
  <2>1. TraceeTypeOK'
    BY <1>12, RequestType DEF BaseWait
  <2> QED
    BY <1>12, <2>1 DEF BaseWait, TracerTypeOK
<1> QED
  BY <1>1a, <1>1b, <1>1c, <1>1d, <1>2, <1>3, <1>4, <1>5, <1>6, <1>7, <1>8, <1>9, <1>10,
     <1>11, <1>12
  DEF SessionStep

\* Every variable of the session keeps its type: in particular the tracer only reports
\* results that RunResult can represent, whatever stops the child goes through.
THEOREM TypeCorrect == Spec => []TypeOK
<1>1. Init => TypeOK
  <2> SUFFICES ASSUME Init PROVE TypeOK
    OBVIOUS
  <2>1. TraceeTypeOK
    <3>1. NoSys \in Syscalls /\ NoStatus \in Statuses
      BY DEF NoSys, NoStatus, Syscalls, Statuses
    <3>2. sigs \in SUBSET {"STOP", "KILL"} /\ unwaited \in BOOLEAN
      BY DEF Init, TraceeInit
    <3>3. proc \in ProcStates /\ why \in Stops \cup {"none"} /\ place \in Places /\ made \in Nat
      BY DEF Init, TraceeInit
    <3>4. sys \in Syscalls /\ status \in Statuses
      BY <3>1 DEF Init, TraceeInit
    <3> QED
      BY <3>2, <3>3, <3>4 DEF TraceeTypeOK
  <2>2. TracerTypeOK /\ ops \in Nat
    <3>1. records \in Seq(Records) /\ exit_code_ \in SUBSET Int
      BY DEF Init, TracerInit
    <3>2. res \in Results
      BY ResType DEF Init
    <3>3. slow \in BOOLEAN /\ lost \in BOOLEAN /\ ops \in Nat
      BY DEF Init
    <3>4. pc \in Pcs /\ task \in Tasks /\ goal \in Goals /\ saved \in Places /\ blame \in Blames
      BY DEF Init, TracerInit
    <3> QED
      BY <3>1, <3>2, <3>3, <3>4 DEF TracerTypeOK
  <2> QED
    BY <2>1, <2>2 DEF TypeOK
<1>2. ASSUME TypeOK, [Next]_vars PROVE TypeOK'
  <2>1. CASE SessionStep
    BY <1>2, <2>1, SessionType
  <2>2. CASE TracerStep /\ UNCHANGED ops
    BY <1>2, <2>2, RunType, ResumeType, InjectType DEF TracerStep, TypeOK
  <2>3. CASE TraceeStep /\ UNCHANGED <<graderVars, ops>>
    BY <1>2, <2>3, TraceeStepType DEF TypeOK, TracerTypeOK, graderVars
  <2>4. CASE UNCHANGED vars
    BY <1>2, <2>4 DEF vars, traceeVars, graderVars, TypeOK, TraceeTypeOK, TracerTypeOK
  <2> QED
    BY <1>2, <2>1, <2>2, <2>3, <2>4 DEF Next
<1> QED
  BY <1>1, <1>2, PTL DEF Spec

----------------------------------------------------------------------------
(* The discipline between the grader and the child. *)

\* A child in a reported stop, or gone, takes no step unless SIGKILL is pending.
LEMMA QuietChild ==
  ASSUME TraceeStep, proc \in {"stopped", "zombie", "reaped", "none"}
  PROVE  proc = "stopped" /\ "KILL" \in sigs /\ ChildKilled
  BY DEF TraceeStep, SyscallEnter, InjectedEnter, SyscallReturn, ProgramExec, ChildExit,
     ChildKilled, Fault, ReturnTrap, OwnTrap, SigstopDelivered, GraderExec, Live

\* What the child does on its own keeps Discipline.
LEMMA TraceeDiscipline ==
  ASSUME TypeOK, Discipline, TraceeStep, UNCHANGED <<graderVars, ops>>
  PROVE  Discipline'
<1> USE DEF Discipline, CrashCauses, Quiet, Waiting, Exists, Live, graderVars
<1>1. CASE ChildKilled
  BY <1>1 DEF ChildKilled, Die
<1>2. CASE ~ChildKilled
  <2>1. proc \in {"running", "insys"}
    BY <1>2, QuietChild DEF TypeOK, TraceeTypeOK
  <2>2. CASE proc' = "stopped" \/ proc' = proc
    <3>1. sigs' \subseteq sigs
      BY <2>2, <1>2
      DEF TraceeStep, SyscallEnter, InjectedEnter, SyscallReturn, ProgramExec, ChildExit,
          Fault, ReturnTrap, OwnTrap, SigstopDelivered, GraderExec, Die
    <3> QED
      BY <2>1, <2>2, <3>1
  <2>3. CASE ChildExit
    BY <2>1, <2>3 DEF ChildExit, Die
  <2> QED
    BY <1>2, <2>2, <2>3
    DEF TraceeStep, SyscallEnter, InjectedEnter, SyscallReturn, ProgramExec, Fault,
        ReturnTrap, OwnTrap, SigstopDelivered, GraderExec, Stop
<1> QED
  BY <1>1, <1>2

\* What the tracer does between two operations keeps Discipline.
LEMMA TracerDiscipline ==
  ASSUME TypeOK, Discipline, TracerStep, UNCHANGED ops
  PROVE  Discipline'
<1> USE DEF Discipline, CrashCauses, Quiet, Waiting, Exists, Live, Goto, Crash, tracerVars
<1>1. CASE RunCheck
  BY <1>1 DEF RunCheck, AssertInvariants, traceeVars
<1>2. CASE RunCont
  BY <1>2 DEF RunCont, AssertPtrace, Resume, traceeVars
<1>3. CASE RunTimeout
  BY <1>3 DEF RunTimeout, Signal
<1>4. CASE RunEntry
  BY <1>4 DEF RunEntry, Report
<1>5. CASE RunExit
  BY <1>5 DEF RunExit, Report
<1>6. CASE RunSignal
  BY <1>6 DEF RunSignal, Report
<1>7. CASE RunExited
  BY <1>7 DEF RunExited, Report
<1>8. CASE RunKilled
  BY <1>8 DEF RunKilled, Report
<1>9. CASE ResumeCheck
  BY <1>9 DEF ResumeCheck, AssertInvariants, traceeVars
<1>10. CASE ResumeCont
  BY <1>10 DEF ResumeCont, AssertPtrace, Resume, traceeVars
<1>11. CASE ResumeReached
  BY <1>11 DEF ResumeReached, Report
<1>12. CASE ResumeOther
  BY <1>12 DEF ResumeOther, OtherEvent, Report
<1>13. CASE ResumeOutOfTime
  BY <1>13 DEF ResumeOutOfTime, OtherEvent, TimedOut, Report
<1>14. CASE ResumeTimeout
  BY <1>14 DEF ResumeTimeout, TimedOut, traceeVars
<1>18. CASE ResumeExpired
  BY <1>18 DEF ResumeExpired, TimedOut, traceeVars
<1>19. CASE ResumeTooShort
  BY <1>19 DEF ResumeTooShort, Resume, Crash
<1>15. CASE Inject
  BY <1>15 DEF Inject, SetRegs, traceeVars
<1>16. CASE Restore
  BY <1>16 DEF Restore, SetRegs
<1>17. CASE Begin
  BY <1>17 DEF Begin, Report
<1> QED
  BY <1>1, <1>2, <1>3, <1>4, <1>5, <1>6, <1>7, <1>8, <1>9, <1>10, <1>11, <1>12, <1>13,
     <1>14, <1>15, <1>16, <1>17, <1>18, <1>19
  DEF TracerStep, Run, ResumeUntil

\* What the test asks for keeps Discipline.
LEMMA SessionDiscipline ==
  ASSUME TypeOK, Discipline, SessionStep
  PROVE  Discipline'
<1> USE DEF Discipline, CrashCauses, Quiet, Waiting, Exists, Live, Move, Finish, Enter,
            Crash, tracerVars
<1>1. CASE RunProgram \/ ExecSyscall \/ RestartProgram \/ DestroyContext
  BY <1>1 DEF RunProgram, ExecSyscall, RestartProgram, DestroyContext, traceeVars
<1>2. CASE RunProgramRan
  BY <1>2 DEF RunProgramRan, traceeVars
<1>3. CASE CallFunction
  BY <1>3 DEF CallFunction, SetRegs, traceeVars
<1>4. CASE CallFunctionRan
  BY <1>4 DEF CallFunctionRan, traceeVars
<1>5. CASE Kill
  BY <1>5 DEF Kill, Signal, traceeVars
<1>6. CASE Killed
  BY <1>6 DEF Killed, AfterKill, Report
<1>7. CASE KillTimeout
  BY <1>7 DEF KillTimeout, traceeVars
<1>8. CASE Start
  BY <1>8 DEF Start, Fork
<1>9. CASE Returned
  BY <1>9 DEF Returned, traceeVars
<1>10. CASE DtorRun
  BY <1>10 DEF DtorRun, traceeVars
<1>11. CASE DtorRan
  BY <1>11 DEF DtorRan, traceeVars
<1>12. CASE BaseWait
  BY <1>12 DEF BaseWait, Report, traceeVars
<1> QED
  BY <1>1, <1>2, <1>3, <1>4, <1>5, <1>6, <1>7, <1>8, <1>9, <1>10, <1>11, <1>12
  DEF SessionStep

\* Discipline is the inductive invariant behind the session's safety properties.
LEMMA DisciplineInvariant == Spec => []Discipline
<1>1. Init => Discipline
  BY DEF Init, TraceeInit, TracerInit, Discipline, CrashCauses, Waiting, Exists, Live
<1>2. ASSUME TypeOK, Discipline, [Next]_vars PROVE Discipline'
  <2>1. CASE SessionStep
    BY <1>2, <2>1, SessionDiscipline
  <2>2. CASE TracerStep /\ UNCHANGED ops
    BY <1>2, <2>2, TracerDiscipline
  <2>3. CASE TraceeStep /\ UNCHANGED <<graderVars, ops>>
    BY <1>2, <2>3, TraceeDiscipline
  <2>4. CASE UNCHANGED vars
    BY <1>2, <2>4
    DEF vars, traceeVars, graderVars, Discipline, CrashCauses, Waiting, Quiet, Exists, Live
  <2> QED
    BY <1>2, <2>1, <2>2, <2>3, <2>4 DEF Next
<1> QED
  BY <1>1, <1>2, TypeCorrect, PTL DEF Spec

\* Whatever the test body does and whenever the child moves, an operation begins with
\* the child in a reported ptrace stop or reaped, as long as no wait has timed out.
THEOREM StoppedBetweenOperationsCorrect == Spec => []StoppedBetweenOperations
<1>1. Discipline => StoppedBetweenOperations
  BY DEF Discipline, StoppedBetweenOperations, Waiting, Quiet
<1> QED
  BY <1>1, DisciplineInvariant, PTL

\* Without a timeout the grader is brought down by a failed ptrace request only when
\* the child has died inside a wait loop, and never by kill()'s CLD_KILLED assertion.
THEOREM CrashCausesCorrect == Spec => []CrashCauses
<1>1. Discipline => CrashCauses
  BY DEF Discipline
<1> QED
  BY <1>1, DisciplineInvariant, PTL

\* restart() and call_function() fork only when the previous process has been reaped.
THEOREM OneChildCorrect == Spec => []OneChild
<1>1. Discipline => OneChild
  BY DEF Discipline, OneChild
<1> QED
  BY <1>1, DisciplineInvariant, PTL

\* Destroying the context leaves no process and no zombie, even after timeouts.
THEOREM NoOrphanCorrect == Spec => []NoOrphan
<1>1. Discipline => NoOrphan
  BY DEF Discipline, NoOrphan
<1> QED
  BY <1>1, DisciplineInvariant, PTL

----------------------------------------------------------------------------
(* The patch that execute_syscall writes. *)

\* Every step of a session that is never late keeps its patched code to execute_syscall.
LEMMA PatchStep ==
  ASSUME TypeOK, PatchDiscipline, [Next]_vars
  PROVE  PatchDiscipline'
<1> USE DEF PatchDiscipline
<1>1. CASE TraceeStep /\ UNCHANGED <<graderVars, ops>>
  <2>1. place' \in {place, "main", "grader", "landing", "start", "stray"}
           \/ (place = "patch" /\ place' = "spent")
    BY <1>1
    DEF TraceeStep, SyscallEnter, InjectedEnter, SyscallReturn, ProgramExec, ChildExit,
        ChildKilled, Fault, ReturnTrap, OwnTrap, SigstopDelivered, GraderExec, Die
  <2> QED
    BY <1>1, <2>1 DEF graderVars
<1>2. CASE TracerStep /\ UNCHANGED ops
  <2> USE DEF Goto, Crash, tracerVars, traceeVars
  <2>1. CASE RunCheck \/ RunTimeout \/ RunEntry \/ RunExit \/ RunSignal \/ RunExited \/ RunKilled
    BY <2>1 DEF RunCheck, RunTimeout, RunEntry, RunExit, RunSignal, RunExited, RunKilled,
                AssertInvariants, Signal, Report
  <2>2. CASE RunCont
    BY <2>2 DEF RunCont, AssertPtrace, Resume
  <2>3. CASE ResumeCheck \/ ResumeCont \/ ResumeOther
    BY <2>3 DEF ResumeCheck, ResumeCont, ResumeOther, AssertInvariants, AssertPtrace,
                Resume, Report
  <2>4. CASE ResumeReached
    BY <2>4 DEF ResumeReached, Report
  <2>5. CASE ResumeOutOfTime \/ ResumeTimeout \/ ResumeExpired \/ ResumeTooShort
    BY <2>5 DEF ResumeOutOfTime, ResumeTimeout, ResumeExpired, ResumeTooShort, TimedOut,
       Resume, Crash
  <2>6. CASE Inject
    BY <2>6 DEF Inject, SetRegs
  <2>7. CASE Restore
    BY <2>7 DEF Restore, SetRegs
  <2>8. CASE Begin
    BY <2>8 DEF Begin, Report
  <2> QED
    BY <1>2, <2>1, <2>2, <2>3, <2>4, <2>5, <2>6, <2>7, <2>8 DEF TracerStep, Run, ResumeUntil
<1>3. CASE SessionStep
  <2> USE DEF Move, Finish, Enter, Crash, tracerVars, traceeVars
  <2>1. CASE RunProgram \/ ExecSyscall \/ RestartProgram \/ DestroyContext \/ DtorRun \/ DtorRan
    BY <2>1 DEF RunProgram, ExecSyscall, RestartProgram, DestroyContext, DtorRun, DtorRan
  <2>2. CASE RunProgramRan \/ CallFunctionRan \/ Returned
    BY <2>2 DEF RunProgramRan, CallFunctionRan, Returned
  <2>3. CASE CallFunction
    BY <2>3 DEF CallFunction, SetRegs
  <2>4. CASE Kill \/ KillTimeout
    BY <2>4 DEF Kill, KillTimeout, Signal
  <2>5. CASE Killed \/ BaseWait
    BY <2>5 DEF Killed, BaseWait, AfterKill, Report
  <2>6. CASE Start
    BY <2>6 DEF Start, Fork
  <2> QED
    BY <1>3, <2>1, <2>2, <2>3, <2>4, <2>5, <2>6 DEF SessionStep
<1>4. CASE UNCHANGED vars
  BY <1>4 DEF vars, traceeVars, graderVars, tracerVars
<1> QED
  BY <1>1, <1>2, <1>3, <1>4 DEF Next

\* However an injected system call ends, user code is back where it was before the test
\* goes on, unless a wait has timed out.
THEOREM InjectionRestoredCorrect == Spec => []InjectionRestored
<1>1. Init => PatchDiscipline
  BY DEF Init, TraceeInit, TracerInit, PatchDiscipline
<1>2. PatchDiscipline => InjectionRestored
  BY DEF PatchDiscipline, InjectionRestored
<1> QED
  BY <1>1, <1>2, PatchStep, TypeCorrect, PTL DEF Spec

----------------------------------------------------------------------------
(* The session implements the lifecycle. *)

\* The child's own steps: only its death shows, and it dies between two operations only
\* after a timeout.
LEMMA TraceeImplements ==
  ASSUME TypeOK, Discipline, TraceeStep, UNCHANGED <<graderVars, ops>>
  PROVE  L!Die \/ UNCHANGED L!vars
<1> USE DEF Phase, Child, Live, graderVars, L!vars
<1>1. CASE Live' \/ ~Live
  <2>1. ~Live => UNCHANGED proc
    BY QuietChild DEF TypeOK, TraceeTypeOK, ProcStates
  <2> QED
    BY <1>1, <2>1
<1>2. CASE Live /\ ~Live'
  <2>1. ChildKilled \/ ChildExit
    BY <1>2
    DEF TraceeStep, SyscallEnter, InjectedEnter, SyscallReturn, ProgramExec, Fault,
        ReturnTrap, OwnTrap, SigstopDelivered, GraderExec, Stop
  <2>2. proc' = "zombie"
    BY <2>1 DEF ChildKilled, ChildExit, Die
  <2>3. Phase = "busy" \/ slow
    BY <1>2, <2>1 DEF ChildKilled, ChildExit, Discipline, Quiet, Waiting, Exists
  <2> QED
    BY <1>2, <2>2, <2>3 DEF L!Die
<1> QED
  BY <1>1, <1>2

\* Each step of the tracer is one of the life of a process, or none.
LEMMA TracerImplements ==
  ASSUME TypeOK, Discipline, TracerStep, UNCHANGED ops
  PROVE  L!Next \/ UNCHANGED L!vars
<1> USE DEF Phase, Child, Live, L!vars, L!Next, Goto, Crash, tracerVars
<1>1. CASE RunCheck
  BY <1>1 DEF RunCheck, AssertInvariants, traceeVars, L!Abort
<1>2. CASE RunCont
  BY <1>2 DEF RunCont, AssertPtrace, Resume, traceeVars, L!Abort
<1>3. CASE RunTimeout
  BY <1>3 DEF RunTimeout, Signal, L!Timeout
<1>4. CASE RunEntry
  BY <1>4 DEF RunEntry, Report, L!Abort
<1>5. CASE RunExit
  BY <1>5 DEF RunExit, Report
<1>6. CASE RunSignal
  BY <1>6 DEF RunSignal, Report
<1>7. CASE RunExited
  BY <1>7 DEF RunExited, Report, L!Reap
<1>8. CASE RunKilled
  BY <1>8 DEF RunKilled, Report, L!Reap
<1>9. CASE ResumeCheck
  BY <1>9 DEF ResumeCheck, AssertInvariants, traceeVars, L!Abort
<1>10. CASE ResumeCont
  BY <1>10 DEF ResumeCont, AssertPtrace, Resume, traceeVars, L!Abort
<1>11. CASE ResumeReached
  BY <1>11 DEF ResumeReached, Report, L!Abort
<1>12. CASE ResumeOther
  BY <1>12 DEF ResumeOther, OtherEvent, Report, L!Reap
<1>13. CASE ResumeOutOfTime
  BY <1>13 DEF ResumeOutOfTime, OtherEvent, TimedOut, Report, L!Reap, L!Timeout
<1>14. CASE ResumeTimeout
  BY <1>14 DEF ResumeTimeout, TimedOut, traceeVars, L!Timeout
<1>18. CASE ResumeExpired
  BY <1>18 DEF ResumeExpired, TimedOut, traceeVars, L!Timeout
<1>19. CASE ResumeTooShort
  BY <1>19 DEF ResumeTooShort, Resume, Crash, L!Abort
<1>15. CASE Inject
  BY <1>15 DEF Inject, SetRegs, traceeVars
<1>16. CASE Restore
  BY <1>16 DEF Restore, SetRegs
<1>17. CASE Begin
  BY <1>17 DEF Begin, Report
<1> QED
  BY <1>1, <1>2, <1>3, <1>4, <1>5, <1>6, <1>7, <1>8, <1>9, <1>10, <1>11, <1>12, <1>13,
     <1>14, <1>15, <1>16, <1>17, <1>18, <1>19
  DEF TracerStep, Run, ResumeUntil

\* So is each operation of the session.
LEMMA SessionImplements ==
  ASSUME TypeOK, Discipline, SessionStep
  PROVE  L!Next \/ UNCHANGED L!vars
<1> USE DEF Phase, Child, Live, L!vars, L!Next, Move, Finish, Enter, Crash, tracerVars
<1>1. CASE RunProgram \/ ExecSyscall \/ RestartProgram \/ DestroyContext
  BY <1>1 DEF RunProgram, ExecSyscall, RestartProgram, DestroyContext, traceeVars,
              L!BeginOperation
<1>2. CASE RunProgramRan
  BY <1>2 DEF RunProgramRan, traceeVars, L!EndOperation, Discipline, Quiet, Waiting
<1>3. CASE CallFunction
  BY <1>3 DEF CallFunction, SetRegs, traceeVars, L!BeginOperation, L!Abort
<1>4. CASE CallFunctionRan
  BY <1>4 DEF CallFunctionRan, traceeVars, L!EndOperation, Discipline, Quiet, Waiting
<1>5. CASE Kill
  BY <1>5 DEF Kill, Signal, traceeVars
<1>6. CASE Killed
  BY <1>6 DEF Killed, AfterKill, Report, L!Reap
<1>7. CASE KillTimeout
  BY <1>7 DEF KillTimeout, traceeVars, L!Timeout
<1>8. CASE Start
  BY <1>8 DEF Start, Fork, L!Spawn, Discipline, Exists
<1>9. CASE Returned
  BY <1>9 DEF Returned, traceeVars, L!EndOperation, Discipline, Quiet, Waiting
<1>10. CASE DtorRun
  BY <1>10 DEF DtorRun, traceeVars
<1>11. CASE DtorRan
  BY <1>11 DEF DtorRan, traceeVars
<1>12. CASE BaseWait
  BY <1>12 DEF BaseWait, Report, traceeVars, L!Reap, L!Close, Exists
<1> QED
  BY <1>1, <1>2, <1>3, <1>4, <1>5, <1>6, <1>7, <1>8, <1>9, <1>10, <1>11, <1>12
  DEF SessionStep

\* The session implements Lifecycle: one process at a time, each reaped before the next,
\* and no death or reaping between two operations unless a wait has timed out.
THEOREM ImplementsLifecycleCorrect == Spec => ImplementsLifecycle
<1>1. Init => L!Init
  BY DEF Init, TraceeInit, L!Init, Phase, Child, Live
<1>2. ASSUME TypeOK, Discipline, [Next]_vars PROVE [L!Next]_(L!vars)
  <2>1. CASE SessionStep
    BY <1>2, <2>1, SessionImplements
  <2>2. CASE TracerStep /\ UNCHANGED ops
    BY <1>2, <2>2, TracerImplements
  <2>3. CASE TraceeStep /\ UNCHANGED <<graderVars, ops>>
    BY <1>2, <2>3, TraceeImplements DEF L!Next
  <2>4. CASE UNCHANGED vars
    BY <2>4 DEF vars, traceeVars, graderVars, L!vars, Phase, Child, Live
  <2> QED
    BY <1>2, <2>1, <2>2, <2>3, <2>4 DEF Next
<1> QED
  BY <1>1, <1>2, TypeCorrect, DisciplineInvariant, PTL
  DEF Spec, ImplementsLifecycle, L!Spec

----------------------------------------------------------------------------
(* Reports of exits. *)

\* The child's own steps: what has been reported of it stays, as it waits or is reaped.
LEMMA TraceeReports ==
  ASSUME TypeOK, ReportDiscipline, TraceeStep, UNCHANGED <<graderVars, ops>>
  PROVE  ReportDiscipline'
<1> USE DEF ReportDiscipline, ExitReportTrue, graderVars, tracerVars
<1>1. sigs' \subseteq sigs
  BY DEF TraceeStep, SyscallEnter, InjectedEnter, SyscallReturn, ProgramExec, ChildExit,
     ChildKilled, Fault, ReturnTrap, OwnTrap, SigstopDelivered, GraderExec, Die
<1>2. CASE proc \in {"running", "insys"}
  BY <1>1, <1>2
<1>3. CASE proc \in {"stopped", "zombie", "reaped", "none"}
  BY <1>1, <1>3, QuietChild
<1> QED
  BY <1>2, <1>3 DEF TypeOK, TraceeTypeOK

\* The tracer's steps keep its results to what the kernel reported.
LEMMA TracerReports ==
  ASSUME TypeOK, ReportDiscipline, TracerStep, UNCHANGED ops
  PROVE  ReportDiscipline'
<1> USE DEF ReportDiscipline, ExitReportTrue, Goto, Crash, tracerVars
<1>1. CASE RunCheck
  BY <1>1 DEF RunCheck, AssertInvariants, traceeVars
<1>2. CASE RunCont
  BY <1>2 DEF RunCont, AssertPtrace, Resume, traceeVars
<1>3. CASE RunTimeout
  BY <1>3 DEF RunTimeout, Signal, Res
<1>4. CASE RunEntry
  BY <1>4 DEF RunEntry, Report, PredSat
<1>5. CASE RunExit
  BY <1>5 DEF RunExit, Report
<1>6. CASE RunSignal
  BY <1>6 DEF RunSignal, Report, Res, SignalOf
<1>7. CASE RunExited
  <2>1. status = [how |-> "exited", code |-> status.code]
    BY <1>7 DEF RunExited, TypeOK, TraceeTypeOK, Statuses
  <2>2. status' = [how |-> "exited", code |-> res'.code] /\ proc' = "reaped"
    BY <1>7, <2>1 DEF RunExited, Report
  <2> QED
    BY <1>7, <2>2 DEF RunExited, Report
<1>8. CASE RunKilled
  BY <1>8 DEF RunKilled, Report
<1>9. CASE ResumeCheck
  BY <1>9 DEF ResumeCheck, AssertInvariants, traceeVars
<1>10. CASE ResumeCont
  BY <1>10 DEF ResumeCont, AssertPtrace, Resume, traceeVars
<1>11. CASE ResumeReached
  BY <1>11 DEF ResumeReached, Report
<1>12. CASE ResumeOther
  BY <1>12 DEF ResumeOther, OtherEvent, Report
<1>13. CASE ResumeOutOfTime
  BY <1>13 DEF ResumeOutOfTime, OtherEvent, TimedOut, Report, Res
<1>14. CASE ResumeTimeout
  BY <1>14 DEF ResumeTimeout, TimedOut, traceeVars, Res
<1>18. CASE ResumeExpired
  BY <1>18 DEF ResumeExpired, TimedOut, traceeVars, Res
<1>19. CASE ResumeTooShort
  BY <1>19 DEF ResumeTooShort, Resume, Crash
<1>15. CASE Inject
  BY <1>15 DEF Inject, SetRegs, traceeVars, Res
<1>16. CASE Restore
  BY <1>16 DEF Restore, SetRegs, Res
<1>17. CASE Begin
  BY <1>17 DEF Begin, Report
<1> QED
  BY <1>1, <1>2, <1>3, <1>4, <1>5, <1>6, <1>7, <1>8, <1>9, <1>10, <1>11, <1>12, <1>13,
     <1>14, <1>15, <1>16, <1>17, <1>18, <1>19
  DEF TracerStep, Run, ResumeUntil

\* So do the session's operations, which pass these results on.
LEMMA SessionReports ==
  ASSUME TypeOK, Discipline, ReportDiscipline, SessionStep
  PROVE  ReportDiscipline'
<1> USE DEF ReportDiscipline, ExitReportTrue, Move, Finish, Enter, Crash, tracerVars
<1>1. CASE RunProgram \/ ExecSyscall \/ RestartProgram \/ DestroyContext
  BY <1>1 DEF RunProgram, ExecSyscall, RestartProgram, DestroyContext, traceeVars, Res
<1>2. CASE RunProgramRan
  BY <1>2 DEF RunProgramRan, traceeVars, TypeOK, TracerTypeOK, Results
<1>3. CASE CallFunction
  BY <1>3 DEF CallFunction, SetRegs, traceeVars, Res
<1>4. CASE CallFunctionRan
  BY <1>4 DEF CallFunctionRan, traceeVars, Res
<1>5. CASE Kill
  BY <1>5 DEF Kill, Signal, traceeVars, Exists
<1>6. CASE Killed
  BY <1>6 DEF Killed, AfterKill, Report, Discipline, Live
<1>7. CASE KillTimeout
  BY <1>7 DEF KillTimeout, traceeVars, Res
<1>8. CASE Start
  BY <1>8 DEF Start, Fork
<1>9. CASE Returned
  BY <1>9 DEF Returned, traceeVars, Res
<1>10. CASE DtorRun
  BY <1>10 DEF DtorRun, traceeVars
<1>11. CASE DtorRan
  BY <1>11 DEF DtorRan, traceeVars
<1>12. CASE BaseWait
  BY <1>12 DEF BaseWait, Report, traceeVars
<1> QED
  BY <1>1, <1>2, <1>3, <1>4, <1>5, <1>6, <1>7, <1>8, <1>9, <1>10, <1>11, <1>12
  DEF SessionStep

\* TestContext::run says that the program exited with a code only while the child waits at
\* the entry of that very exit(2), or once waitid(2) has reported the code.
THEOREM ExitReportTrueCorrect == Spec => []ExitReportTrue
<1>1. Init => ReportDiscipline
  BY DEF Init, TraceeInit, TracerInit, ReportDiscipline, ExitReportTrue
<1>2. ASSUME TypeOK, Discipline, ReportDiscipline, [Next]_vars PROVE ReportDiscipline'
  <2>1. CASE SessionStep
    BY <1>2, <2>1, SessionReports
  <2>2. CASE TracerStep /\ UNCHANGED ops
    BY <1>2, <2>2, TracerReports
  <2>3. CASE TraceeStep /\ UNCHANGED <<graderVars, ops>>
    BY <1>2, <2>3, TraceeReports
  <2>4. CASE UNCHANGED vars
    BY <1>2, <2>4
    DEF vars, traceeVars, graderVars, tracerVars, ReportDiscipline, ExitReportTrue
  <2> QED
    BY <1>2, <2>1, <2>2, <2>3, <2>4 DEF Next
<1>3. ReportDiscipline => ExitReportTrue
  BY DEF ReportDiscipline
<1> QED
  BY <1>1, <1>2, <1>3, TypeCorrect, DisciplineInvariant, PTL DEF Spec

----------------------------------------------------------------------------
(* Reports of starts. *)

\* The child on its way to its first instruction: it has no step but the next one there, and
\* is never killed on it.
LEMMA TraceeStarts ==
  ASSUME TypeOK, StartDiscipline, TraceeStep, UNCHANGED <<graderVars, ops>>
  PROVE  StartDiscipline'
<1> SUFFICES ASSUME task \in {"ctor", "restart"} PROVE StartDiscipline'
  BY DEF StartDiscipline, graderVars
<1> USE DEF StartDiscipline, graderVars, tracerVars, At, In, Runs
<1>1. CASE proc \in {"stopped", "zombie", "reaped", "none"}
  <2>1. "KILL" \in sigs /\ proc = "stopped" /\ ChildKilled
    BY <1>1, QuietChild
  <2> QED
    BY <2>1
<1>2. CASE proc \in {"running", "insys"}
  <2>1. CASE pc # "rwait"
    BY <1>2, <2>1
  <2>2. CASE pc = "rwait"
    <3>1. CASE SyscallEnter
      BY <2>2, <3>1 DEF SyscallEnter
    <3>2. CASE InjectedEnter
      BY <2>2, <3>2 DEF InjectedEnter, Stop
    <3>3. CASE SyscallReturn
      BY <2>2, <3>3 DEF SyscallReturn, Stop
    <3>4. CASE ProgramExec
      BY <2>2, <3>4 DEF ProgramExec
    <3>5. CASE ChildExit
      BY <2>2, <3>5 DEF ChildExit
    <3>6. CASE ChildKilled
      BY <2>2, <3>6 DEF ChildKilled
    <3>7. CASE Fault
      BY <2>2, <3>7 DEF Fault, Stop
    <3>8. CASE ReturnTrap \/ OwnTrap
      BY <2>2, <3>8 DEF ReturnTrap, OwnTrap
    <3>9. CASE SigstopDelivered
      BY <2>2, <3>9 DEF SigstopDelivered
    <3>10. CASE GraderExec
      BY <2>2, <3>10 DEF GraderExec, Stop
    <3> QED
      BY <3>1, <3>2, <3>3, <3>4, <3>5, <3>6, <3>7, <3>8, <3>9, <3>10 DEF TraceeStep
  <2> QED
    BY <2>1, <2>2
<1> QED
  BY <1>1, <1>2 DEF TypeOK, TraceeTypeOK

\* The tracer takes a new program through the stops of its start one by one.
LEMMA TracerStarts ==
  ASSUME TypeOK, StartDiscipline, TracerStep, UNCHANGED ops
  PROVE  StartDiscipline'
<1> SUFFICES ASSUME task \in {"ctor", "restart"}, UNCHANGED task PROVE StartDiscipline'
  <2>1. UNCHANGED task
    BY DEF TracerStep, Run, RunCheck, RunCont, RunTimeout, RunEntry, RunExit, RunSignal,
       RunExited, RunKilled, ResumeUntil, ResumeCheck, ResumeCont, ResumeReached, ResumeOther,
       ResumeOutOfTime, ResumeExpired, ResumeTooShort, ResumeTimeout, Inject, Restore, Begin,
       AssertInvariants, AssertPtrace, TimedOut, Goto, Crash
  <2> QED
    BY <2>1 DEF StartDiscipline
<1> USE DEF StartDiscipline, tracerVars, At, In, Runs, Goto, Crash
<1>1. CASE Run
  <2>1. pc' \in {"cont", "wait", "ran", "crashed"}
    BY <1>1 DEF Run, RunCheck, RunCont, RunTimeout, RunEntry, RunExit, RunSignal, RunExited,
                RunKilled, AssertInvariants, AssertPtrace
  <2> QED
    BY <2>1
<1>2. CASE ResumeCheck
  BY <1>2 DEF ResumeCheck, AssertInvariants, traceeVars
<1>3. CASE ResumeCont
  BY <1>3 DEF ResumeCont, AssertPtrace, Resume
<1>4. CASE ResumeReached
  BY <1>4 DEF ResumeReached, Report, Reached
<1>5. CASE ResumeOther
  BY <1>5 DEF ResumeOther, OtherEvent, Report, Reached
<1>6. CASE ResumeOutOfTime \/ ResumeTimeout \/ ResumeExpired \/ ResumeTooShort
  BY <1>6 DEF ResumeOutOfTime, ResumeTimeout, ResumeExpired, ResumeTooShort, TimedOut,
     Resume, Crash, Res
<1>7. CASE Inject
  BY <1>7 DEF Inject, SetRegs, Res
<1>8. CASE Restore
  BY <1>8 DEF Restore, SetRegs
<1>9. CASE Begin
  BY <1>9 DEF Begin, Report
<1> QED
  BY <1>1, <1>2, <1>3, <1>4, <1>5, <1>6, <1>7, <1>8, <1>9 DEF TracerStep, ResumeUntil

\* The session's operations start new programs only where that begins.
LEMMA SessionStarts ==
  ASSUME TypeOK, StartDiscipline, SessionStep
  PROVE  StartDiscipline'
<1> USE DEF StartDiscipline, Move, Finish, Enter, Crash, tracerVars, traceeVars, At, In, Runs
<1>1. CASE RunProgram \/ ExecSyscall \/ RestartProgram \/ DestroyContext
  BY <1>1 DEF RunProgram, ExecSyscall, RestartProgram, DestroyContext, Res
<1>2. CASE RunProgramRan \/ CallFunctionRan \/ CallFunction
  BY <1>2 DEF RunProgramRan, CallFunctionRan, CallFunction
<1>3. CASE Kill
  BY <1>3 DEF Kill
<1>4. CASE Killed
  BY <1>4 DEF Killed, AfterKill
<1>5. CASE KillTimeout
  BY <1>5 DEF KillTimeout, Res
<1>6. CASE Start
  BY <1>6 DEF Start, Fork
<1>7. CASE Returned
  BY <1>7 DEF Returned, Res
<1>8. CASE DtorRun \/ DtorRan \/ BaseWait
  BY <1>8 DEF DtorRun, DtorRan, BaseWait
<1> QED
  BY <1>1, <1>2, <1>3, <1>4, <1>5, <1>6, <1>7, <1>8 DEF SessionStep

\* A start or a restart that succeeds leaves the new process before its first instruction,
\* nothing pending and nothing of the injected mmap(2) left, whatever became of the process
\* before it.
THEOREM StartedFreshCorrect == Spec => []StartedFresh
<1>1. Init => StartDiscipline
  BY DEF Init, TraceeInit, TracerInit, StartDiscipline, Res
<1>2. ASSUME TypeOK, StartDiscipline, [Next]_vars PROVE StartDiscipline'
  <2>1. CASE SessionStep
    BY <1>2, <2>1, SessionStarts
  <2>2. CASE TracerStep /\ UNCHANGED ops
    BY <1>2, <2>2, TracerStarts
  <2>3. CASE TraceeStep /\ UNCHANGED <<graderVars, ops>>
    BY <1>2, <2>3, TraceeStarts
  <2>4. CASE UNCHANGED vars
    BY <1>2, <2>4
    DEF vars, traceeVars, graderVars, tracerVars, StartDiscipline, At, In, Runs
  <2> QED
    BY <1>2, <2>1, <2>2, <2>3, <2>4 DEF Next
<1>3. StartDiscipline => StartedFresh
  BY DEF StartDiscipline, StartedFresh, At
<1> QED
  BY <1>1, <1>2, <1>3, TypeCorrect, PTL DEF Spec
----------------------------------------------------------------------------
(* Records of system calls. *)

\* The child's own steps: a call begins where the grader expects it, and ends as the call
\* that began.
LEMMA TraceePairs ==
  ASSUME TypeOK, PairDiscipline, TraceeStep, UNCHANGED <<graderVars, ops>>
  PROVE  PairDiscipline'
<1> SUFFICES ASSUME ~lost, pc # "crashed" PROVE PairDiscipline'
  BY DEF PairDiscipline, graderVars
<1> USE DEF PairDiscipline, graderVars, tracerVars, InCall, Resuming, Live, At
<1>1. CASE SyscallEnter
  <2>1. sys'.id # 0 /\ sys'.nr # "injected"
    BY <1>1, MaxSyscallsAssumption DEF SyscallEnter, TypeOK, TraceeTypeOK
  <2> QED
    BY <1>1, <2>1 DEF SyscallEnter, Stop
<1>2. CASE InjectedEnter
  BY <1>2 DEF InjectedEnter, Stop
<1>3. CASE SyscallReturn
  BY <1>3 DEF SyscallReturn, Stop
<1>4. CASE ProgramExec
  <2>1. sys'.id = sys.id /\ sys'.nr = "execed"
    BY <1>4 DEF ProgramExec, TypeOK, TraceeTypeOK, Syscalls
  <2> QED
    BY <1>4, <2>1 DEF ProgramExec, Stop
<1>5. CASE ChildExit \/ ChildKilled
  BY <1>5 DEF ChildExit, ChildKilled, Die
<1>6. CASE Fault \/ ReturnTrap \/ OwnTrap \/ SigstopDelivered
  BY <1>6 DEF Fault, ReturnTrap, OwnTrap, SigstopDelivered, Stop
<1>7. CASE GraderExec
  BY <1>7 DEF GraderExec, Stop
<1> QED
  BY <1>1, <1>2, <1>3, <1>4, <1>5, <1>6, <1>7 DEF TraceeStep

\* Each return the tracer records belongs to the system call it recorded last.
LEMMA TracerPairs ==
  ASSUME TypeOK, PairDiscipline, TracerStep, UNCHANGED ops
  PROVE  PairDiscipline'
<1> SUFFICES ASSUME ~lost, ~lost', pc' # "crashed" PROVE PairDiscipline'
  <2>1. lost => lost'
    BY DEF TracerStep, Run, RunCheck, RunCont, RunTimeout, RunEntry, RunExit, RunSignal,
       RunExited, RunKilled, ResumeUntil, ResumeCheck, ResumeCont, ResumeReached, ResumeOther,
       ResumeOutOfTime, ResumeExpired, ResumeTooShort, ResumeTimeout, Inject, Restore, Begin,
       AssertInvariants, AssertPtrace, TimedOut, Goto, Crash, tracerVars
  <2> QED
    BY <2>1 DEF PairDiscipline
<1> USE DEF PairDiscipline, tracerVars, InCall, Resuming, Live, At, Goto, Crash
<1>1. CASE RunCheck
  BY <1>1 DEF RunCheck, AssertInvariants, traceeVars
<1>2. CASE RunCont
  BY <1>2 DEF RunCont, AssertPtrace, Resume
<1>3. CASE RunTimeout
  BY <1>3 DEF RunTimeout, Signal
<1>4. CASE RunEntry
  <2>1. [nr |-> sys.nr, id |-> sys.id, ret |-> NoRet] \in Records
    BY DEF Records, NoRet, TypeOK, TraceeTypeOK, Syscalls
  <2> DEFINE new == [nr |-> sys.nr, id |-> sys.id, ret |-> NoRet]
  <2>2. records' = Push(new) /\ new.id = sys.id
    BY <1>4 DEF RunEntry
  <2> HIDE DEF new
  <2>3. Len(records') > 0 /\ records'[Len(records')].id = sys.id
    BY <2>1, <2>2, PushRecord DEF TypeOK, new
  <2> QED
    BY <1>4, <2>3 DEF RunEntry, Report, PredSat
<1>5. CASE RunExit
  BY <1>5 DEF RunExit, Report, TypeOK, TracerTypeOK
<1>6. CASE RunSignal
  BY <1>6 DEF RunSignal, Report
<1>7. CASE RunExited \/ RunKilled
  BY <1>7 DEF RunExited, RunKilled, Report
<1>8. CASE ResumeCheck
  BY <1>8 DEF ResumeCheck, AssertInvariants, traceeVars
<1>9. CASE ResumeCont
  BY <1>9 DEF ResumeCont, AssertPtrace, Resume
<1>10. CASE ResumeReached
  BY <1>10 DEF ResumeReached, Report, Reached
<1>11. CASE ResumeOther
  BY <1>11 DEF ResumeOther, OtherEvent, Report, Reached
<1>12. CASE ResumeOutOfTime \/ ResumeTimeout \/ ResumeExpired \/ ResumeTooShort
  BY <1>12 DEF ResumeOutOfTime, ResumeTimeout, ResumeExpired, ResumeTooShort, TimedOut,
     Resume, Crash
<1>13. CASE Inject
  BY <1>13 DEF Inject, SetRegs, traceeVars, TypeOK, TraceeTypeOK, Syscalls
<1>14. CASE Restore
  BY <1>14 DEF Restore, SetRegs, TypeOK, TraceeTypeOK, Syscalls
<1>15. CASE Begin
  BY <1>15 DEF Begin, Report
<1> QED
  BY <1>1, <1>2, <1>3, <1>4, <1>5, <1>6, <1>7, <1>8, <1>9, <1>10, <1>11, <1>12, <1>13,
     <1>14, <1>15
  DEF TracerStep, Run, ResumeUntil

\* The session's operations do not touch the record of system calls.
LEMMA SessionPairs ==
  ASSUME TypeOK, PairDiscipline, SessionStep
  PROVE  PairDiscipline'
<1> USE DEF PairDiscipline, Move, Finish, Enter, Crash, tracerVars, traceeVars,
            InCall, Resuming, Live, At
<1>1. CASE RunProgram \/ ExecSyscall \/ RestartProgram \/ DestroyContext
  BY <1>1 DEF RunProgram, ExecSyscall, RestartProgram, DestroyContext
<1>2. CASE RunProgramRan \/ CallFunctionRan
  BY <1>2 DEF RunProgramRan, CallFunctionRan
<1>3. CASE CallFunction
  BY <1>3 DEF CallFunction, SetRegs, TypeOK, TraceeTypeOK, Syscalls
<1>4. CASE Kill
  BY <1>4 DEF Kill, Signal
<1>5. CASE Killed
  BY <1>5 DEF Killed, AfterKill, Report
<1>6. CASE KillTimeout
  BY <1>6 DEF KillTimeout
<1>7. CASE Start
  BY <1>7 DEF Start, Fork, NoSys
<1>8. CASE Returned
  BY <1>8 DEF Returned
<1>9. CASE DtorRun \/ DtorRan
  BY <1>9 DEF DtorRun, DtorRan
<1>10. CASE BaseWait
  BY <1>10 DEF BaseWait, Report
<1> QED
  BY <1>1, <1>2, <1>3, <1>4, <1>5, <1>6, <1>7, <1>8, <1>9, <1>10 DEF SessionStep

\* The records, which only run_until's steps change: each completes with its own call's
\* return.
LEMMA OwnReturnStep ==
  ASSUME TypeOK, PairDiscipline, OwnReturn, [Next]_vars
  PROVE  OwnReturn'
<1> SUFFICES ASSUME ~lost' PROVE OwnReturn'
  BY DEF OwnReturn
<1>1. lost => lost'
  BY DEF Next, vars, graderVars, tracerVars, SessionStep, RunProgram, RunProgramRan, CallFunction,
     CallFunctionRan, ExecSyscall, RestartProgram, Kill, Killed, KillTimeout, Start, Returned,
     DestroyContext, DtorRun, DtorRan, BaseWait, Move, Finish, Enter,
     TracerStep, Run, RunCheck, RunCont, RunTimeout, RunEntry, RunExit, RunSignal,
     RunExited, RunKilled, ResumeUntil, ResumeCheck, ResumeCont, ResumeReached, ResumeOther,
     ResumeOutOfTime, ResumeExpired, ResumeTooShort, ResumeTimeout, Inject, Restore, Begin,
     AssertInvariants, AssertPtrace, TimedOut, Goto, Crash
<1>2. ~lost /\ \A i \in 1..Len(records) : records[i].ret \in {NoRet, records[i].id}
  BY <1>1 DEF OwnReturn
<1>3. records \in Seq(Records)
  BY DEF TypeOK, TracerTypeOK
<1>4. CASE UNCHANGED records
  BY <1>2, <1>4 DEF OwnReturn
<1>5. CASE RunEntry /\ ~ UNCHANGED records
  <2> DEFINE new == [nr |-> sys.nr, id |-> sys.id, ret |-> NoRet]
  <2>1. records' = Push(new) /\ new.ret = NoRet
    BY <1>5 DEF RunEntry, Crash
  <2>2. new \in Records
    BY DEF Records, NoRet, TypeOK, TraceeTypeOK, Syscalls
  <2> HIDE DEF new
  <2> DEFINE n == Len(records')
  <2>2a. /\ Push(new) \in Seq(Records) /\ Len(Push(new)) \in Nat \ {0}
         /\ Push(new)[Len(Push(new))] = new
         /\ Len(Push(new)) - 1 \in 0..Len(records)
         /\ \A i \in 1..Len(Push(new)) - 1 : Push(new)[i] = records[i]
    BY <2>2, PushRecord DEF TypeOK
  <2>3. /\ n \in Nat \ {0} /\ n - 1 \in 0..Len(records) /\ Len(records) \in Nat
        /\ records'[n] = new
        /\ \A i \in 1..n - 1 : records'[i] = records[i]
    BY <1>3, <2>1, <2>2a
  <2>4. ASSUME NEW i \in 1..n PROVE records'[i].ret \in {NoRet, records'[i].id}
    <3>1. CASE i = n
      BY <2>1, <2>3, <3>1
    <3>2. CASE i # n
      <4>1. i \in 1..n - 1 /\ i \in 1..Len(records)
        BY <2>3, <3>2
      <4> QED
        BY <1>2, <2>3, <4>1
    <3> QED
      BY <3>1, <3>2
  <2> QED
    BY <2>4 DEF OwnReturn
<1>6. CASE RunExit /\ ~ UNCHANGED records
  <2> DEFINE n == Len(records)
  <2>1. n # 0 /\ records' = [records EXCEPT ![n].ret = sys.id]
    BY <1>6 DEF RunExit
  <2>2. n \in 1..n /\ DOMAIN records = 1..n
    BY <1>3, <2>1
  <2>3. records[n].id = sys.id
    BY <1>2, <1>6 DEF RunExit, PairDiscipline, InCall, Resuming, Report
  <2>4. records[n] \in Records
    BY <1>3, <2>2
  <2>5. /\ Len(records') = n /\ records'[n].ret = sys.id /\ records'[n].id = records[n].id
        /\ \A i \in 1..n : i # n => records'[i] = records[i]
    BY <1>3, <2>1, <2>2, <2>4 DEF Records
  <2> QED
    BY <1>2, <2>3, <2>5 DEF OwnReturn
<1> QED
  <2>1. RunEntry \/ RunExit \/ UNCHANGED records
    BY DEF Next, vars, graderVars, tracerVars, SessionStep, RunProgram, RunProgramRan,
       CallFunction, CallFunctionRan, ExecSyscall, RestartProgram, Kill, Killed, KillTimeout,
       Start, Returned, DestroyContext, DtorRun, DtorRan, BaseWait, Move, Finish, Enter,
       TracerStep, Run, RunCheck, RunCont, RunTimeout, RunSignal, RunExited, RunKilled,
       ResumeUntil, ResumeCheck, ResumeCont, ResumeReached, ResumeOther,
       ResumeOutOfTime, ResumeExpired, ResumeTooShort, ResumeTimeout, Inject, Restore, Begin,
       AssertInvariants, AssertPtrace, TimedOut, Goto, Crash
  <2> QED
    BY <1>4, <1>5, <1>6, <2>1

\* Tracer::run_until gives each record the return value of its own system call, across
\* timeouts, restarts and injected calls, unless a syscall stop went by unreported.
THEOREM OwnReturnCorrect == Spec => []OwnReturn
<1>1. Init => PairDiscipline /\ OwnReturn
  BY DEF Init, TraceeInit, TracerInit, PairDiscipline, OwnReturn, InCall, Resuming, Live, At
<1>2. ASSUME TypeOK, PairDiscipline, [Next]_vars PROVE PairDiscipline'
  <2>1. CASE SessionStep
    BY <1>2, <2>1, SessionPairs
  <2>2. CASE TracerStep /\ UNCHANGED ops
    BY <1>2, <2>2, TracerPairs
  <2>3. CASE TraceeStep /\ UNCHANGED <<graderVars, ops>>
    BY <1>2, <2>3, TraceePairs
  <2>4. CASE UNCHANGED vars
    BY <1>2, <2>4
    DEF vars, traceeVars, graderVars, tracerVars, PairDiscipline, InCall, Resuming, Live, At
  <2> QED
    BY <1>2, <2>1, <2>2, <2>3, <2>4 DEF Next
<1> QED
  BY <1>1, <1>2, OwnReturnStep, TypeCorrect, PTL DEF Spec
=============================================================================
