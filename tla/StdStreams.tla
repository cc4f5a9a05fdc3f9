----------------------------- MODULE StdStreams -----------------------------
(***************************************************************************)
(* The standard streams of a traced program: asmgrader::Subprocess's two   *)
(* pipes, stdout_buffer_ and stdout_cursor_, under the operations of       *)
(* TestContext and TracedSubprocess.  How the tracer starts, stops and     *)
(* reaps the child is TestSession's subject; here a child is stopped,      *)
(* running (during a run, or after a run that timed out), dead, or reaped, *)
(* and an operation that needs a stopped child waits for one.              *)
(*                                                                         *)
(* A byte of stdout is named by the order in which the programs wrote it;  *)
(* of stdin only the number of unread bytes matters.                       *)
(***************************************************************************)
EXTENDS Integers, Sequences

CONSTANTS
  OutCap, InCap,   \* capacity of the stdout pipe and of the stdin pipe
  Chunk,           \* bytes flush_stdin reads at once
  MaxOut,          \* bound: bytes the programs write in a behaviour
  MaxSend,         \* bound: bytes of one send_stdin
  MaxOps           \* bound: operations the test body performs

ASSUME PipeAssumption == {OutCap, InCap, Chunk} \subseteq Nat \ {0}
ASSUME BoundAssumption == {MaxOut, MaxSend, MaxOps} \subseteq Nat

VARIABLES
  life,            \* the child
  out,             \* unread bytes in the stdout pipe
  in,              \* number of unread bytes in the stdin pipe
  writeFd,         \* stdin_pipe_.write_fd # -1
  stdout_buffer_,
  stdout_cursor_,
  pc,              \* where the grader's thread is
  todo,            \* bytes send_stdin still has to write
  flushed,         \* bytes_read of flush_stdin
  ops,             \* operations begun
  written,         \* history: every byte the programs wrote, in order
  got,             \* history: what get_stdout has returned so far, all calls together
  unread,          \* history: bytes of stdin that no one had read when flush_stdin began
  lossy            \* history: a restart replaced a child that was not in a stop

pipeVars == <<out, in, writeFd>>
bufferVars == <<stdout_buffer_, stdout_cursor_, got>>
stdinVars == <<todo, flushed, unread>>
vars == <<life, pipeVars, bufferVars, stdinVars, pc, ops, written, lossy>>


\* A program that Program's constructor has started.
Init ==
  /\ life = "stopped" /\ pc = "idle" /\ ops = 0
  /\ out = <<>> /\ in = 0 /\ writeFd = TRUE
  /\ stdout_buffer_ = <<>> /\ stdout_cursor_ = 0
  /\ todo = 0 /\ flushed = 0 /\ unread = 0
  /\ written = <<>> /\ got = <<>> /\ lossy = FALSE

Begin(next) ==
  /\ pc = "idle" /\ ops < MaxOps
  /\ pc' = next /\ ops' = ops + 1

----------------------------------------------------------------------------
(* The child. *)

\* write(2): blocks while the pipe is full.
ChildWrite ==
  /\ life = "running" /\ Len(out) < OutCap /\ Len(written) < MaxOut
  /\ out' = Append(out, Len(written) + 1)
  /\ written' = Append(written, Len(written) + 1)
  /\ UNCHANGED <<life, in, writeFd, bufferVars, stdinVars, pc, ops, lossy>>

\* read(2): blocks while the pipe is empty.
ChildRead ==
  /\ life = "running" /\ in > 0
  /\ \E n \in 1..in : in' = in - n
  /\ UNCHANGED <<life, out, writeFd, bufferVars, stdinVars, pc, ops, written, lossy>>

\* At the entry of exit(2), at a breakpoint, on a fatal signal, or on the SIGSTOP of a
\* run that timed out; or it exits.
ChildStop ==
  /\ life = "running"
  /\ life' \in {"stopped", "zombie"}
  /\ UNCHANGED <<pipeVars, bufferVars, stdinVars, pc, ops, written, lossy>>

----------------------------------------------------------------------------
(* run, and call_function, which restarts a program that exits under it *)

Run ==
  /\ \E next \in {"run", "call"} : Begin(next)
  /\ life = "stopped" /\ life' = "running"
  /\ UNCHANGED <<pipeVars, bufferVars, stdinVars, written, lossy>>

RunReturns ==
  /\ pc \in {"run", "call"}
  /\ \/ life = "stopped" /\ pc' = "idle" /\ UNCHANGED life
     \/ /\ life = "zombie" /\ life' = "reaped"
        /\ pc' = IF pc = "call" THEN "restart" ELSE "idle"
  /\ UNCHANGED <<pipeVars, bufferVars, stdinVars, ops, written, lossy>>

RunTimesOut ==
  /\ pc \in {"run", "call"} /\ life = "running"
  /\ pc' = "idle"
  /\ UNCHANGED <<life, pipeVars, bufferVars, stdinVars, ops, written, lossy>>

----------------------------------------------------------------------------
(* stdout *)

\* read_stdout_impl: FIONREAD, then one read of as many bytes.
ReadStdoutImpl == stdout_buffer_' = stdout_buffer_ \o out /\ out' = <<>>

\* Mutant of GetStdout: the cursor stays.
GetStdoutAgain ==
  /\ Begin("idle")
  /\ ReadStdoutImpl
  /\ got' = got \o SubSeq(stdout_buffer_', stdout_cursor_ + 1, Len(stdout_buffer_'))
  /\ UNCHANGED <<life, in, writeFd, stdout_cursor_, stdinVars, written, lossy>>

\* TestContext::get_stdout, Subprocess::read_stdout.
GetStdout ==
  /\ Begin("idle")
  /\ ReadStdoutImpl
  /\ got' = got \o SubSeq(stdout_buffer_', stdout_cursor_ + 1, Len(stdout_buffer_'))
  /\ stdout_cursor_' = Len(stdout_buffer_')
  /\ UNCHANGED <<life, in, writeFd, stdinVars, written, lossy>>

\* TestContext::get_full_stdout returns stdout_buffer_'.
GetFullStdout ==
  /\ Begin("idle")
  /\ ReadStdoutImpl
  /\ UNCHANGED <<life, in, writeFd, stdout_cursor_, got, stdinVars, written, lossy>>

----------------------------------------------------------------------------
(* stdin *)

SendStdin ==
  /\ Begin("send")
  /\ todo' \in 1..MaxSend
  /\ UNCHANGED <<life, pipeVars, bufferVars, flushed, unread, written, lossy>>

\* Mutant of SendSome: the last byte of the pipe is never used.
SendSomeShort ==
  /\ pc = "send" /\ todo > 0 /\ life \in {"stopped", "running"} /\ in < InCap - 1
  /\ in' = in + 1 /\ todo' = todo - 1
  /\ UNCHANGED <<life, out, writeFd, bufferVars, flushed, unread, pc, ops, written, lossy>>

\* write(2) on a blocking pipe: the grader sleeps while it is full.
SendSome ==
  /\ pc = "send" /\ todo > 0 /\ life \in {"stopped", "running"} /\ in < InCap
  /\ in' = in + 1 /\ todo' = todo - 1
  /\ UNCHANGED <<life, out, writeFd, bufferVars, flushed, unread, pc, ops, written, lossy>>

\* The child was the only reader: SIGPIPE, which nothing in the grader handles.
SendSigpipe ==
  /\ pc = "send" /\ todo > 0 /\ life \in {"zombie", "reaped"}
  /\ pc' = "sigpipe"
  /\ UNCHANGED <<life, pipeVars, bufferVars, stdinVars, ops, written, lossy>>

SendDone ==
  /\ pc = "send" /\ todo = 0
  /\ pc' = "idle"
  /\ UNCHANGED <<life, pipeVars, bufferVars, stdinVars, ops, written, lossy>>

FlushStdin ==
  /\ Begin("ppoll") /\ life = "stopped"
  /\ flushed' = 0 /\ unread' = in
  /\ UNCHANGED <<life, pipeVars, bufferVars, todo, written, lossy>>

\* ppoll(2) finds the pipe readable when it has bytes, or no writer is left.
FlushPoll ==
  /\ pc = "ppoll"
  /\ pc' = IF in > 0 \/ ~writeFd THEN "read" ELSE "idle"
  /\ UNCHANGED <<life, pipeVars, bufferVars, stdinVars, ops, written, lossy>>

FlushRead ==
  /\ pc = "read"
  /\ LET n == IF in < Chunk THEN in ELSE Chunk
     IN  in' = in - n /\ flushed' = flushed + n
  /\ pc' = "ppoll"
  /\ UNCHANGED <<life, out, writeFd, bufferVars, todo, unread, ops, written, lossy>>

----------------------------------------------------------------------------
(* restart *)

RestartProgram ==
  /\ Begin("restart")
  /\ UNCHANGED <<life, pipeVars, bufferVars, stdinVars, written, lossy>>

\* Mutant of CloseDrain: kill() closes the pipes unread.
CloseUnread ==
  /\ pc = "restart"
  /\ pc' = IF life = "reaped" THEN "create" ELSE "close"
  /\ lossy' = (lossy \/ life # "stopped")
  /\ UNCHANGED <<life, pipeVars, bufferVars, stdinVars, ops, written>>

\* kill() of a child that is_alive reads what there is before it closes the pipes; a
\* child that has been reaped gets neither.
CloseDrain ==
  /\ pc = "restart"
  /\ IF life = "reaped"
     THEN pc' = "create" /\ UNCHANGED <<out, stdout_buffer_>>
     ELSE pc' = "close" /\ ReadStdoutImpl
  /\ lossy' = (lossy \/ life # "stopped")
  /\ UNCHANGED <<life, in, writeFd, stdout_cursor_, got, stdinVars, ops, written>>

\* SIGKILL and its 10 ms wait: dead in time, not dead (restart_program throws and the
\* test is over), or dead by itself already, which fails kill()'s assertion.
KillClosed ==
  /\ pc = "close"
  /\ writeFd' = FALSE
  /\ \/ life \in {"stopped", "running"} /\ life' = "reaped" /\ pc' = "create"
     \/ life \in {"stopped", "running"} /\ pc' = "done" /\ UNCHANGED life
     \/ life = "zombie" /\ life' = "reaped" /\ pc' = "crashed"
  /\ UNCHANGED <<out, in, bufferVars, stdinVars, ops, written, lossy>>

\* Mutant of Create: only the stdout pipe is made anew.
CreateHalf ==
  /\ pc = "create"
  /\ out' = <<>> /\ life' = "stopped" /\ pc' = "idle"
  /\ UNCHANGED <<in, writeFd, bufferVars, stdinVars, ops, written, lossy>>

\* create(): new pipes; stdout_buffer_ and stdout_cursor_ go on.
Create ==
  /\ pc = "create"
  /\ out' = <<>> /\ in' = 0 /\ writeFd' = TRUE /\ life' = "stopped" /\ pc' = "idle"
  /\ UNCHANGED <<bufferVars, stdinVars, ops, written, lossy>>

----------------------------------------------------------------------------
GraderStep ==
  \/ RunReturns \/ RunTimesOut \/ SendSome \/ SendSigpipe \/ SendDone \/ FlushPoll
  \/ FlushRead \/ CloseDrain \/ KillClosed \/ Create

Operation ==
  \/ Run \/ GetStdout \/ GetFullStdout \/ SendStdin \/ FlushStdin \/ RestartProgram

Next == GraderStep \/ Operation \/ ChildWrite \/ ChildRead \/ ChildStop

Spec == Init /\ [][Next]_vars

\* The grader's thread finishes what it has begun, as long as nothing blocks it.
FairSpec == Spec /\ WF_vars(GraderStep)

----------------------------------------------------------------------------
\* get_stdout and get_full_stdout hand out the same bytes: all calls of get_stdout
\* together returned the buffer up to the cursor, each byte once and in order, however
\* the two are mixed with restarts (subprocess.cpp:187-205).
DeliveredOnce ==
  got \o SubSeq(stdout_buffer_, stdout_cursor_ + 1, Len(stdout_buffer_)) = stdout_buffer_

\* No byte the programs wrote is lost, doubled or reordered, across timeouts and
\* restarts, as long as only stopped children are replaced (subprocess.cpp:127-129).  A
\* function that prints and exits is replaced after it is gone: restart reads no pipe of
\* such a child, and what nobody had read is missing from the get_full_stdout that
\* test_context.hpp:80 says gets "all stdout from since the beginning of the test".
NothingLost == ~lossy => stdout_buffer_ \o out = written

\* flush_stdin ends, with all that was unread taken and counted: its ppoll does not see the
\* end of file, because the grader's own end of the pipe is open whenever a test body runs
\* (test_context.cpp:147-189).
FlushEnds == pc = "ppoll" ~> pc = "idle" /\ in = 0 /\ flushed = unread

\* A send_stdin that fits what is free in the pipe returns, whatever the child does.
SendsThatFitReturn == pc = "send" /\ in + todo <= InCap ~> pc # "send"

----------------------------------------------------------------------------
(* The inductive invariant behind DeliveredOnce and NothingLost. *)

Control ==
  /\ life \in {"stopped", "running", "zombie", "reaped"}
  /\ pc \in {"idle", "run", "call", "send", "sigpipe", "ppoll", "read", "restart", "close",
             "create", "done", "crashed"}
  /\ writeFd \in BOOLEAN /\ lossy \in BOOLEAN

Counts ==
  /\ in \in 0..InCap
  /\ todo \in Nat /\ flushed \in Nat /\ unread \in Nat /\ ops \in Nat

Streams ==
  /\ out \in Seq(Nat) /\ Len(out) <= OutCap
  /\ stdout_buffer_ \in Seq(Nat) /\ stdout_cursor_ \in Nat
  /\ got \in Seq(Nat) /\ written \in Seq(Nat)

TypeOK == Control /\ Counts /\ Streams

\* What get_stdout has returned is the buffer up to the cursor.
Delivery ==
  /\ stdout_cursor_ <= Len(stdout_buffer_)
  /\ got = SubSeq(stdout_buffer_, 1, stdout_cursor_)

\* The pipe is empty from kill()'s read to the new pipes of create(), when the child could
\* not write in between.
Drained ==
  ~lossy =>
    /\ pc = "close" => life = "stopped" /\ out = <<>>
    /\ pc = "create" => life = "reaped" /\ out = <<>>

\* Nobody else reads stdin while flush_stdin does; the grader's end of the pipe is closed
\* only between kill() and create(), so that ppoll finds a pipe readable only when a read
\* makes progress.
Flushing ==
  /\ pc \in {"ppoll", "read"} => life = "stopped"
  /\ pc = "read" => in > 0
  /\ pc \in {"idle", "run", "call", "send", "ppoll", "read", "restart"} => writeFd

\* flush_stdin has accounted for, or still finds, every byte that was unread when it was called.
FlushExact == pc \in {"ppoll", "read"} => flushed + in = unread

StreamDiscipline == TypeOK /\ Delivery /\ NothingLost /\ Drained /\ Flushing /\ FlushExact

=============================================================================
