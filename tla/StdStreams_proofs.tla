------------------------- MODULE StdStreams_proofs -------------------------
(***************************************************************************)
(* What StdStreams promises for every size of the pipes and of the reads,  *)
(* however much is written, sent and read: DeliveredOnce, NothingLost and  *)
(* FlushExact, from the inductive invariant StreamDiscipline.              *)
(***************************************************************************)
EXTENDS StdStreams, SequenceTheorems, TLAPS

\* The constants, one by one.
LEMMA Bounds ==
  /\ OutCap \in Nat /\ OutCap > 0 /\ InCap \in Nat /\ InCap > 0 /\ Chunk \in Nat /\ Chunk > 0
  /\ MaxOut \in Nat /\ MaxSend \in Nat /\ MaxOps \in Nat
BY PipeAssumption, BoundAssumption

\* A sequence is its first n elements followed by the others.
LEMMA SplitSeq ==
  ASSUME NEW s \in Seq(Nat), NEW n \in 0..Len(s)
  PROVE  SubSeq(s, 1, n) \o SubSeq(s, n + 1, Len(s)) = s
<1>1. Len(s) \in Nat
  BY LenProperties
<1>2. /\ 1 \in 1 .. Len(s) + 1 /\ n \in 1 - 1 .. Len(s) /\ Len(s) \in n .. Len(s)
  BY <1>1
<1>3. SubSeq(s, 1, n) \o SubSeq(s, n + 1, Len(s)) = SubSeq(s, 1, Len(s))
  BY <1>2, ConcatAdjacentSubSeq
<1> QED
  BY <1>3, SubSeqFull

\* Appending to the second of two sequences is appending to both together.
LEMMA AppendToSecond ==
  ASSUME NEW s \in Seq(Nat), NEW t \in Seq(Nat), NEW e \in Nat
  PROVE  s \o Append(t, e) = Append(s \o t, e)
<1>1. <<e>> \in Seq(Nat) /\ s \o t \in Seq(Nat)
  BY ConcatProperties
<1>2. /\ Append(t, e) = t \o <<e>> /\ Append(s \o t, e) = (s \o t) \o <<e>>
  BY <1>1, AppendIsConcat
<1>3. (s \o t) \o <<e>> = s \o (t \o <<e>>)
  BY <1>1, ConcatAssociative
<1> QED
  BY <1>2, <1>3, Zenon

\* What is appended to a sequence leaves its first n elements as they were.
LEMMA PrefixOfConcat ==
  ASSUME NEW s \in Seq(Nat), NEW t \in Seq(Nat), NEW n \in 0..Len(s)
  PROVE  SubSeq(s \o t, 1, n) = SubSeq(s, 1, n)
<1>1. Len(s) \in Nat
  BY LenProperties
<1>2. CASE n = 0
  BY <1>2, SubSeqEmpty
<1>3. CASE n # 0
  <2>1. n \in 1..Len(s) /\ 1 \in 1..Len(s)
    BY <1>1, <1>3
  <2> QED
    BY <2>1, SubSeqOfConcat1
<1> QED
  BY <1>2, <1>3

\* Reading the pipe (Subprocess::read_stdout_impl) moves what is in it behind what the
\* buffer holds: the buffer only grows, and the bytes of both together stay the same.
LEMMA ReadMoves ==
  ASSUME Streams, ReadStdoutImpl
  PROVE  /\ stdout_buffer_' \in Seq(Nat) /\ out' = <<>>
         /\ Len(stdout_buffer_') \in Nat /\ Len(stdout_buffer_) \in Nat
         /\ Len(stdout_buffer_) <= Len(stdout_buffer_')
         /\ stdout_buffer_' \o out' = stdout_buffer_ \o out
         /\ \A n \in 0..Len(stdout_buffer_) :
              SubSeq(stdout_buffer_', 1, n) = SubSeq(stdout_buffer_, 1, n)
<1>1. out \in Seq(Nat) /\ stdout_buffer_ \in Seq(Nat)
  BY DEF Streams
<1>2. /\ stdout_buffer_' \in Seq(Nat)
      /\ Len(stdout_buffer_') = Len(stdout_buffer_) + Len(out)
      /\ Len(stdout_buffer_) \in Nat /\ Len(out) \in Nat
  BY <1>1, ConcatProperties, LenProperties DEF ReadStdoutImpl
<1>3. stdout_buffer_' \o out' = stdout_buffer_ \o out
  BY <1>1, <1>2, ConcatEmptySeq DEF ReadStdoutImpl
<1>4. \A n \in 0..Len(stdout_buffer_) :
         SubSeq(stdout_buffer_', 1, n) = SubSeq(stdout_buffer_, 1, n)
  BY <1>1, PrefixOfConcat DEF ReadStdoutImpl
<1> QED
  BY <1>2, <1>3, <1>4 DEF ReadStdoutImpl

----------------------------------------------------------------------------
(* Types, and what no step but a few does *)

\* Every step keeps the types of the control state.
LEMMA ControlKept ==
  ASSUME Control, [Next]_vars PROVE Control'
<1>1. life' \in {"stopped", "running", "zombie", "reaped"}
  BY DEF Control, Next, GraderStep, Operation, vars, pipeVars, ChildWrite, ChildRead,
         ChildStop, Run, RunReturns, RunTimesOut, GetStdout, GetFullStdout, SendStdin,
         SendSome, SendSigpipe, SendDone, FlushStdin, FlushPoll, FlushRead,
         RestartProgram, CloseDrain, KillClosed, Create
<1>2. pc' \in {"idle", "run", "call", "send", "sigpipe", "ppoll", "read", "restart",
               "close", "create", "done", "crashed"}
  BY DEF Control, Next, GraderStep, Operation, vars, pipeVars, ChildWrite, ChildRead,
         ChildStop, Run, RunReturns, RunTimesOut, GetStdout, GetFullStdout, SendStdin,
         SendSome, SendSigpipe, SendDone, FlushStdin, FlushPoll, FlushRead,
         RestartProgram, CloseDrain, KillClosed, Create, Begin
<1>3. writeFd' \in BOOLEAN /\ lossy' \in BOOLEAN
  <2>1. CASE CloseDrain
    BY <2>1 DEF CloseDrain, Control
  <2>2. CASE KillClosed \/ Create
    BY <2>2 DEF KillClosed, Create, Control
  <2>3. CASE ~ (CloseDrain \/ KillClosed \/ Create)
    <3>1. UNCHANGED <<writeFd, lossy>>
      BY <2>3 DEF Next, GraderStep, Operation, vars, pipeVars, ChildWrite, ChildRead,
                  ChildStop, Run, RunReturns, RunTimesOut, GetStdout, GetFullStdout,
                  SendStdin, SendSome, SendSigpipe, SendDone, FlushStdin, FlushPoll,
                  FlushRead, RestartProgram
    <3> QED
      BY <3>1 DEF Control
  <2> QED
    BY <2>1, <2>2, <2>3
<1> QED
  BY <1>1, <1>2, <1>3 DEF Control

\* Every step keeps the counts in their ranges: stdin's pipe never exceeds its capacity.
LEMMA CountsKept ==
  ASSUME Counts, [Next]_vars PROVE Counts'
<1> USE Bounds
<1>1. CASE UNCHANGED <<in, todo, flushed, unread, ops>>
  BY <1>1 DEF Counts
<1>2. CASE ChildRead \/ SendSome
  BY <1>2 DEF ChildRead, SendSome, stdinVars, Counts
<1>3. CASE SendStdin \/ FlushStdin
  BY <1>3 DEF SendStdin, FlushStdin, Begin, pipeVars, Counts
<1>4. CASE FlushRead \/ Create
  BY <1>4 DEF FlushRead, Create, stdinVars, Counts
<1>5. CASE Run \/ GetStdout \/ GetFullStdout \/ RestartProgram
  BY <1>5 DEF Run, GetStdout, GetFullStdout, RestartProgram, Begin, pipeVars, stdinVars,
              Counts
<1>6. CASE ~ (ChildRead \/ SendSome \/ SendStdin \/ FlushStdin \/ FlushRead \/ Create
               \/ Run \/ GetStdout \/ GetFullStdout \/ RestartProgram)
  BY <1>1, <1>6 DEF Next, GraderStep, Operation, vars, pipeVars, stdinVars, ChildWrite,
                    ChildStop, RunReturns, RunTimesOut, SendSigpipe, SendDone, FlushPoll,
                    CloseDrain, KillClosed
<1> QED
  BY <1>2, <1>3, <1>4, <1>5, <1>6

\* The stdout pipe and the buffer change only by a write of the child, by a read, and when
\* create() makes the pipe anew.
LEMMA StreamSteps ==
  ASSUME [Next]_vars
  PROVE  ChildWrite \/ GetStdout \/ GetFullStdout \/ CloseDrain \/ Create
           \/ UNCHANGED <<out, stdout_buffer_, stdout_cursor_, got, written>>
BY DEF Next, GraderStep, Operation, vars, pipeVars, bufferVars, ChildRead, ChildStop, Run,
       RunReturns, RunTimesOut, SendStdin, SendSome, SendSigpipe, SendDone, FlushStdin,
       FlushPoll, FlushRead, RestartProgram, KillClosed

\* Every step keeps the streams' types: stdout's pipe never exceeds its capacity.
LEMMA StreamsKept ==
  ASSUME Streams, [Next]_vars PROVE Streams'
<1> USE Bounds
<1>1. CASE UNCHANGED <<out, stdout_buffer_, stdout_cursor_, got, written>>
  BY <1>1 DEF Streams
<1>2. CASE ChildWrite
  <2>1. Len(written) \in Nat /\ Len(out) \in Nat
    BY LenProperties DEF Streams
  <2>2. /\ out' \in Seq(Nat) /\ Len(out') = Len(out) + 1
        /\ written' \in Seq(Nat)
    BY <1>2, <2>1, AppendProperties DEF ChildWrite, Streams
  <2> QED
    BY <1>2, <2>1, <2>2 DEF ChildWrite, Streams, bufferVars
<1>3. CASE GetStdout
  <2>1. stdout_buffer_' \in Seq(Nat) /\ Len(stdout_buffer_') \in Nat /\ out' = <<>>
    BY <1>3, ReadMoves DEF GetStdout
  <2>2. SubSeq(stdout_buffer_', stdout_cursor_ + 1, Len(stdout_buffer_')) \in Seq(Nat)
    <3>1. stdout_cursor_ + 1 \in Int
          /\ \A i \in stdout_cursor_ + 1 .. Len(stdout_buffer_') : stdout_buffer_'[i] \in Nat
      BY <2>1, ElementOfSeq DEF Streams
    <3> QED
      BY <2>1, <3>1, SubSeqProperties
  <2>3. got' \in Seq(Nat)
    BY <1>3, <2>2, ConcatProperties DEF GetStdout, Streams
  <2> QED
    BY <1>3, <2>1, <2>3 DEF GetStdout, Streams
<1>4. CASE GetFullStdout
  BY <1>4, ReadMoves DEF GetFullStdout, Streams
<1>5. CASE CloseDrain
  <2>1. CASE ReadStdoutImpl
    BY <1>5, <2>1, ReadMoves DEF CloseDrain, Streams
  <2>2. CASE UNCHANGED <<out, stdout_buffer_>>
    BY <1>5, <2>2 DEF CloseDrain, Streams
  <2> QED
    BY <1>5, <2>1, <2>2 DEF CloseDrain
<1>6. CASE Create
  BY <1>6 DEF Create, Streams, bufferVars
<1> QED
  BY <1>1, <1>2, <1>3, <1>4, <1>5, <1>6, StreamSteps

\* A new subprocess has well-typed streams.
LEMMA TypeInit == Init => TypeOK
<1>1. Init => Control
  BY DEF Init, Control
<1>2. Init => Counts
  BY Bounds DEF Init, Counts
<1>3. Init => Streams
  BY Bounds DEF Init, Streams
<1> QED
  BY <1>1, <1>2, <1>3 DEF TypeOK

\* Every state the grader and the child reach has the values the module says: the unread
\* bytes of a pipe never exceed its capacity.
THEOREM TypeCorrect == Spec => []TypeOK
<1>1. Init => TypeOK
  BY TypeInit
<1>2. TypeOK /\ [Next]_vars => TypeOK'
  BY ControlKept, CountsKept, StreamsKept DEF TypeOK
<1> QED
  BY <1>1, <1>2, PTL DEF Spec

----------------------------------------------------------------------------
(* StreamDiscipline is inductive *)

\* What get_stdout has returned stays the buffer up to the cursor.
LEMMA DeliveryKept ==
  ASSUME Streams, Delivery, [Next]_vars PROVE Delivery'
<1>1. CASE UNCHANGED <<stdout_buffer_, stdout_cursor_, got>>
  BY <1>1 DEF Delivery
<1>2. stdout_cursor_ \in 0..Len(stdout_buffer_) /\ Len(stdout_buffer_) \in Nat
  BY LenProperties DEF Streams, Delivery
<1>3. CASE GetStdout
  <2>1. /\ stdout_buffer_' \in Seq(Nat) /\ Len(stdout_buffer_') \in Nat
        /\ stdout_cursor_ \in 0..Len(stdout_buffer_')
        /\ SubSeq(stdout_buffer_', 1, stdout_cursor_) = SubSeq(stdout_buffer_, 1, stdout_cursor_)
    BY <1>2, <1>3, ReadMoves DEF GetStdout
  <2>2. got' = SubSeq(stdout_buffer_', 1, stdout_cursor_)
               \o SubSeq(stdout_buffer_', stdout_cursor_ + 1, Len(stdout_buffer_'))
    <3>1. got' = got \o SubSeq(stdout_buffer_', stdout_cursor_ + 1, Len(stdout_buffer_'))
      BY <1>3 DEF GetStdout
    <3> QED
      BY <2>1, <3>1, Zenon DEF Delivery
  <2>3. got' = stdout_buffer_'
    BY <2>1, <2>2, SplitSeq
  <2>4. SubSeq(stdout_buffer_', 1, Len(stdout_buffer_')) = stdout_buffer_'
    BY <2>1, SubSeqFull
  <2>5. stdout_cursor_' = Len(stdout_buffer_')
    BY <1>3 DEF GetStdout
  <2>6. stdout_cursor_' <= Len(stdout_buffer_')
    BY <2>1, <2>5
  <2>7. got' = SubSeq(stdout_buffer_', 1, stdout_cursor_')
    BY <2>3, <2>4, <2>5, Zenon
  <2> QED
    BY <2>6, <2>7, Zenon DEF Delivery
<1>4. CASE ReadStdoutImpl /\ UNCHANGED <<stdout_cursor_, got>>
  BY <1>2, <1>4, ReadMoves DEF Delivery
<1> QED
  BY <1>1, <1>3, <1>4, StreamSteps
  DEF ChildWrite, GetFullStdout, CloseDrain, Create, bufferVars

\* What kill() has drained stays empty until create() makes new pipes.
LEMMA DrainedKept ==
  ASSUME Control, Drained, [Next]_vars PROVE Drained'
<1>1. CASE CloseDrain
  BY <1>1 DEF CloseDrain, ReadStdoutImpl, Control, Drained
<1>2. CASE KillClosed
  BY <1>2 DEF KillClosed, Drained
<1>3. CASE ChildWrite
  BY <1>3 DEF ChildWrite, Drained
<1>4. CASE pc' \notin {"close", "create"}
  BY <1>4 DEF Drained
<1>5. CASE UNCHANGED <<life, pc, out, lossy>>
  BY <1>5 DEF Drained
<1>6. CASE ChildStop
  BY <1>6 DEF ChildStop, pipeVars, Drained
<1> QED
  BY <1>1, <1>2, <1>3, <1>4, <1>5, <1>6
  DEF Next, GraderStep, Operation, vars, pipeVars, Begin, ChildRead, Run, RunReturns,
      RunTimesOut, GetStdout, GetFullStdout, SendStdin, SendSome, SendSigpipe, SendDone,
      FlushStdin, FlushPoll, FlushRead, RestartProgram, Create

\* No step loses bytes as long as only stopped children are replaced.
LEMMA NothingLostKept ==
  ASSUME Streams, Drained, NothingLost, [Next]_vars PROVE NothingLost'
<1>1. lossy => lossy'
  BY DEF Next, GraderStep, Operation, vars, ChildWrite, ChildRead, ChildStop, Run,
         RunReturns, RunTimesOut, GetStdout, GetFullStdout, SendStdin, SendSome,
         SendSigpipe, SendDone, FlushStdin, FlushPoll, FlushRead, RestartProgram,
         CloseDrain, KillClosed, Create
<1>2. CASE UNCHANGED <<stdout_buffer_, out, written>>
  BY <1>1, <1>2 DEF NothingLost
<1>3. CASE ChildWrite
  <2>1. /\ stdout_buffer_' = stdout_buffer_
        /\ out' = Append(out, Len(written) + 1) /\ written' = Append(written, Len(written) + 1)
    BY <1>3 DEF ChildWrite, bufferVars
  <2>2. Len(written) + 1 \in Nat /\ stdout_buffer_ \in Seq(Nat) /\ out \in Seq(Nat)
    BY LenProperties DEF Streams
  <2>3. stdout_buffer_' \o out' = Append(stdout_buffer_ \o out, Len(written) + 1)
    BY <2>1, <2>2, AppendToSecond
  <2> QED
    BY <1>1, <2>1, <2>3, Zenon DEF NothingLost
<1>4. CASE ReadStdoutImpl /\ UNCHANGED written
  <2>1. stdout_buffer_' \o out' = stdout_buffer_ \o out
    BY <1>4, ReadMoves
  <2> QED
    BY <1>1, <1>4, <2>1 DEF NothingLost
<1>5. CASE Create
  BY <1>5 DEF Create, Drained, NothingLost, bufferVars
<1> QED
  BY <1>2, <1>3, <1>4, <1>5, StreamSteps
  DEF GetStdout, GetFullStdout, CloseDrain

\* Each turn of flush_stdin's loop accounts for the bytes it takes.
LEMMA FlushingKept ==
  ASSUME Control, Counts, Flushing, FlushExact, [Next]_vars
  PROVE  Flushing' /\ FlushExact'
<1> USE Bounds
<1>1. CASE UNCHANGED <<life, in, writeFd, pc, flushed, unread>>
  BY <1>1 DEF Flushing, FlushExact
<1>2. CASE ChildRead
  BY <1>2 DEF ChildRead, Control, stdinVars, Flushing, FlushExact
<1>3. CASE ChildStop
  BY <1>3 DEF ChildStop, pipeVars, stdinVars, Flushing, FlushExact
<1>4. CASE Run \/ RunReturns \/ RunTimesOut
  BY <1>4 DEF Run, RunReturns, RunTimesOut, Begin, pipeVars, Flushing, FlushExact
<1>5. CASE GetStdout \/ GetFullStdout \/ SendStdin \/ RestartProgram
  BY <1>5 DEF GetStdout, GetFullStdout, SendStdin, RestartProgram, Begin, pipeVars, Flushing,
              FlushExact
<1>6. CASE SendSome \/ SendSigpipe \/ SendDone
  BY <1>6 DEF SendSome, SendSigpipe, SendDone, pipeVars, stdinVars, Flushing, FlushExact
<1>7. CASE FlushStdin
  BY <1>7 DEF FlushStdin, Begin, pipeVars, Counts, Flushing, FlushExact
<1>8. CASE FlushPoll
  BY <1>8 DEF FlushPoll, pipeVars, stdinVars, Flushing, FlushExact
<1>9. CASE FlushRead
  BY <1>9 DEF FlushRead, Counts, Flushing, FlushExact
<1>10. CASE CloseDrain \/ KillClosed \/ Create
  BY <1>10 DEF CloseDrain, KillClosed, Create, Flushing, FlushExact
<1> QED
  BY <1>1, <1>2, <1>3, <1>4, <1>5, <1>6, <1>7, <1>8, <1>9, <1>10
  DEF Next, GraderStep, Operation, vars, pipeVars, stdinVars, ChildWrite

\* Whatever the programs and the test body do, the buffer, the pipes and the thread's place
\* fit together as StreamDiscipline says.
THEOREM DisciplineInvariant == Spec => []StreamDiscipline
<1>1. Init => StreamDiscipline
  <2>1. Init => Delivery
    <3> SUFFICES ASSUME Init PROVE Delivery
      OBVIOUS
    <3>1. SubSeq(<<>>, 1, 0) = <<>>
      BY SubSeqEmpty
    <3> QED
      BY <3>1 DEF Init, Delivery
  <2>2. Init => NothingLost
    <3>1. <<>> \o <<>> = <<>>
      BY ConcatEmptySeq
    <3> QED
      BY <3>1 DEF Init, NothingLost
  <2>3. Init => Drained /\ Flushing /\ FlushExact
    BY DEF Init, Drained, Flushing, FlushExact
  <2> QED
    BY <2>1, <2>2, <2>3, TypeInit DEF StreamDiscipline
<1>2. StreamDiscipline /\ [Next]_vars => StreamDiscipline'
  BY ControlKept, CountsKept, StreamsKept, DeliveryKept, NothingLostKept, DrainedKept,
     FlushingKept DEF StreamDiscipline, TypeOK
<1> QED
  BY <1>1, <1>2, PTL DEF Spec

----------------------------------------------------------------------------
(* What follows *)

\* All calls of get_stdout together return each byte of the buffer once and in order,
\* however they are mixed with get_full_stdout and restarts.
THEOREM DeliveredOnceCorrect == Spec => []DeliveredOnce
<1>1. StreamDiscipline => DeliveredOnce
  <2> SUFFICES ASSUME StreamDiscipline PROVE DeliveredOnce
    OBVIOUS
  <2>1. stdout_buffer_ \in Seq(Nat) /\ stdout_cursor_ \in 0..Len(stdout_buffer_)
    BY LenProperties DEF StreamDiscipline, TypeOK, Streams, Delivery
  <2> QED
    BY <2>1, SplitSeq DEF StreamDiscipline, Delivery, DeliveredOnce
<1> QED
  BY <1>1, DisciplineInvariant, PTL

\* As long as restart_program only replaces stopped children, what the grader has buffered
\* and what is still in the pipe is everything the programs wrote, in order.
THEOREM NothingLostCorrect == Spec => []NothingLost
<1>1. StreamDiscipline => NothingLost
  BY DEF StreamDiscipline
<1> QED
  BY <1>1, DisciplineInvariant, PTL

\* flush_stdin accounts for every byte that was unread when it was called.
THEOREM FlushExactCorrect == Spec => []FlushExact
<1>1. StreamDiscipline => FlushExact
  BY DEF StreamDiscipline
<1> QED
  BY <1>1, DisciplineInvariant, PTL

\* Between two polls of flush_stdin bytes are read: the safety half of FlushEnds, which
\* needs the grader's end of the pipe to be open.
THEOREM FlushProgress == Spec => [][FlushRead => in' < in]_vars
<1>1. StreamDiscipline /\ [Next]_vars => [FlushRead => in' < in]_vars
  BY Bounds DEF StreamDiscipline, TypeOK, Counts, Flushing, FlushRead
<1> QED
  BY <1>1, DisciplineInvariant, PTL DEF Spec
=============================================================================
