---------------------------- MODULE ChildMemory ----------------------------
(***************************************************************************)
(* The page the tracer maps into a program (Tracer::begin) and what the    *)
(* grader keeps in it: at the bottom the return breakpoint and the by-     *)
(* value arguments of a function call, from the top downwards the buffers  *)
(* a test creates.  All of it is written and read word-wise with ptrace,   *)
(* by PtraceMemoryIO.  The child is stopped whenever the grader touches    *)
(* its memory (see TestSession), so a block is written in one step.        *)
(*                                                                         *)
(* Addresses are offsets from mmaped_address_; the constants stand for the *)
(* numbers of the code: 8, 4096, 32 and 32.                                *)
(***************************************************************************)
EXTENDS Integers, Sequences, FiniteSets

CONSTANTS
  Word,             \* sizeof(long): what one ptrace request moves
  MMAP_LENGTH,
  Padding,          \* between the return breakpoint and the first argument
  OFFSET_ADDITION,  \* of Program::alloc_mem
  Sizes,            \* sizes of buffers and of by-value arguments
  Bytes,            \* values of a byte, 0 among them
  MaxOps            \* bound: operations the test body performs

ASSUME WordAssumption == Word \in Nat \ {0} /\ MMAP_LENGTH \in Nat /\ MMAP_LENGTH % Word = 0
ASSUME PageAssumption == {Padding, OFFSET_ADDITION, MaxOps} \subseteq Nat
ASSUME PaddingAssumption == Padding >= Word - 1
\* 4096 - 3072 >= 32 + 8: the lowest buffer alloc_mem hands out is above the breakpoint.
ASSUME RoomAssumption == MMAP_LENGTH - (MMAP_LENGTH * 3) \div 4 >= OFFSET_ADDITION + Word
ASSUME SizesAssumption == Sizes \subseteq Nat \ {0}
ASSUME BytesAssumption == Bytes \subseteq Nat /\ 0 \in Bytes

Trap == 204                           \* int3; the rest of the breakpoint's word is nops
Nop == 144
Page == 0..MMAP_LENGTH-1

VARIABLES
  mem,              \* the mapped page
  alloced_mem_,     \* Program's count of allocated bytes, over all processes
  buffers,          \* AsmBuffers of this process; val is what they were set to last
  args,             \* by-value arguments of the call in progress
  pc,               \* "idle", "call" while a function runs, "crashed"
  ops

vars == <<mem, alloced_mem_, buffers, args, pc, ops>>

Unknown == -1
\* The error of a failing ptrace request, told from bytes by a value no byte has.
SyscallFailure == <<Unknown>>
Span(o) == o.addr..(o.addr + o.len - 1)
Filled(n, b) == [i \in 1..n |-> b]

----------------------------------------------------------------------------
(* PtraceMemoryIO *)

\* Whether the requests for n bytes succeed.  A word is mapped if one of its bytes is, as the
\* page begins and ends with one; nothing is taken to be mapped beside it.
Mapped(address, n) == address..(address + n - 1) \subseteq Page

\* Mutant of WriteBlock: a short last word is written at its own address.
WriteBlockForward(m, address, data) ==
  [a \in DOMAIN m |->
     IF a \in address..(address + Len(data) - 1) THEN data[a - address + 1]
     ELSE IF a >= address + Len(data) /\ (a - address) \div Word = (Len(data) - 1) \div Word
          THEN 0 ELSE m[a]]

\* A turn of write_block_impl's loop: a word, or a last, shorter piece, which is written as
\* the word that ends with it, whose first bytes are those written just before, or zeros
\* when there were none.
WriteWord(s, address, data) ==
  LET left == Len(data) - s.done
      todo == IF left < Word THEN left ELSE Word
      kept == Word - todo
      at == address + s.done - kept
      word == [i \in 1..Word |-> IF i <= kept THEN s.word[i + todo] ELSE data[s.done + i - kept]]
  IN [mem |-> [a \in DOMAIN s.mem |-> IF a \in at..(at + Word - 1) THEN word[a - at + 1]
                                      ELSE s.mem[a]],
      word |-> word, done |-> s.done + todo]

\* The loop's state after each turn; at most Len(data) turns do anything.
WriteTurns(m, address, data) ==
  LET turn[k \in 0..Len(data)] ==
        IF k = 0 THEN [mem |-> m, word |-> Filled(Word, 0), done |-> 0]
        ELSE LET s == turn[k - 1]
             IN  IF s.done = Len(data) THEN s ELSE WriteWord(s, address, data)
  IN turn

\* A write that is not Mapped fails with the word that crosses the page's end, whose first
\* bytes are written.
WriteBlock(m, address, data) == WriteTurns(m, address, data)[Len(data)].mem

Aligned(address) == address - (address % Word)

\* Mutant of ReadBlock: the first piece is a whole word.
ReadBlockAligned(m, address, n) ==
  [i \in 1..n |-> m[Aligned(address) + i - 1]]

\* A turn of read_block_impl's loop: what the next aligned word has of the range.
ReadWord(m, address, n, bytes) ==
  LET at == address + Len(bytes)
      skip == at - Aligned(at)
      left == n - Len(bytes)
      todo == IF left < Word - skip THEN left ELSE Word - skip
      word == [i \in 1..Word |-> m[Aligned(at) + i - 1]]
  IN bytes \o SubSeq(word, skip + 1, skip + todo)

ReadTurns(m, address, n) ==
  LET turn[k \in 0..n] ==
        IF k = 0 THEN <<>>
        ELSE LET bytes == turn[k - 1]
             IN  IF Len(bytes) = n THEN bytes ELSE ReadWord(m, address, n, bytes)
  IN turn

\* read_block_impl: one aligned word at a time, the first and the last cut to fit; the error
\* of a word is that of the block.
ReadBlock(m, address, n) ==
  IF Mapped(address, n) THEN ReadTurns(m, address, n)[n] ELSE SyscallFailure

\* A turn of MemoryIOBase::read_until, as a std::string is read: a word, up to a zero.
ReadUntilZero(m, address, s) ==
  LET at == address + Len(s.result)
      block == ReadBlock(m, at, Word)
      zeros == {i \in 1..Word : block[i] = 0}
  IN IF ~Mapped(at, Word) THEN [result |-> block, ended |-> TRUE]
     ELSE IF zeros = {} THEN [s EXCEPT !.result = @ \o block]
     ELSE [result |-> s.result \o SubSeq(block, 1, (CHOOSE i \in zeros : \A j \in zeros : i <= j) - 1),
           ended |-> TRUE]

\* The loop's state after each turn; it ends within the page or at its end.
StringTurns(m, address) ==
  LET turn[k \in 0..MMAP_LENGTH + 1] ==
        IF k = 0 THEN [result |-> <<>>, ended |-> FALSE]
        ELSE LET s == turn[k - 1]
             IN  IF s.ended THEN s ELSE ReadUntilZero(m, address, s)
  IN turn

ReadString(m, address) == StringTurns(m, address)[MMAP_LENGTH + 1].result

----------------------------------------------------------------------------
\* MAP_ANONYMOUS memory.
FreshPage == [a \in Page |-> 0]

Init ==
  /\ mem = FreshPage /\ alloced_mem_ = 0
  /\ buffers = <<>> /\ args = <<>> /\ pc = "idle" /\ ops = 0

Begin == pc = "idle" /\ ops < MaxOps /\ ops' = ops + 1

\* Mutant of CreateBuffer: the offset is taken before the allocation is counted.
CreateBufferLate(n) ==
  /\ Begin
  /\ alloced_mem_' = alloced_mem_ + n
  /\ buffers' = Append(buffers, [addr |-> MMAP_LENGTH - (alloced_mem_ + OFFSET_ADDITION),
                                len |-> n, val |-> Unknown])
  /\ UNCHANGED <<mem, args, pc>>

\* TestContext::create_buffer, Program::alloc_mem; its ASSERT fails near the limit.
CreateBuffer(n) ==
  /\ Begin
  /\ alloced_mem_' = alloced_mem_ + n
  /\ IF alloced_mem_' < (MMAP_LENGTH * 3) \div 4
     THEN /\ buffers' = Append(buffers,
               [addr |-> MMAP_LENGTH - (alloced_mem_' + OFFSET_ADDITION), len |-> n,
                val |-> Unknown])
          /\ UNCHANGED pc
     ELSE pc' = "crashed" /\ UNCHANGED buffers
  /\ UNCHANGED <<mem, args>>

\* AsmData::set_value, zero, AsmBuffer::fill.
SetValue(i, b) ==
  /\ Begin
  /\ mem' = WriteBlock(mem, buffers[i].addr, Filled(buffers[i].len, b))
  /\ buffers' = [buffers EXCEPT ![i].val = b]
  /\ UNCHANGED <<alloced_mem_, args, pc>>

\* Mutant of ReturnSpace: no room for what a short argument's write spoils.
NoPadding == Word

\* setup_function_return leaves mmaped_used_amt_ past the breakpoint and the padding.
ReturnSpace == Word + Padding

Breakpoint == [i \in 1..Word |-> IF i = 1 THEN Trap ELSE Nop]

\* mmaped_used_amt_ after each of the arguments, which lie one after another, except that
\* the place of one that could not be written is not used up.
UsedAmt(sizes) ==
  LET used[k \in 0..Len(sizes)] ==
        IF k = 0 THEN ReturnSpace
        ELSE used[k - 1] + IF Mapped(used[k - 1], sizes[k]) THEN sizes[k] ELSE 0
  IN  used

\* The page after setup_function_return and after each of the arguments, in the order in
\* which the compiler evaluates the operands of make_tuple.
CallWrites(m, sizes, b) ==
  LET put[k \in 0..Len(sizes)] ==
        IF k = 0 THEN WriteBlock(m, 0, Breakpoint)
        ELSE WriteBlock(put[k - 1], UsedAmt(sizes)[k - 1], Filled(sizes[k], b))
  IN  put

\* setup_function_call, which fails when an argument could not be written; nothing else
\* limits the arguments (tracer.hpp:262).
CallFunction(sizes, b) ==
  /\ Begin
  /\ mem' = CallWrites(mem, sizes, b)[Len(sizes)]
  /\ IF \A k \in 1..Len(sizes) : Mapped(UsedAmt(sizes)[k - 1], sizes[k])
     THEN /\ pc' = "call"
          /\ args' = [k \in 1..Len(sizes) |->
                        [addr |-> UsedAmt(sizes)[k - 1], len |-> sizes[k], val |-> b]]
     ELSE UNCHANGED <<pc, args>>
  /\ UNCHANGED <<alloced_mem_, buffers>>

\* The function may fill buffers whose addresses it was given, and it returns.
ProgramWrites(i, b) ==
  /\ pc = "call" /\ buffers[i].val # b
  /\ mem' = [a \in Page |-> IF a \in Span(buffers[i]) THEN b ELSE mem[a]]
  /\ buffers' = [buffers EXCEPT ![i].val = b]
  /\ UNCHANGED <<alloced_mem_, args, pc, ops>>

FunctionReturns ==
  /\ pc = "call"
  /\ pc' = "idle" /\ args' = <<>>
  /\ UNCHANGED <<mem, alloced_mem_, buffers, ops>>

\* A new process, a new page; alloced_mem_ goes on, and old buffers are invalid.
RestartProgram ==
  /\ Begin
  /\ mem' = FreshPage /\ buffers' = <<>>
  /\ UNCHANGED <<alloced_mem_, args, pc>>

ArgLists == UNION {[1..k -> Sizes] : k \in 0..2}

Next ==
  \/ \E n \in Sizes : CreateBuffer(n)
  \/ \E i \in DOMAIN buffers, b \in Bytes : SetValue(i, b) \/ ProgramWrites(i, b)
  \/ \E sizes \in ArgLists, b \in Bytes \ {0} : CallFunction(sizes, b)
  \/ FunctionReturns
  \/ RestartProgram

Spec == Init /\ [][Next]_vars

----------------------------------------------------------------------------
\* What the arguments of a call may use without reaching the lowest possible buffer.
ArgRoom == 0..(MMAP_LENGTH - (MMAP_LENGTH * 3) \div 4 - OFFSET_ADDITION)

\* Buffers never overlap each other, nor the return breakpoint, nor the arguments of a
\* call that fit below the allocation limit; across restarts too (program.cpp:102-113).
BuffersApart ==
  /\ \A i, j \in DOMAIN buffers : i # j => Span(buffers[i]) \cap Span(buffers[j]) = {}
  /\ \A i \in DOMAIN buffers :
       /\ Span(buffers[i]) \subseteq Page \ 0..Word-1
       /\ \A k \in DOMAIN args : Span(args[k]) \subseteq ArgRoom =>
            Span(buffers[i]) \cap Span(args[k]) = {}

\* Whatever the sizes of the arguments, the breakpoint the function returns to is still
\* there when the program runs: the padding outweighs what a short write spoils
\* (tracer.cpp:455-456).
BreakpointStands ==
  pc = "call" => \A i \in 1..Word : mem[i - 1] = Breakpoint[i]

\* Setting a buffer puts its own bytes in place and leaves every byte above them.  Below,
\* what is shorter than a word makes the bytes zero that would fill a word up to it, another
\* buffer's or not: ptrace_memory_io.cpp:58-59 speaks of bytes "that we need to write AGAIN",
\* but before a first word that is short there is nothing to write again but zeros (:62).
WriteFrame ==
  [][\A i \in DOMAIN buffers, b \in Bytes : SetValue(i, b) =>
       \A a \in Page :
         mem'[a] = IF a \in Span(buffers[i]) THEN b
                   ELSE IF /\ buffers[i].len < Word
                           /\ a \in (buffers[i].addr + buffers[i].len - Word)..(buffers[i].addr - 1)
                   THEN 0 ELSE mem[a]]_vars

\* read_block returns the bytes of its range, however it is aligned.  A string read is what
\* lies before its terminator, or an error, and that only when there is no terminator before
\* the page's last word: what alloc_mem leaves free there is zero until the arguments of a
\* call reach it.
BlocksExact ==
  \A i \in DOMAIN buffers :
    LET o == buffers[i]
    IN  ReadBlock(mem, o.addr, o.len) = [k \in 1..o.len |-> mem[o.addr + k - 1]]

StringsExact ==
  \A i \in DOMAIN buffers :
    LET o == buffers[i]
        s == ReadString(mem, o.addr)
    IN  \/ /\ o.addr + Len(s) \in Page /\ mem[o.addr + Len(s)] = 0
           /\ \A k \in DOMAIN s : s[k] = mem[o.addr + k - 1] /\ s[k] # 0
        \/ s = SyscallFailure /\ \A a \in o.addr..(MMAP_LENGTH - Word) : mem[a] # 0

ReadsExact == BlocksExact /\ StringsExact

----------------------------------------------------------------------------
(* The inductive invariant behind BuffersApart, BreakpointStands and ReadsExact. *)

TypeOK ==
  /\ mem \in [Page -> Int] /\ alloced_mem_ \in Nat /\ ops \in Nat
  /\ buffers \in Seq([addr : Int, len : Sizes, val : Int])
  /\ pc \in {"idle", "call", "crashed"}

\* Buffers lie below the page's top, above the limit of alloc_mem and above what is still
\* to be allocated, each below the ones before it.
Layout ==
  /\ \A i \in DOMAIN buffers :
       /\ buffers[i].addr + buffers[i].len <= MMAP_LENGTH - OFFSET_ADDITION
       /\ buffers[i].addr > MMAP_LENGTH - (MMAP_LENGTH * 3) \div 4 - OFFSET_ADDITION
       /\ buffers[i].addr >= MMAP_LENGTH - alloced_mem_ - OFFSET_ADDITION
  /\ \A i, j \in DOMAIN buffers :
       i < j => buffers[j].addr + buffers[j].len <= buffers[i].addr

MemoryDiscipline == TypeOK /\ Layout /\ BreakpointStands

=============================================================================
