----------------------------- MODULE Registers -----------------------------
(***************************************************************************)
(* RegistersState: a copy of a program's registers, for x86_64 and for     *)
(* aarch64.  arch is SYSTEM_PROCESSOR.                                     *)
(*                                                                         *)
(* A register is cut where views of it end, after 16, 32, 64 and 128 bits. *)
(* Each piece holds zero or something else, so a register's content is the *)
(* set of its pieces that are not zero.  The stack pointer is a number of  *)
(* 8-byte words from where it was when the process started, and the flags  *)
(* are the numbers of the bits that are set.                               *)
(***************************************************************************)
EXTENDS Integers, Sequences, FiniteSets, TLC

Arches == {"x86_64", "aarch64"}
X(n) == "x" \o ToString(n)
Q(n) == "q" \o ToString(n)

\* REGS_tuple_set
X64General == {"r15", "r14", "r13", "r12", "rbp", "rbx", "r11", "r10", "r9", "r8",
               "rax", "rcx", "rdx", "rsi", "rdi"}
\* regs, fpsr and fpcr
Aarch64General == {X(n) : n \in 0..30} \cup {"fpsr", "fpcr"}
\* vregs; there are none for x86_64
Aarch64Vector == {Q(n) : n \in 0..31}
Aarch64All == Aarch64General \cup Aarch64Vector
Names(arch) == IF arch = "x86_64" THEN X64General ELSE Aarch64All

\* Names are different strings, for the prover, to which ToString(n) is any value.
ASSUME NamesApart ==
  /\ \A m, n \in 0..31 : X(m) # Q(n) /\ (X(m) = X(n) => m = n) /\ (Q(m) = Q(n) => m = n)
  /\ Aarch64All \cap (X64General \cup {"sp", "pc", "flags"}) = {}
Pieces(r) == IF r \in Aarch64Vector THEN {16, 32, 64, 128} ELSE {16, 32, 64}

\* as<T>: the mask is a u64, so no view is wider.
As(content, width) == {p \in content : p <= width /\ p <= 64}


----------------------------------------------------------------------------
(* Flags *)

Flag(arch) ==
  IF arch = "x86_64" THEN [carry |-> 0, zero |-> 6, negative |-> 7, overflow |-> 11]
                     ELSE [carry |-> 29, zero |-> 30, negative |-> 31, overflow |-> 28]
FlagNames == {"carry", "zero", "negative", "overflow"}
FlagBits(arch) == {Flag(arch)[f] : f \in FlagNames}

\* carry_set and so on; n, z, c, v of a pstate are the same functions.
IsSet(arch, flags, f) == Flag(arch)[f] \in flags

\* FlagsRegister's formatter, get_short_flags_str
Letter(arch) == [carry |-> "C", zero |-> "Z", overflow |-> "O",
                 negative |-> IF arch = "aarch64" THEN "V" ELSE "S"]
ShortFlags(arch, flags) == {Letter(arch)[f] : f \in {f \in FlagNames : IsSet(arch, flags, f)}}

----------------------------------------------------------------------------
(* valid_pcs *)

\* The registers compared: BOOST_PP_REPEAT_FROM_TO leaves out its last number.
X64Checked == {"r12", "r13", "r14", "rbx", "rbp"}
Aarch64Checked == {X(n) : n \in 19..29} \cup {Q(n) : n \in 8..31}

\* Mutant of Checked: without the stack pointer.
CheckedNoSp(arch) == IF arch = "x86_64" THEN X64Checked ELSE Aarch64Checked

Checked(arch) == {"sp"} \cup IF arch = "x86_64" THEN X64Checked ELSE Aarch64Checked

\* A vector register is compared as its d view.
ValidPcs(arch, before, after) ==
  {r \in Checked(arch) :
     IF r = "sp" THEN before.sp # after.sp ELSE As(before.regs[r], 64) # As(after.regs[r], 64)}

----------------------------------------------------------------------------
(* RegistersState's formatter: what is printed under each name *)

Address(pc) == <<"code", pc>>
StackAddress(sp) == <<"stack", sp>>

\* rip's value is printed under the name of rsp, too.
DumpX64(s) ==
  [label \in X64General \cup {"pc", "sp", "flags"} |->
     CASE label = "flags" -> ShortFlags("x86_64", s.flags)
       [] label \in {"pc", "sp"} -> Address(s.pc)
       [] OTHER -> s.regs[label]]

\* Vector registers are printed as doubles unless the format is the debug one.
DumpAarch64(s, is_debug_format) ==
  [label \in Aarch64All \cup {"pc", "sp", "flags"} |->
     CASE label = "flags" -> ShortFlags("aarch64", s.flags)
       [] label = "pc" -> Address(s.pc)
       [] label = "sp" -> StackAddress(s.sp)
       [] label \in Aarch64Vector /\ ~is_debug_format -> As(s.regs[label], 64)
       [] OTHER -> s.regs[label]]

Dump(arch, s, is_debug_format) ==
  IF arch = "x86_64" THEN DumpX64(s) ELSE DumpAarch64(s, is_debug_format)
=============================================================================
