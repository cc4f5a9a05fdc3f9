----------------------------- MODULE Inspection -----------------------------
(***************************************************************************)
(* A test that calls functions of a program and looks at its registers:    *)
(* find_symbol, find_function and AsmFunction's calls, with results of     *)
(* earlier calls as arguments, get_registers, copies of its snapshots, and *)
(* valid_pcs.                                                              *)
(*                                                                         *)
(* The program is stopped whenever the test acts, as TestSession shows, so *)
(* a call is one step: the tracer's setup, and what the callee did until   *)
(* it returned, raised a signal or ended the process.                      *)
(***************************************************************************)
EXTENDS Registers, Symbols

CONSTANTS
  SectionLists,  \* what the file of a program may hold
  Touched,       \* the registers a callee may change, and in which piece
  FlagSets,      \* the flags it may leave set
  Moves,         \* by how many words it may leave the stack pointer moved
  MaxArgs,       \* bound: arguments of a call
  MaxOps         \* bound: calls and reads of a test

ASSUME TouchedAssumption ==
  /\ Touched \subseteq (X64General \cup Aarch64All) \X {16, 32, 64, 128}
  /\ \A c \in Touched : c[2] \in Pieces(c[1])
ASSUME FlagSetsAssumption == FlagSets \subseteq SUBSET FlagNames
ASSUME MovesAssumption == Moves \subseteq Int
\* There are registers for six arguments (tracer.hpp:178, 226).
ASSUME InspectionBoundsAssumption == MaxArgs \in 0..6 /\ MaxOps \in Nat

VARIABLES
  arch,       \* SYSTEM_PROCESSOR
  sections,   \* of the program's file
  table,      \* SymbolTable::symbols_
  status,
  child,      \* the program's registers
  results,    \* AsmFunctionResults and AsmSymbolResults the test holds, oldest first
  snaps,      \* the test's two RegistersStates
  seen,       \* history: the program's registers when a snapshot's data was taken, and
              \* how many operations were done by then
  calls,      \* history: what happened in each call that reached the program
  disturbed   \* history: this process's code has left its stack pointer where no
              \* convention would, or one of its calls was cut off
vars == <<arch, sections, table, status, child, results, snaps, seen, calls, disturbed>>

None == "None"
Slots == {"before", "after"}
Gone == "gone"        \* an object that no longer exists

\* A process that has just started: the kernel aligns the stack pointer to 16 bytes.
FreshChild == [regs |-> [r \in Names(arch) |-> {}], sp |-> 0, pc |-> "start", flags |-> {}]

Init ==
  /\ arch \in Arches /\ sections \in SectionLists
  /\ table = <<>> /\ status = "loading"
  /\ child = FreshChild
  /\ results = <<>> /\ calls = <<>> /\ disturbed = FALSE
  /\ snaps = [s \in {} |-> {}] /\ seen = [s \in {} |-> {}]

\* Program::Program.  An empty table fails SymbolTable's postcondition.
LoadProgram ==
  /\ status = "loading"
  /\ table' = SymbolTable(GetSymbols(sections))
  /\ status' = IF table' = <<>> THEN "terminated" ELSE "testing"
  /\ UNCHANGED <<arch, sections, child, results, snaps, seen, calls, disturbed>>

----------------------------------------------------------------------------
(* AsmSymbol, AsmFunction *)

\* An exception that the test does not catch takes its objects and the program with it.
Unwind(outcome) ==
  /\ status' = outcome /\ child' = FreshChild
  /\ results' = <<>> /\ calls' = <<>> /\ disturbed' = FALSE
  /\ snaps' = [s \in {} |-> {}] /\ seen' = [s \in {} |-> {}]
  /\ UNCHANGED <<arch, sections, table>>

Result(needs, err, val) == [needs |-> needs, err |-> err, val |-> val]

ArgRegisters == IF arch = "x86_64" THEN <<"rdi", "rsi", "rdx", "rcx", "r8", "r9">>
                                   ELSE [i \in 1..6 |-> X(i - 1)]
ReturnRegister == IF arch = "x86_64" THEN "rax" ELSE X(0)

\* An argument is a plain value, 0, or a result.
Needs(args) == {args[i] : i \in DOMAIN args} \ {0}
Unwrapped(arg) == IF arg = 0 THEN {16} ELSE results[arg].val

\* Mutant of ReturnSetup: the return address overwrites the top of the stack.
ReturnSetupNoPush(c) ==
  IF arch = "x86_64" THEN c ELSE [c EXCEPT !.regs[X(30)] = {32, 64}]

\* setup_function_return: where the callee returns to
ReturnSetup(c) ==
  IF arch = "x86_64" THEN [c EXCEPT !.sp = @ - 1] ELSE [c EXCEPT !.regs[X(30)] = {32, 64}]

\* setup_function_call, jump_to: the registers the callee starts with
Entry(args) ==
  LET ready == ReturnSetup(child)
      used  == [i \in DOMAIN args |-> ArgRegisters[i]]
  IN  [ready EXCEPT !.pc = "inside",
         !.regs = [r \in DOMAIN @ |->
                     IF r \in ToSet(used) THEN Unwrapped(args[CHOOSE i \in DOMAIN args : used[i] = r])
                                          ELSE @[r]]]
Popped == IF arch = "x86_64" THEN 1 ELSE 0

\* Mutant of Failure: an argument without a value is passed as it is.
FailureUnwrapped(name, args) == IF Find(table, name) = {} THEN "UnresolvedSymbol" ELSE None

\* AsmFunction::operator() before the call: the function's own resolution comes first.
Failure(name, args) ==
  CASE Find(table, name) = {} -> "UnresolvedSymbol"
    [] \E k \in Needs(args) : results[k].err # None -> "BadArgument"
    [] OTHER -> None

Room == status = "testing" /\ Len(results) < MaxOps

CallRefused(name, args) ==
  /\ Room /\ Failure(name, args) # None
  /\ results' = Append(results, Result(Needs(args), Failure(name, args), {}))
  /\ UNCHANGED <<arch, sections, table, status, child, snaps, seen, calls, disturbed>>

Toggled(content, p) == IF p \in content THEN content \ {p} ELSE content \cup {p}

\* What a callee leaves behind that returns: one piece of one register may differ.
Left(entry, changed, moved, flags) ==
  [entry EXCEPT !.regs = [r \in DOMAIN @ |-> IF \E p \in Pieces(r) : <<r, p>> \in changed
                                             THEN Toggled(@[r], CHOOSE p \in Pieces(r) : <<r, p>> \in changed)
                                             ELSE @[r]],
                !.sp = @ + Popped + moved, !.pc = "breakpoint",
                !.flags = {Flag(arch)[f] : f \in flags}]
Changes == {{}} \cup {{c} : c \in {c \in Touched : c[1] \in Names(arch)}}

Called(needs, err, val, entry, changed, moved) ==
  /\ results' = Append(results, Result(needs, err, val))
  /\ calls' = Append(calls, [result |-> Len(results) + 1, sp |-> entry.sp, after |-> disturbed,
                             changed |-> changed, moved |-> moved])

\* The callee returns to the breakpoint; process_function_ret
CallReturns(name, args) ==
  /\ Room /\ Failure(name, args) = None
  /\ \E sym \in Find(table, name) : sym.address # 0
  /\ \E changed \in Changes, moved \in Moves, flags \in FlagSets :
       /\ child' = Left(Entry(args), changed, moved, flags)
       /\ Called(Needs(args), None, child'.regs[ReturnRegister], Entry(args), changed, moved)
       /\ disturbed' = (disturbed \/ moved % 2 # 0)
  /\ UNCHANGED <<arch, sections, table, status, snaps, seen>>

CutOffs == {"UnexpectedReturn", "TimedOut"}
\* There is nothing at the function's address.
Absent(name) == \E sym \in Find(table, name) : sym.address = 0

\* A signal, at once if there is nothing to run, or the timeout: the process stays where
\* it was.
CallCutOff(name, args) ==
  /\ Room /\ Failure(name, args) = None
  /\ \E deeper \in IF Absent(name) THEN {0} ELSE {0, 1} : child' = [Entry(args) EXCEPT !.sp = @ - deeper]
  /\ \E err \in IF Absent(name) THEN {"UnexpectedReturn"} ELSE CutOffs :
       Called(Needs(args), err, {}, Entry(args), {}, 0)
  /\ disturbed' = TRUE
  /\ UNCHANGED <<arch, sections, table, status, snaps, seen>>

\* The process ends, and Program::call_function restarts it.
CallExits(name, args) ==
  /\ Room /\ Failure(name, args) = None
  /\ \E sym \in Find(table, name) : sym.address # 0
  /\ child' = FreshChild
  /\ Called(Needs(args), "UnexpectedReturn", {}, Entry(args), {}, 0)
  /\ disturbed' = FALSE
  /\ UNCHANGED <<arch, sections, table, status, snaps, seen>>

\* AsmSymbol::get_value
GetValue(name) ==
  /\ Room
  /\ LET err == IF Find(table, name) = {} THEN "UnresolvedSymbol"
                ELSE IF \E sym \in Find(table, name) : sym.address = 0 THEN "SyscallFailure" ELSE None
     IN results' = Append(results, Result({}, err, IF err = None THEN {16} ELSE {}))
  /\ UNCHANGED <<arch, sections, table, status, child, snaps, seen, calls, disturbed>>

\* AsmData::set_value reads the old value first; it knows nothing of resolution_err_, and
\* an unresolved symbol's address is 0.
SetValueThrows(name) ==
  /\ status = "testing"
  /\ \A sym \in Find(table, name) : sym.address = 0
  /\ Unwind("broken")

----------------------------------------------------------------------------
(* RegistersState *)

\* Mutant of FromX64: no flags.
FromX64NoFlags == [child EXCEPT !.regs = [r \in X64General |-> @[r]], !.flags = {}]

\* RegistersState::from, for either processor
FromX64 ==
  [regs |-> [r \in X64General |-> child.regs[r]],
   sp |-> child.sp, pc |-> child.pc, flags |-> child.flags]
FromAarch64 ==
  [regs |-> [r \in Aarch64All |-> child.regs[r]],
   sp |-> child.sp, pc |-> child.pc, flags |-> child.flags]
From == IF arch = "x86_64" THEN FromX64 ELSE FromAarch64

Put(f, s, v) == [t \in DOMAIN f \cup {s} |-> IF t = s THEN v ELSE f[t]]

\* auto s = ctx.get_registers() makes the snapshot where it stays; s = ctx.get_registers()
\* assigns from an object that goes away.  Its pstate refers to that object's eflags.
TakeSnapshot(s) ==
  /\ status = "testing"
  /\ snaps' = Put(snaps, s, [s |-> From, alternative |-> IF s \in DOMAIN snaps THEN Gone ELSE s])
  /\ seen' = Put(seen, s, [of |-> child, ops |-> Len(results)])
  /\ UNCHANGED <<arch, sections, table, status, child, results, calls, disturbed>>

\* Members are copied one by one, the pointer in pstate too.
CopySnapshot(s, t) ==
  /\ status = "testing" /\ s \in DOMAIN snaps /\ s # t
  /\ snaps' = Put(snaps, t, snaps[s])
  /\ seen' = Put(seen, t, seen[s])
  /\ UNCHANGED <<arch, sections, table, status, child, results, calls, disturbed>>

\* A register of the other processor has no value, and no alternative but for pstate's.
\* The runtime_error is not a ContextInternalError.
ReadForeign ==
  /\ status = "testing" /\ DOMAIN snaps # {}
  /\ Unwind("thrown")

----------------------------------------------------------------------------
FunctionNames == {"f", "missing"}
Args == BoundedSeq(0..Len(results), MaxArgs)

Next ==
  \/ LoadProgram \/ ReadForeign
  \/ \E name \in FunctionNames :
       \/ GetValue(name) \/ SetValueThrows(name)
       \/ \E args \in Args : \/ CallRefused(name, args) \/ CallReturns(name, args)
                             \/ CallCutOff(name, args) \/ CallExits(name, args)
  \/ \E s \in Slots : TakeSnapshot(s) \/ \E t \in Slots : CopySnapshot(s, t)

Spec == Init /\ [][Next]_vars

----------------------------------------------------------------------------
(* Properties *)

\* What a snapshot's pstate says: its own bits on aarch64, otherwise those of the eflags
\* it refers to.  A snapshot that is gone may say anything.
PstateFlags(s) ==
  IF arch = "aarch64" THEN {snaps[s].s.flags}
  ELSE IF snaps[s].alternative = Gone THEN SUBSET FlagBits(arch)
  ELSE {snaps[snaps[s].alternative].s.flags}

\* Whatever calls come between, a snapshot prints what the program's registers held when
\* it was taken, with one letter for each flag that was set.  Three things are not what
\* the source says of them: under rsp, "stack pointer" in registers_state.hpp:362, an x86_64
\* snapshot prints rip (:759); aarch64's V, the overflow flag of the NZCV at :592, stands
\* for a negative result (:567); and pstate is not the flags a snapshot was taken with
\* (test_context.hpp:90), but those that the snapshot it was copied from has now (:325).
SnapshotTrue ==
  \A s \in DOMAIN snaps :
    LET taken == seen[s].of
        dump  == Dump(arch, snaps[s].s, TRUE)
        brief == Dump(arch, snaps[s].s, FALSE)
        from  == IF arch = "aarch64" THEN s ELSE snaps[s].alternative
    IN /\ dump["pc"] = Address(taken.pc)
       /\ dump["sp"] = IF arch = "x86_64" THEN Address(taken.pc) ELSE StackAddress(taken.sp)
       /\ Cardinality(dump["flags"]) = Cardinality(taken.flags \cap FlagBits(arch))
       /\ "V" \in dump["flags"] <=> arch = "aarch64" /\ Flag(arch).negative \in taken.flags
       /\ \A r \in Names(arch) : dump[r] = taken.regs[r]
       /\ \A r \in Names(arch) \cap Aarch64Vector : brief[r] = taken.regs[r] \ {128}
       /\ from # Gone => PstateFlags(s) = {seen[from].of.flags}

Aarch64Saved == {X(n) : n \in 19..29} \cup {Q(n) : n \in 8..15}
\* What the procedure call standards say a callee preserves.
CalleeSaved ==
  IF arch = "x86_64" THEN {"rbx", "rbp", "r12", "r13", "r14", "r15"}
  ELSE Aarch64Saved

\* The snapshots were taken just before and just after the last call, which returned.
AroundCall ==
  /\ calls # <<>> /\ Slots \subseteq DOMAIN snaps
  /\ Last(calls).result = Len(results) /\ results[Last(calls).result].err = None
  /\ seen["before"].ops = Len(results) - 1 /\ seen["after"].ops = Len(results)
Verdict == ValidPcs(arch, snaps["before"].s, snaps["after"].s)
\* The registers the last callee left changed in their low 64 bits.
Lost == {c[1] : c \in {c \in Last(calls).changed : c[2] <= 64}}

\* Snapshots around one call tell what its callee did: valid_pcs names what it did not
\* preserve and nothing else, d16 to d31 excepted, though the tracer itself has set up the
\* stack, the arguments and the return.  Only r15, within the "General purpose regs X[12, 36)
\* must be preserved" of registers_state.hpp:464 and in the standard, is never named: the
\* repetition at :465 ends at r14.
PcsVerdict ==
  AroundCall => /\ Lost \cap (CalleeSaved \ {"r15"}) \subseteq Verdict
                /\ Verdict \ {"sp"} \subseteq Lost \cap (CalleeSaved \cup Aarch64Vector)
                /\ "sp" \in Verdict <=> Last(calls).moved # 0
                /\ arch = "x86_64" => "r15" \notin Verdict

\* A callee starts with the stack as the standard demands, the return address below a
\* 16-byte boundary on x86_64 (tracer.cpp:443), in every process that has itself kept it
\* and of whose calls none was cut off: what such a call pushed stays.
StackAligned ==
  \A i \in DOMAIN calls : ~calls[i].after => calls[i].sp % 2 = (IF arch = "x86_64" THEN 1 ELSE 0)

\* The results a result depends on.
Under ==
  LET under[i \in DOMAIN results] ==
        results[i].needs \cup UNION {under[k] : k \in results[i].needs}
  IN under

\* f(g(h())) enters the program for f only if everything under it has a value, and else
\* is a BadArgument wherever below it the failure was; a name the table lacks is told
\* apart from that (asm_function.hpp:181-214, 238-246).
NestedFailure ==
  /\ \A i \in DOMAIN calls : \A k \in Under[calls[i].result] : results[k].err = None
  /\ \A i \in DOMAIN results :
       /\ results[i].err = "BadArgument" => \E k \in Under[i] : results[k].err \notin {None, "BadArgument"}
       /\ (\E k \in Under[i] : results[k].err # None) => results[i].err \in {"BadArgument", "UnresolvedSymbol"}

----------------------------------------------------------------------------
(* The inductive invariants behind these properties. *)

Widths == {16, 32, 64, 128}
RegisterStates ==
  [regs : [Names(arch) -> SUBSET Widths], sp : Int,
   pc : {"start", "inside", "breakpoint"}, flags : SUBSET Int]
Errors == {None, "BadArgument", "UnresolvedSymbol", "SyscallFailure"} \cup CutOffs
Results == [needs : SUBSET Nat, err : Errors, val : SUBSET Widths]
Calls == [result : Nat, sp : Int, after : BOOLEAN, changed : SUBSET Touched, moved : Int]

TypeOK ==
  /\ arch \in Arches /\ disturbed \in BOOLEAN
  /\ child \in RegisterStates
  /\ results \in Seq(Results) /\ calls \in Seq(Calls)

AlignDiscipline == (~disturbed => child.sp % 2 = 0) /\ StackAligned

\* A result depends on earlier ones, and has the error it must have given theirs.
FitsIn(rs, needs, err, before) ==
  /\ needs \subseteq 1..before
  /\ err = "BadArgument" => \E k \in needs : rs[k].err # None
  /\ (\E k \in needs : rs[k].err # None) => err \in {"BadArgument", "UnresolvedSymbol"}
ResultsNested == \A i \in DOMAIN results : FitsIn(results, results[i].needs, results[i].err, i - 1)

\* A call reached the program with values only.
CallsNested ==
  \A i \in DOMAIN calls :
    /\ calls[i].result \in DOMAIN results
    /\ \A k \in results[calls[i].result].needs : results[k].err = None

NestedDiscipline == ResultsNested /\ CallsNested

SnapshotDiscipline ==
  /\ DOMAIN seen = DOMAIN snaps /\ DOMAIN snaps \subseteq Slots
  /\ \A s \in DOMAIN snaps : snaps[s].s = seen[s].of /\ seen[s].of \in RegisterStates

\* What a callee leaves of the registers valid_pcs looks at.
Around(cpu, before, after, call) ==
  /\ call.changed = {} \/ \E c \in Touched : call.changed = {c}
  /\ after.sp = before.sp + call.moved
  /\ \A r \in Checked(cpu) \ {"sp"} :
       after.regs[r] = IF \E p \in Pieces(r) : <<r, p>> \in call.changed
                       THEN Toggled(before.regs[r], CHOOSE p \in Pieces(r) : <<r, p>> \in call.changed)
                       ELSE before.regs[r]

LastReturned ==
  calls # <<>> /\ Last(calls).result = Len(results) /\ results[Len(results)].err = None
PcsDiscipline ==
  \A s \in DOMAIN seen :
    /\ seen[s].ops \in 0..Len(results)
    /\ seen[s].ops = Len(results) => seen[s].of = child
    /\ LastReturned /\ seen[s].ops = Len(results) - 1 => Around(arch, seen[s].of, child, Last(calls))
=============================================================================
