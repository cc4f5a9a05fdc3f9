------------------------- MODULE Inspection_proofs -------------------------
(***************************************************************************)
(* Theorems about Inspection, for every program, every set of registers    *)
(* that callees may touch and all bounds.                                  *)
(***************************************************************************)
EXTENDS Inspection, Induction

\* What appending does to a sequence.
LEMMA Appended ==
  ASSUME NEW S, NEW s \in Seq(S), NEW e \in S
  PROVE  /\ Append(s, e) \in Seq(S) /\ Len(Append(s, e)) = Len(s) + 1
         /\ DOMAIN Append(s, e) = 1..Len(s) + 1 /\ DOMAIN s = 1..Len(s)
         /\ \A i \in 1..Len(s) : Append(s, e)[i] = s[i]
         /\ Append(s, e)[Len(s) + 1] = e
OBVIOUS

\* A bounded sequence is a sequence.
LEMMA BoundedSeqs ==
  ASSUME NEW S, NEW n \in Nat, NEW s \in BoundedSeq(S, n)
  PROVE  Len(s) \in 0..n /\ DOMAIN s = 1..Len(s) /\ \A i \in 1..Len(s) : s[i] \in S
BY DEF BoundedSeq, SeqOf

\* A call has no more arguments than there are registers for them, and each is a plain
\* value or an earlier result.
LEMMA ArgsType ==
  ASSUME NEW args \in Args
  PROVE  Len(args) \in 0..6 /\ DOMAIN args = 1..Len(args) /\ \A i \in DOMAIN args : args[i] \in 0..Len(results)
<1>1. MaxArgs \in Nat /\ MaxArgs <= 6
  BY InspectionBoundsAssumption
<1>2. Len(args) \in 0..MaxArgs /\ DOMAIN args = 1..Len(args) /\ \A i \in 1..Len(args) : args[i] \in 0..Len(results)
  BY <1>1, BoundedSeqs DEF Args
<1>3. ASSUME NEW n \in 0..MaxArgs PROVE n \in 0..6
  BY <1>1
<1>4. Len(args) \in 0..6
  BY <1>2, <1>3, Zenon
<1> QED
  BY <1>2, <1>4, Zenon

\* A register is cut at the widths only.
LEMMA PiecesType ==
  ASSUME NEW r PROVE Pieces(r) \subseteq Widths
BY DEF Pieces, Widths

EntryStates == [regs : [Names(arch) -> SUBSET Widths], sp : Int, pc : {"inside"}, flags : SUBSET Int]

\* An argument register receives pieces of a value.
LEMMA UnwrappedType ==
  ASSUME NEW arg \in 0..Len(results), results \in Seq(Results)
  PROVE  Unwrapped(arg) \subseteq Widths
<1>1. CASE arg = 0
  BY <1>1 DEF Unwrapped, Widths
<1>2. CASE arg # 0
  <2>1. results[arg] \in Results
    BY <1>2
  <2> QED
    BY <2>1, <1>2 DEF Unwrapped, Results
<1> QED
  BY <1>1, <1>2

\* The tracer's setup leaves well-formed registers and the flags as they were.
LEMMA ReadyType ==
  ASSUME arch \in Arches, child \in RegisterStates
  PROVE  /\ ReturnSetup(child) \in RegisterStates
         /\ ReturnSetup(child).sp = child.sp - Popped
         /\ ReturnSetup(child).flags = child.flags
         /\ \A r \in Names(arch) : r # X(30) => ReturnSetup(child).regs[r] = child.regs[r]
         /\ arch = "x86_64" => ReturnSetup(child).regs = child.regs
<1>1. CASE arch = "x86_64"
  BY <1>1 DEF ReturnSetup, RegisterStates, Popped
<1>2. CASE arch # "x86_64"
  <2>1. {32, 64} \in SUBSET Widths
    BY DEF Widths
  <2>2. ReturnSetup(child) = [child EXCEPT !.regs[X(30)] = {32, 64}] /\ Popped = 0
    BY <1>2 DEF ReturnSetup, Popped
  <2> QED
    BY <1>2, <2>1, <2>2 DEF RegisterStates
<1> QED
  BY <1>1, <1>2

\* A callee starts with well-formed registers, its stack pointer below the return address.
LEMMA EntryType ==
  ASSUME arch \in Arches, child \in RegisterStates, results \in Seq(Results), NEW args \in Args
  PROVE  Entry(args) \in EntryStates /\ Entry(args).sp = child.sp - Popped
<1> DEFINE ready == ReturnSetup(child)
           used == [i \in DOMAIN args |-> ArgRegisters[i]]
           regs == [r \in DOMAIN ready.regs |->
                     IF r \in ToSet(used) THEN Unwrapped(args[CHOOSE i \in DOMAIN args : used[i] = r])
                                          ELSE ready.regs[r]]
<1>1. ready \in RegisterStates /\ ready.sp = child.sp - Popped
  BY ReadyType
<1>2. Entry(args) = [ready EXCEPT !.pc = "inside", !.regs = regs]
  BY DEF Entry
<1>3. regs \in [Names(arch) -> SUBSET Widths]
  <2>1. DOMAIN ready.regs = Names(arch) /\ \A r \in Names(arch) : ready.regs[r] \subseteq Widths
    BY <1>1 DEF RegisterStates
  <2>2. ASSUME NEW r \in Names(arch), r \in ToSet(used)
        PROVE  Unwrapped(args[CHOOSE i \in DOMAIN args : used[i] = r]) \subseteq Widths
    <3>1. \E i \in DOMAIN args : used[i] = r
      BY <2>2 DEF ToSet
    <3>2. (CHOOSE i \in DOMAIN args : used[i] = r) \in DOMAIN args
      BY <3>1
    <3> HIDE DEF used
    <3>3. args[CHOOSE i \in DOMAIN args : used[i] = r] \in 0..Len(results)
      BY <3>2, ArgsType
    <3> QED
      BY <3>3, UnwrappedType
  <2> HIDE DEF ready, used
  <2> QED
    BY <2>1, <2>2
<1> HIDE DEF ready, regs
<1> QED
  BY <1>1, <1>2, <1>3 DEF RegisterStates, EntryStates

\* What a callee may change are pieces of registers that may be touched.
LEMMA ChangesType ==
  ASSUME NEW changed \in Changes
  PROVE  changed \subseteq Touched
BY DEF Changes

\* A callee that returns leaves well-formed registers, its stack pointer where the caller's
\* was, or moved.
LEMMA LeftType ==
  ASSUME arch \in Arches, NEW entry \in EntryStates,
         NEW changed \in Changes, NEW moved \in Moves, NEW flags \in FlagSets
  PROVE  /\ Left(entry, changed, moved, flags) \in RegisterStates
         /\ Left(entry, changed, moved, flags).sp = entry.sp + Popped + moved
<1> DEFINE regs == [r \in DOMAIN entry.regs |->
                      IF \E p \in Pieces(r) : <<r, p>> \in changed
                      THEN Toggled(entry.regs[r], CHOOSE p \in Pieces(r) : <<r, p>> \in changed)
                      ELSE entry.regs[r]]
           bits == {Flag(arch)[f] : f \in flags}
           sp == entry.sp + Popped + moved
<1>1. regs \in [Names(arch) -> SUBSET Widths]
  <2>1. DOMAIN entry.regs = Names(arch) /\ \A r \in Names(arch) : entry.regs[r] \subseteq Widths
    BY DEF EntryStates
  <2>2. ASSUME NEW r \in Names(arch), \E p \in Pieces(r) : <<r, p>> \in changed
        PROVE  Toggled(entry.regs[r], CHOOSE p \in Pieces(r) : <<r, p>> \in changed) \subseteq Widths
    <3>1. (CHOOSE p \in Pieces(r) : <<r, p>> \in changed) \in Widths
      BY <2>2, PiecesType
    <3> QED
      BY <2>1, <3>1 DEF Toggled
  <2> QED
    BY <2>1, <2>2
<1>2. bits \subseteq Int
  <2>1. flags \subseteq FlagNames
    BY FlagSetsAssumption
  <2>2. ASSUME NEW f \in FlagNames PROVE Flag(arch)[f] \in Int
    BY DEF Flag, FlagNames
  <2> QED
    BY <2>1, <2>2
<1>3. sp \in Int
  <2>1. entry.sp \in Int /\ moved \in Int /\ Popped \in Int
    BY MovesAssumption DEF EntryStates, Popped
  <2> QED
    BY <2>1
<1>4. Left(entry, changed, moved, flags) =
        [entry EXCEPT !.regs = regs, !.sp = sp, !.pc = "breakpoint", !.flags = bits]
  BY DEF Left
<1>5. Left(entry, changed, moved, flags).sp = sp
  BY <1>4 DEF EntryStates
<1> HIDE DEF regs, bits, sp
<1>6. Left(entry, changed, moved, flags) \in RegisterStates
  BY <1>1, <1>2, <1>3, <1>4 DEF EntryStates, RegisterStates
<1> QED
  BY <1>5, <1>6 DEF sp

----------------------------------------------------------------------------
(* Types *)

\* A process that has just started has well-formed registers.
LEMMA FreshType ==
  FreshChild \in RegisterStates
BY DEF FreshChild, RegisterStates, Widths

\* A result needs earlier results only.
LEMMA NeedsType ==
  ASSUME TypeOK, NEW args \in Args
  PROVE  Needs(args) \in SUBSET Nat /\ Needs(args) \subseteq 1..Len(results)
<1>1. Len(results) \in Nat
  BY DEF TypeOK
<1>2. \A i \in DOMAIN args : args[i] \in 0..Len(results)
  BY ArgsType, Zenon
<1> QED
  BY <1>1, <1>2 DEF Needs

\* A call that reached the program is recorded with its types.
LEMMA CalledType ==
  ASSUME TypeOK, NEW args \in Args, NEW err \in Errors, NEW val \in SUBSET Widths, NEW entry \in EntryStates,
         NEW changed \in Changes, NEW moved \in Int, Called(Needs(args), err, val, entry, changed, moved)
  PROVE  results' \in Seq(Results) /\ calls' \in Seq(Calls)
<1>1. results \in Seq(Results) /\ calls \in Seq(Calls) /\ Len(results) \in Nat
  BY DEF TypeOK
<1>2. Needs(args) \in SUBSET Nat
  BY NeedsType
<1>3. Result(Needs(args), err, val) \in Results
  BY <1>2 DEF Result, Results
<1>4. disturbed \in BOOLEAN /\ entry.sp \in Int /\ changed \in SUBSET Touched
  BY ChangesType DEF TypeOK, EntryStates
<1>5. Len(results) + 1 \in Nat
  BY <1>1
<1>6. [result |-> Len(results) + 1, sp |-> entry.sp, after |-> disturbed, changed |-> changed, moved |-> moved] \in Calls
  BY <1>4, <1>5, Zenon DEF Calls
<1> QED
  BY <1>1, <1>3, <1>6, Appended, Zenon DEF Called

\* TypeOK from its parts, in the next state.
LEMMA TypeNext ==
  ASSUME TypeOK, arch' = arch, child' \in RegisterStates,
         results' \in Seq(Results), calls' \in Seq(Calls), disturbed' \in BOOLEAN
  PROVE  TypeOK'
<1>1. RegisterStates' = RegisterStates
  BY DEF RegisterStates
<1>2. arch' \in Arches
  BY DEF TypeOK
<1> QED
  BY <1>1, <1>2, Zenon DEF TypeOK, Results, Calls

\* A call that is cut off is recorded with one of the errors for that.
LEMMA CutOff ==
  ASSUME NEW args, NEW name, CallCutOff(name, args)
  PROVE  \E err \in CutOffs : Called(Needs(args), err, {}, Entry(args), {}, 0)
BY DEF CallCutOff, CutOffs

\* Every variable keeps its type, whatever a callee leaves behind.
THEOREM TypeCorrect == Spec => []TypeOK
<1>0. <<>> \in Seq(Results) /\ <<>> \in Seq(Calls) /\ FALSE \in BOOLEAN
  OBVIOUS
<1>1. Init => TypeOK
  BY <1>0, FreshType, Zenon DEF Init, TypeOK
<1>2. TypeOK /\ [Next]_vars => TypeOK'
  <2> SUFFICES ASSUME TypeOK, [Next]_vars PROVE TypeOK'
    OBVIOUS
  <2>0. CASE UNCHANGED <<arch, child, results, calls, disturbed>>
    <3>1. child \in RegisterStates /\ results \in Seq(Results) /\ calls \in Seq(Calls) /\ disturbed \in BOOLEAN
      BY Zenon DEF TypeOK
    <3>2. child' \in RegisterStates /\ results' \in Seq(Results) /\ calls' \in Seq(Calls) /\ disturbed' \in BOOLEAN
      BY <2>0, <3>1, Zenon
    <3> QED
      BY <2>0, <3>2, TypeNext, Zenon
  <2>1. ASSUME NEW outcome, Unwind(outcome) PROVE TypeOK'
    BY <1>0, <2>1, FreshType, TypeNext, Zenon DEF Unwind
  <2>2. ASSUME NEW args \in Args, NEW name, CallRefused(name, args) PROVE TypeOK'
    <3>1. Result(Needs(args), Failure(name, args), {}) \in Results
      <4>1. Failure(name, args) \in Errors
        BY DEF Failure, Errors
      <4>2. Needs(args) \in SUBSET Nat /\ {} \in SUBSET Widths
        BY NeedsType
      <4> QED
        BY <4>1, <4>2 DEF Result, Results
    <3>2. results' \in Seq(Results)
      BY <2>2, <3>1, Appended DEF CallRefused, TypeOK
    <3> QED
      BY <2>2, <3>2, TypeNext, Zenon DEF CallRefused, TypeOK
  <2>3. ASSUME NEW args \in Args, NEW name, CallReturns(name, args) PROVE TypeOK'
    <3>1. PICK changed \in Changes, moved \in Moves, flags \in FlagSets :
            /\ child' = Left(Entry(args), changed, moved, flags)
            /\ Called(Needs(args), None, child'.regs[ReturnRegister], Entry(args), changed, moved)
            /\ disturbed' = (disturbed \/ moved % 2 # 0)
      BY <2>3 DEF CallReturns
    <3>2. Entry(args) \in EntryStates
      BY EntryType DEF TypeOK
    <3>3. child' \in RegisterStates /\ arch' = arch
      BY <2>3, <3>1, <3>2, LeftType DEF TypeOK, CallReturns
    <3>4. child'.regs[ReturnRegister] \in SUBSET Widths
      <4>1. ReturnRegister \in Names(arch)
        BY DEF ReturnRegister, Names, X64General, Aarch64All, Aarch64General
      <4> QED
        BY <3>3, <4>1 DEF RegisterStates
    <3>5. None \in Errors /\ moved \in Int
      BY MovesAssumption DEF Errors
    <3>6. results' \in Seq(Results) /\ calls' \in Seq(Calls)
      BY <3>1, <3>2, <3>4, <3>5, CalledType
    <3>7. disturbed' \in BOOLEAN
      BY <3>1, Zenon
    <3> QED
      BY <3>3, <3>6, <3>7, TypeNext, Zenon
  <2>4. ASSUME NEW args \in Args, NEW name, CallCutOff(name, args) PROVE TypeOK'
    <3>1. PICK deeper \in {0, 1} : child' = [Entry(args) EXCEPT !.sp = @ - deeper]
      BY <2>4 DEF CallCutOff
    <3>2. Entry(args) \in EntryStates
      BY EntryType DEF TypeOK
    <3>3. child' \in RegisterStates /\ arch' = arch
      BY <2>4, <3>1, <3>2 DEF RegisterStates, EntryStates, CallCutOff
    <3>4. {} \in SUBSET Widths /\ {} \in Changes /\ CutOffs \subseteq Errors /\ 0 \in Int
      BY DEF Changes, Errors
    <3>e. PICK err \in CutOffs : Called(Needs(args), err, {}, Entry(args), {}, 0)
      BY <2>4, CutOff
    <3>5. results' \in Seq(Results) /\ calls' \in Seq(Calls)
      BY <3>2, <3>4, <3>e, CalledType
    <3>6. disturbed' \in BOOLEAN
      BY <2>4, Zenon DEF CallCutOff
    <3> QED
      BY <3>3, <3>5, <3>6, TypeNext, Zenon
  <2>5. ASSUME NEW args \in Args, NEW name, CallExits(name, args) PROVE TypeOK'
    <3>1. Entry(args) \in EntryStates
      BY EntryType DEF TypeOK
    <3>2. {} \in SUBSET Widths /\ {} \in Changes /\ "UnexpectedReturn" \in Errors /\ 0 \in Int
      BY DEF Changes, Errors, CutOffs
    <3>3. results' \in Seq(Results) /\ calls' \in Seq(Calls)
      BY <2>5, <3>1, <3>2, CalledType DEF CallExits
    <3> QED
      BY <1>0, <2>5, <3>3, FreshType, TypeNext, Zenon DEF CallExits
  <2>6. ASSUME NEW name, GetValue(name) PROVE TypeOK'
    <3>1. PICK err \in {"UnresolvedSymbol", "SyscallFailure", None}, val \in {{16}, {}} :
            results' = Append(results, Result({}, err, val))
      BY <2>6 DEF GetValue
    <3>2. Result({}, err, val) \in Results
      BY DEF Result, Results, Widths, Errors
    <3>3. results' \in Seq(Results)
      BY <3>1, <3>2, Appended DEF TypeOK
    <3> QED
      BY <2>6, <3>3, TypeNext, Zenon DEF GetValue, TypeOK
  <2> QED
    BY <2>0, <2>1, <2>2, <2>3, <2>4, <2>5, <2>6
       DEF Next, vars, LoadProgram, ReadForeign, SetValueThrows, TakeSnapshot, CopySnapshot
<1> QED
  BY <1>1, <1>2, PTL DEF Spec

----------------------------------------------------------------------------
(* The stack of a callee *)

\* What the tracer pushes and the callee pops leaves a stack pointer as it was.
LEMMA Parity ==
  ASSUME NEW x \in Int, NEW m \in Int, NEW p \in {0, 1}, x % 2 = 0
  PROVE  (x - p) % 2 = p /\ (m % 2 = 0 => (x - p + p + m) % 2 = 0)
OBVIOUS

\* A callee's stack pointer is recorded when it is aligned, or the process was disturbed.
LEMMA CalledAligned ==
  ASSUME TypeOK, AlignDiscipline, arch' = arch, NEW args \in Args, NEW err, NEW val, NEW changed, NEW moved,
         Called(Needs(args), err, val, Entry(args), changed, moved), calls' \in Seq(Calls)
  PROVE  StackAligned'
<1> DEFINE e == [result |-> Len(results) + 1, sp |-> Entry(args).sp, after |-> disturbed,
                 changed |-> changed, moved |-> moved]
<1>1. calls' = Append(calls, e)
  BY DEF Called
<1>2. ~disturbed => e.sp % 2 = (IF arch = "x86_64" THEN 1 ELSE 0)
  <2>1. Entry(args).sp = child.sp - Popped
    BY EntryType DEF TypeOK
  <2>2. child.sp \in Int /\ 0 \in Int /\ Popped \in {0, 1} /\ Popped = IF arch = "x86_64" THEN 1 ELSE 0
    BY DEF TypeOK, RegisterStates, Popped
  <2>3. ~disturbed => child.sp % 2 = 0
    BY DEF AlignDiscipline
  <2>4. ~disturbed => (child.sp - Popped) % 2 = Popped
    BY <2>2, <2>3, Parity
  <2> QED
    BY <2>1, <2>2, <2>4
<1>3. e.after = disturbed
  OBVIOUS
<1> HIDE DEF e
<1>4. /\ DOMAIN calls' = 1..Len(calls) + 1 /\ DOMAIN calls = 1..Len(calls) /\ Len(calls) \in Nat
      /\ \A i \in 1..Len(calls) : calls'[i] = calls[i]
      /\ calls'[Len(calls) + 1] = e
  BY <1>1 DEF TypeOK
<1>5. \A i \in DOMAIN calls' : i \in DOMAIN calls \/ i = Len(calls) + 1
  BY <1>4
<1>6. \A i \in DOMAIN calls : ~calls[i].after => calls[i].sp % 2 = (IF arch = "x86_64" THEN 1 ELSE 0)
  BY DEF AlignDiscipline, StackAligned
<1> QED
  BY <1>2, <1>3, <1>4, <1>5, <1>6, Zenon DEF StackAligned

\* A process that has itself kept its stack pointer aligned finds it aligned in a callee.
THEOREM StackAlignedCorrect == Spec => []StackAligned
<1>1. Init => AlignDiscipline
  BY DEF Init, AlignDiscipline, StackAligned, FreshChild
<1>2. TypeOK /\ TypeOK' /\ AlignDiscipline /\ [Next]_vars => AlignDiscipline'
  <2> SUFFICES ASSUME TypeOK, TypeOK', AlignDiscipline, [Next]_vars PROVE AlignDiscipline'
    OBVIOUS
  <2>t. calls' \in Seq(Calls)
    BY Zenon DEF TypeOK, Calls
  <2>0. CASE UNCHANGED <<arch, child, calls, disturbed>>
    BY <2>0, Zenon DEF AlignDiscipline, StackAligned
  <2>1. ASSUME NEW outcome, Unwind(outcome) PROVE AlignDiscipline'
    BY <2>1 DEF Unwind, AlignDiscipline, StackAligned, FreshChild
  <2>2. ASSUME NEW args \in Args, NEW name, CallReturns(name, args) PROVE AlignDiscipline'
    <3>1. PICK changed \in Changes, moved \in Moves, flags \in FlagSets :
            /\ child' = Left(Entry(args), changed, moved, flags)
            /\ Called(Needs(args), None, child'.regs[ReturnRegister], Entry(args), changed, moved)
            /\ disturbed' = (disturbed \/ moved % 2 # 0)
      BY <2>2 DEF CallReturns
    <3>2. StackAligned'
      BY <2>t, <2>2, <3>1, CalledAligned, Zenon DEF CallReturns
    <3>3. ~disturbed' => child'.sp % 2 = 0
      <4>1. Entry(args) \in EntryStates /\ Entry(args).sp = child.sp - Popped
        BY EntryType DEF TypeOK
      <4>2. child'.sp = Entry(args).sp + Popped + moved
        BY <3>1, <4>1, LeftType DEF TypeOK
      <4>3. child.sp \in Int /\ moved \in Int /\ Popped \in {0, 1}
        BY MovesAssumption DEF TypeOK, RegisterStates, Popped
      <4>4. child'.sp = child.sp - Popped + Popped + moved
        BY <4>1, <4>2, Zenon
      <4>5. child.sp % 2 = 0 /\ moved % 2 = 0 => (child.sp - Popped + Popped + moved) % 2 = 0
        BY <4>3, Parity
      <4>6. ~disturbed' => ~disturbed /\ moved % 2 = 0
        BY <3>1, Zenon
      <4> QED
        BY <4>4, <4>5, <4>6, Zenon DEF AlignDiscipline
    <3> QED
      BY <3>2, <3>3, Zenon DEF AlignDiscipline
  <2>3. ASSUME NEW args \in Args, NEW name, CallCutOff(name, args) PROVE AlignDiscipline'
    BY <2>t, <2>3, CalledAligned, Zenon DEF CallCutOff, AlignDiscipline
  <2>4. ASSUME NEW args \in Args, NEW name, CallExits(name, args) PROVE AlignDiscipline'
    <3>1. StackAligned'
      BY <2>t, <2>4, CalledAligned, Zenon DEF CallExits
    <3>2. child'.sp % 2 = 0
      BY <2>4 DEF CallExits, FreshChild
    <3> QED
      BY <3>1, <3>2, Zenon DEF AlignDiscipline
  <2> QED
    BY <2>0, <2>1, <2>2, <2>3, <2>4
       DEF Next, vars, LoadProgram, ReadForeign, SetValueThrows, TakeSnapshot, CopySnapshot, CallRefused, GetValue
<1>3. AlignDiscipline => StackAligned
  BY DEF AlignDiscipline
<1> QED
  BY <1>1, <1>2, <1>3, TypeCorrect, PTL DEF Spec

----------------------------------------------------------------------------
(* Results of results *)

\* What a result adds to the test's results.
Added(needs, err, val) ==
  /\ Result(needs, err, val) \in Results /\ FitsIn(results, needs, err, Len(results))
  /\ results' = Append(results, Result(needs, err, val))

\* The results before an added one stay what they were.
LEMMA ResultsKept ==
  ASSUME TypeOK, NEW needs, NEW err, NEW val, Added(needs, err, val)
  PROVE  /\ Len(results) \in Nat /\ Len(results') = Len(results) + 1
         /\ DOMAIN results = 1..Len(results) /\ DOMAIN results' = 1..Len(results) + 1
         /\ \A i \in 1..Len(results) : results'[i] = results[i]
         /\ results'[Len(results) + 1] = Result(needs, err, val)
BY DEF TypeOK, Added

\* A result that fits in keeps all results nested.
LEMMA AddedNested ==
  ASSUME TypeOK, ResultsNested, NEW needs, NEW err, NEW val, Added(needs, err, val)
  PROVE  ResultsNested'
<1> DEFINE n == Len(results)
<1>1. /\ n \in Nat /\ DOMAIN results = 1..n /\ DOMAIN results' = 1..n + 1
      /\ \A i \in 1..n : results'[i] = results[i]
      /\ results'[n + 1] = Result(needs, err, val)
  BY ResultsKept
<1> HIDE DEF n
<1>2. ASSUME NEW i \in 1..n + 1, NEW ns, NEW er, FitsIn(results, ns, er, i - 1)
      PROVE  FitsIn(results', ns, er, i - 1)
  <2>1. ns \subseteq 1..i-1 /\ \A k \in 1..i-1 : k \in 1..n
    BY <1>1, <1>2 DEF FitsIn
  <2>2. \A k \in ns : results'[k] = results[k]
    BY <1>1, <2>1, Zenon
  <2> QED
    BY <1>2, <2>2, Zenon DEF FitsIn
<1>3. ASSUME NEW i \in 1..n PROVE FitsIn(results', results'[i].needs, results'[i].err, i - 1)
  <2>1. i \in 1..n + 1 /\ FitsIn(results, results[i].needs, results[i].err, i - 1)
    BY <1>1, <1>3 DEF ResultsNested
  <2>2. results'[i] = results[i]
    BY <1>1
  <2> QED
    BY <1>2, <2>1, <2>2, Zenon
<1>4. FitsIn(results', results'[n + 1].needs, results'[n + 1].err, (n + 1) - 1)
  <2>1. n + 1 \in 1..n + 1 /\ (n + 1) - 1 = n
    BY <1>1
  <2>2. results'[n + 1].needs = needs /\ results'[n + 1].err = err
    BY <1>1 DEF Result
  <2>3. FitsIn(results, needs, err, n)
    BY DEF Added, n
  <2> QED
    BY <1>2, <2>1, <2>2, <2>3, Zenon
<1>5. \A i \in DOMAIN results' : i \in 1..n \/ i = n + 1
  BY <1>1
<1> QED
  BY <1>3, <1>4, <1>5, Zenon DEF ResultsNested

\* What a call's arguments are fits in, with the error they give it.
LEMMA FailureFits ==
  ASSUME TypeOK, NEW args \in Args, NEW name
  PROVE  FitsIn(results, Needs(args), Failure(name, args), Len(results))
BY NeedsType DEF FitsIn, Failure, None

\* A call with values only fits in, whatever it ends with.
LEMMA ValuesFit ==
  ASSUME TypeOK, NEW args \in Args, NEW name, Failure(name, args) = None, NEW err \in {None} \cup CutOffs
  PROVE  /\ FitsIn(results, Needs(args), err, Len(results))
         /\ \A k \in Needs(args) : results[k].err = None
<1>1. \A k \in Needs(args) : results[k].err = None
  BY DEF Failure, None
<1>2. err # "BadArgument"
  BY DEF None, CutOffs
<1>3. Needs(args) \subseteq 1..Len(results)
  BY NeedsType
<1> QED
  BY <1>1, <1>2, <1>3, Zenon DEF FitsIn

\* The results of calls stay the results of calls.
LEMMA CallsKept ==
  ASSUME TypeOK, NestedDiscipline, NEW needs, NEW err, NEW val, Added(needs, err, val), calls' = calls
  PROVE  CallsNested'
<1>1. /\ Len(results) \in Nat /\ DOMAIN results = 1..Len(results) /\ DOMAIN results' = 1..Len(results) + 1
      /\ \A k \in 1..Len(results) : results'[k] = results[k]
  BY ResultsKept
<1> SUFFICES ASSUME NEW i \in DOMAIN calls
             PROVE  /\ calls[i].result \in DOMAIN results'
                    /\ \A k \in results'[calls[i].result].needs : results'[k].err = None
  BY Zenon DEF CallsNested
<1>2. calls[i].result \in DOMAIN results /\ \A k \in results[calls[i].result].needs : results[k].err = None
  BY DEF NestedDiscipline, CallsNested
<1>3. results[calls[i].result].needs \subseteq 1..Len(results)
  <2>1. PICK r \in 1..Len(results) : r = calls[i].result
    BY <1>1, <1>2
  <2>2. results[r].needs \subseteq 1..r-1
    BY <1>1 DEF NestedDiscipline, ResultsNested, FitsIn
  <2> QED
    BY <1>1, <2>1, <2>2
<1> QED
  BY <1>1, <1>2, <1>3

\* A call that reached the program with values only keeps everything nested.
LEMMA CalledNested ==
  ASSUME TypeOK, TypeOK', NestedDiscipline, NEW args \in Args, NEW name, Failure(name, args) = None,
         NEW err \in {None} \cup CutOffs, NEW val \in SUBSET Widths, NEW entry, NEW changed, NEW moved,
         Called(Needs(args), err, val, entry, changed, moved)
  PROVE  NestedDiscipline'
<1> DEFINE e == [result |-> Len(results) + 1, sp |-> entry.sp, after |-> disturbed,
                 changed |-> changed, moved |-> moved]
<1>1. Added(Needs(args), err, val)
  <2>1. Result(Needs(args), err, val) \in Results
    BY NeedsType DEF Result, Results, Errors
  <2> QED
    BY <2>1, ValuesFit, Zenon DEF Added, Called
<1>2. ResultsNested'
  BY <1>1, AddedNested, Zenon DEF NestedDiscipline
<1>3. /\ Len(results) \in Nat /\ DOMAIN results = 1..Len(results) /\ DOMAIN results' = 1..Len(results) + 1
      /\ \A k \in 1..Len(results) : results'[k] = results[k]
      /\ results'[Len(results) + 1] = Result(Needs(args), err, val)
  BY <1>1, ResultsKept
<1>4. /\ Needs(args) \subseteq 1..Len(results)
      /\ \A k \in Needs(args) : results[k].err = None
  BY NeedsType, ValuesFit
<1>5. e.result = Len(results) + 1
  OBVIOUS
<1>6. calls' = Append(calls, e)
  BY DEF Called
<1> HIDE DEF e
<1>7. /\ DOMAIN calls' = 1..Len(calls) + 1 /\ DOMAIN calls = 1..Len(calls) /\ Len(calls) \in Nat
      /\ \A i \in 1..Len(calls) : calls'[i] = calls[i]
      /\ calls'[Len(calls) + 1] = e
  BY <1>6 DEF TypeOK
<1>8. ASSUME NEW i \in DOMAIN calls
      PROVE  /\ calls'[i].result \in DOMAIN results'
             /\ \A k \in results'[calls'[i].result].needs : results'[k].err = None
  <2>1. calls[i].result \in DOMAIN results /\ \A k \in results[calls[i].result].needs : results[k].err = None
    BY DEF NestedDiscipline, CallsNested
  <2>2. PICK r \in 1..Len(results) : r = calls[i].result
    BY <1>3, <2>1
  <2>3. results[r].needs \subseteq 1..r-1
    BY <1>3 DEF NestedDiscipline, ResultsNested, FitsIn
  <2>4. calls'[i].result = r
    BY <1>7, <2>2
  <2> QED
    BY <1>3, <2>1, <2>2, <2>3, <2>4
<1>9. ASSUME NEW i, i = Len(calls) + 1
      PROVE  /\ calls'[i].result \in DOMAIN results'
             /\ \A k \in results'[calls'[i].result].needs : results'[k].err = None
  <2>1. calls'[i].result = Len(results) + 1
    BY <1>5, <1>7, <1>9, Zenon
  <2>2. Len(results) + 1 \in DOMAIN results'
    BY <1>3
  <2>3. results'[Len(results) + 1].needs = Needs(args)
    BY <1>3 DEF Result
  <2> QED
    BY <1>3, <1>4, <2>1, <2>2, <2>3, Zenon
<1>10. \A i \in DOMAIN calls' : i \in DOMAIN calls \/ i = Len(calls) + 1
  BY <1>7
<1>11. CallsNested'
  BY <1>8, <1>9, <1>10, Zenon DEF CallsNested
<1> QED
  BY <1>2, <1>11, Zenon DEF NestedDiscipline

\* Results stay nested, whatever becomes of calls.
LEMMA NestedInvariant == Spec => []NestedDiscipline
<1>1. Init => NestedDiscipline
  BY DEF Init, NestedDiscipline, ResultsNested, CallsNested
<1>2. TypeOK /\ TypeOK' /\ NestedDiscipline /\ [Next]_vars => NestedDiscipline'
  <2> SUFFICES ASSUME TypeOK, TypeOK', NestedDiscipline, [Next]_vars PROVE NestedDiscipline'
    OBVIOUS
  <2>0. CASE UNCHANGED <<results, calls>>
    BY <2>0, Zenon DEF NestedDiscipline, ResultsNested, CallsNested
  <2>1. ASSUME NEW outcome, Unwind(outcome) PROVE NestedDiscipline'
    BY <2>1 DEF Unwind, NestedDiscipline, ResultsNested, CallsNested
  <2>2. ASSUME NEW args \in Args, NEW name, CallRefused(name, args) PROVE NestedDiscipline'
    <3>1. Added(Needs(args), Failure(name, args), {})
      <4>1. Failure(name, args) \in Errors
        BY DEF Failure, Errors
      <4>2. Needs(args) \in SUBSET Nat /\ {} \in SUBSET Widths
        BY NeedsType
      <4>3. Result(Needs(args), Failure(name, args), {}) \in Results
        BY <4>1, <4>2 DEF Result, Results
      <4> QED
        BY <2>2, <4>3, FailureFits, Zenon DEF Added, CallRefused
    <3> QED
      BY <2>2, <3>1, AddedNested, CallsKept, Zenon DEF NestedDiscipline, CallRefused
  <2>3. ASSUME NEW args \in Args, NEW name, CallReturns(name, args) PROVE NestedDiscipline'
    <3>1. PICK changed \in Changes, moved \in Moves :
            Called(Needs(args), None, child'.regs[ReturnRegister], Entry(args), changed, moved)
      BY <2>3 DEF CallReturns
    <3>2. child'.regs[ReturnRegister] \in SUBSET Widths
      <4>1. ReturnRegister \in Names(arch) /\ arch' = arch
        BY <2>3 DEF ReturnRegister, Names, X64General, Aarch64All, Aarch64General, CallReturns
      <4>2. child' \in RegisterStates'
        BY Zenon DEF TypeOK
      <4> QED
        BY <4>1, <4>2 DEF RegisterStates
    <3> QED
      BY <2>3, <3>1, <3>2, CalledNested, Zenon DEF CallReturns
  <2>4. ASSUME NEW args \in Args, NEW name, CallCutOff(name, args) PROVE NestedDiscipline'
    <3>1. {} \in SUBSET Widths
      OBVIOUS
    <3> QED
      BY <2>4, <3>1, CalledNested, CutOff, Zenon DEF CallCutOff
  <2>5. ASSUME NEW args \in Args, NEW name, CallExits(name, args) PROVE NestedDiscipline'
    <3>1. {} \in SUBSET Widths
      OBVIOUS
    <3>2. "UnexpectedReturn" \in {None} \cup CutOffs
      BY DEF CutOffs
    <3> QED
      BY <2>5, <3>1, <3>2, CalledNested, Zenon DEF CallExits
  <2>6. ASSUME NEW name, GetValue(name) PROVE NestedDiscipline'
    <3>1. PICK err \in {"UnresolvedSymbol", "SyscallFailure", None}, val \in {{16}, {}} :
            results' = Append(results, Result({}, err, val))
      BY <2>6 DEF GetValue
    <3>2. Result({}, err, val) \in Results
      BY DEF Result, Results, Widths, Errors
    <3>3. FitsIn(results, {}, err, Len(results))
      BY DEF FitsIn, None
    <3>4. Added({}, err, val)
      BY <3>1, <3>2, <3>3, Zenon DEF Added
    <3> QED
      BY <2>6, <3>4, AddedNested, CallsKept, Zenon DEF NestedDiscipline, GetValue
  <2> QED
    BY <2>0, <2>1, <2>2, <2>3, <2>4, <2>5, <2>6
       DEF Next, vars, LoadProgram, ReadForeign, SetValueThrows, TakeSnapshot, CopySnapshot
<1> QED
  BY <1>1, <1>2, TypeCorrect, PTL DEF Spec

\* The results under a result exist and are what the recursion says.
LEMMA UnderDef ==
  ASSUME TypeOK, ResultsNested, NEW i \in DOMAIN results
  PROVE  Under[i] = results[i].needs \cup UNION {Under[k] : k \in results[i].needs}
<1> DEFINE N == Len(results)
           Body(g, k) == results[k].needs \cup UNION {g[j] : j \in results[k].needs}
           T == {n \in 0..N : \E g : g = [k \in 1..n |-> Body(g, k)]}
<1>1. N \in Nat /\ DOMAIN results = 1..N
  BY DEF TypeOK
<1>2. \A k \in 1..N : results[k].needs \subseteq 1..k-1
  BY <1>1 DEF ResultsNested, FitsIn
<1>3. 0 \in T
  <2> DEFINE g == [k \in 1..0 |-> {}]
  <2>1. g = [k \in 1..0 |-> Body(g, k)]
    OBVIOUS
  <2>2. 0 \in 0..N
    BY <1>1
  <2> HIDE DEF g, Body, N
  <2> QED
    BY <2>1, <2>2, Zenon
<1> HIDE DEF N
<1>4. ASSUME NEW n \in 1..N, n - 1 \in T PROVE n \in T
  <2>1. PICK g : g = [k \in 1..n-1 |-> Body(g, k)]
    BY <1>4
  <2> DEFINE h == [k \in 1..n |-> Body(g, k)]
  <2>2. \A k \in 1..n-1 : h[k] = g[k]
    <3> HIDE DEF Body
    <3>1. \A k \in 1..n-1 : g[k] = Body(g, k)
      BY <2>1, Zenon
    <3>2. \A k \in 1..n-1 : h[k] = Body(g, k)
      OBVIOUS
    <3> QED
      BY <3>1, <3>2, Zenon
  <2>3. ASSUME NEW k \in 1..n PROVE Body(h, k) = Body(g, k)
    <3>1. \A j \in results[k].needs : j \in 1..n-1
      BY <1>1, <1>2
    <3> HIDE DEF h
    <3>2. \A j \in results[k].needs : h[j] = g[j]
      BY <2>2, <3>1, Zenon
    <3> QED
      BY <3>2
  <2>4. h = [k \in 1..n |-> Body(h, k)]
    <3> HIDE DEF Body
    <3> QED
      BY <2>3
  <2> HIDE DEF h, Body
  <2> QED
    BY <1>1, <2>4
<1>5. N \in T
  <2> HIDE DEF T
  <2>1. \A n \in 0..N : n \in T
    BY <1>1, <1>3, <1>4, BoundedInduction
  <2> QED
    BY <1>1, <2>1
<1>6. PICK f : f = [k \in DOMAIN results |-> Body(f, k)]
  BY <1>1, <1>5
<1> DEFINE u == Under
<1>7. u = CHOOSE g : g = [k \in DOMAIN results |-> Body(g, k)]
  BY DEF Under
<1> HIDE DEF u
<1>8. u = [k \in DOMAIN results |-> Body(u, k)]
  <2> HIDE DEF Body
  <2> QED
    BY <1>6, <1>7, Zenon
<1> QED
  BY <1>8 DEF u

\* Where every argument has a value, everything under it has one; a bad argument is due
\* to a failure somewhere below.
THEOREM NestedFailureCorrect == Spec => []NestedFailure
<1>1. TypeOK /\ NestedDiscipline => NestedFailure
  <2> SUFFICES ASSUME TypeOK, NestedDiscipline PROVE NestedFailure
    OBVIOUS
  <2> DEFINE N == Len(results)
             Err(i) == results[i].err
             Passed == {"BadArgument", "UnresolvedSymbol"}
             Holds(i) == /\ Err(i) \notin Passed => \A k \in Under[i] : Err(k) = None
                         /\ Err(i) = "BadArgument" => \E k \in Under[i] : Err(k) \notin {None, "BadArgument"}
             T == {n \in 0..N : \A i \in 1..n : Holds(i)}
  <2>1. N \in Nat /\ DOMAIN results = 1..N
    BY DEF TypeOK
  <2>2. \A i \in 1..N : Under[i] = results[i].needs \cup UNION {Under[k] : k \in results[i].needs}
    BY <2>1, UnderDef DEF NestedDiscipline
  <2>3. \A i \in 1..N : /\ results[i].needs \subseteq 1..i-1
                        /\ Err(i) = "BadArgument" => \E k \in results[i].needs : Err(k) # None
                        /\ Err(i) \notin Passed => \A k \in results[i].needs : Err(k) = None
    BY <2>1 DEF NestedDiscipline, ResultsNested, FitsIn
  <2>4. None \notin Passed
    BY DEF None
  <2> HIDE DEF N, Err, Passed
  <2>5. 0 \in T
    BY <2>1
  <2>6. ASSUME NEW n \in 1..N, n - 1 \in T PROVE n \in T
    <3>1. \A k \in 1..n-1 : Holds(k)
      BY <2>6
    <3>2. \A k \in results[n].needs : Holds(k)
      BY <2>3, <3>1, Zenon
    <3>3. Holds(n)
      <4>1. ASSUME Err(n) \notin Passed, NEW k \in Under[n] PROVE Err(k) = None
        BY <2>2, <2>3, <2>4, <3>2, <4>1
      <4>2. ASSUME Err(n) = "BadArgument" PROVE \E k \in Under[n] : Err(k) \notin {None, "BadArgument"}
        <5>1. PICK k \in results[n].needs : Err(k) # None
          BY <2>3, <4>2
        <5>2. CASE Err(k) # "BadArgument"
          BY <2>2, <5>1, <5>2
        <5>3. CASE Err(k) = "BadArgument"
          <6>1. PICK j \in Under[k] : Err(j) \notin {None, "BadArgument"}
            BY <3>2, <5>3
          <6> QED
            BY <2>2, <6>1
        <5> QED
          BY <5>2, <5>3
      <4> QED
        BY <4>1, <4>2
    <3> HIDE DEF Holds
    <3>4. \A i \in 1..n : i \in 1..n-1 \/ i = n
      OBVIOUS
    <3>5. n \in 0..N
      OBVIOUS
    <3> QED
      BY <3>1, <3>3, <3>4, <3>5, Zenon
  <2>7. N \in T
    <3> HIDE DEF T
    <3>1. \A n \in 0..N : n \in T
      BY <2>1, <2>5, <2>6, BoundedInduction
    <3> QED
      BY <2>1, <3>1
  <2>8. \A i \in 1..N : Holds(i)
    BY <2>7
  <2>9. ASSUME NEW i \in DOMAIN calls, NEW k \in Under[calls[i].result] PROVE Err(k) = None
    <3>1. calls[i].result \in 1..N /\ \A j \in results[calls[i].result].needs : Err(j) = None
      BY <2>1 DEF NestedDiscipline, CallsNested, Err
    <3>2. PICK r \in 1..N : r = calls[i].result
      BY <3>1
    <3>3. \A j \in results[r].needs : j \in 1..N /\ Err(j) = None
      BY <2>1, <2>3, <3>1, <3>2
    <3> QED
      BY <2>2, <2>4, <2>8, <3>2, <3>3
  <2>10. ASSUME NEW i \in DOMAIN results
         PROVE  /\ Err(i) = "BadArgument" => \E k \in Under[i] : Err(k) \notin {None, "BadArgument"}
                /\ (\E k \in Under[i] : Err(k) # None) => Err(i) \in Passed
    BY <2>1, <2>8
  <2> QED
    BY <2>9, <2>10, Zenon DEF NestedFailure, Err, Passed
<1> QED
  BY <1>1, TypeCorrect, NestedInvariant, PTL

----------------------------------------------------------------------------
(* Snapshots *)

\* A snapshot taken now holds the registers of now.
LEMMA FromType ==
  ASSUME TypeOK PROVE From = child
<1>1. child \in RegisterStates /\ arch \in Arches
  BY DEF TypeOK
<1>2. Names(arch) = IF arch = "x86_64" THEN X64General ELSE Aarch64All
  BY DEF Names
<1> QED
  BY <1>1, <1>2 DEF From, FromX64, FromAarch64, RegisterStates

\* Every snapshot stays what it was taken from, whatever the program does meanwhile.
LEMMA SnapshotInvariant == Spec => []SnapshotDiscipline
<1>1. Init => SnapshotDiscipline
  BY DEF Init, SnapshotDiscipline
<1>2. TypeOK /\ SnapshotDiscipline /\ [Next]_vars => SnapshotDiscipline'
  <2> SUFFICES ASSUME TypeOK, SnapshotDiscipline, [Next]_vars PROVE SnapshotDiscipline'
    OBVIOUS
  <2>0. CASE UNCHANGED <<arch, snaps, seen>>
    BY <2>0, Zenon DEF SnapshotDiscipline, RegisterStates
  <2>1. ASSUME NEW outcome, Unwind(outcome) PROVE SnapshotDiscipline'
    BY <2>1 DEF Unwind, SnapshotDiscipline
  <2>2. ASSUME NEW s \in Slots, TakeSnapshot(s) PROVE SnapshotDiscipline'
    BY <2>2, FromType DEF TakeSnapshot, SnapshotDiscipline, Put, TypeOK, RegisterStates
  <2>3. ASSUME NEW s \in Slots, NEW t \in Slots, CopySnapshot(s, t) PROVE SnapshotDiscipline'
    BY <2>3 DEF CopySnapshot, SnapshotDiscipline, Put, RegisterStates
  <2> QED
    BY <2>0, <2>1, <2>2, <2>3
       DEF Next, vars, LoadProgram, ReadForeign, SetValueThrows, CallRefused, CallReturns, CallCutOff,
           CallExits, GetValue
<1> QED
  BY <1>1, <1>2, TypeCorrect, PTL DEF Spec

----------------------------------------------------------------------------
(* Snapshots around a call *)

\* The registers valid_pcs compares are not those the tracer itself sets up.
LEMMA CheckedApart ==
  ASSUME arch \in Arches
  PROVE  /\ Checked(arch) \ {"sp"} \subseteq Names(arch)
         /\ \A r \in Checked(arch) \ {"sp"} : \A i \in 1..6 : ArgRegisters[i] # r
         /\ arch # "x86_64" => X(30) \notin Checked(arch)
<1>1. CASE arch = "x86_64"
  BY <1>1 DEF Checked, Names, X64Checked, X64General, ArgRegisters
<1>2. CASE arch # "x86_64"
  <2>1. Checked(arch) \ {"sp"} \subseteq Aarch64Checked /\ Names(arch) = Aarch64All
    BY <1>2 DEF Checked, Names
  <2>2. ASSUME NEW r \in Aarch64Checked
        PROVE  \/ \E n \in 19..29 : r = X(n)
               \/ \E n \in 8..31 : r = Q(n)
    BY DEF Aarch64Checked
  <2>3. Aarch64Checked \subseteq Aarch64All
    BY DEF Aarch64Checked, Aarch64All, Aarch64General, Aarch64Vector
  <2>4. \A i \in 1..6 : ArgRegisters[i] = X(i - 1)
    BY <1>2 DEF ArgRegisters
  <2>5. ASSUME NEW r \in Aarch64Checked, NEW n \in 0..30, n \in 0..5 \/ n = 30 PROVE X(n) # r
    BY <2>2, <2>5, NamesApart
  <2>6. X(30) # "sp" /\ "sp" \notin Aarch64All
    BY NamesApart DEF Aarch64All, Aarch64General
  <2>7. ASSUME NEW r \in Aarch64Checked, NEW i \in 1..6 PROVE ArgRegisters[i] # r
    <3>1. i - 1 \in 0..5 /\ i - 1 \in 0..30
      OBVIOUS
    <3> QED
      BY <2>4, <2>5, <3>1
  <2>8. X(30) \notin Aarch64Checked
    BY <2>5
  <2> QED
    BY <1>2, <2>1, <2>3, <2>6, <2>7, <2>8
<1> QED
  BY <1>1, <1>2

\* They are the same when a callee starts.
LEMMA EntryKeeps ==
  ASSUME arch \in Arches, child \in RegisterStates, NEW args \in Args, NEW r \in Checked(arch) \ {"sp"}
  PROVE  Entry(args).regs[r] = child.regs[r]
<1> DEFINE ready == ReturnSetup(child)
           used == [i \in DOMAIN args |-> ArgRegisters[i]]
<1>1. r \in Names(arch) /\ (arch # "x86_64" => r # X(30))
  BY CheckedApart
<1>2. ready.regs[r] = child.regs[r] /\ r \in DOMAIN ready.regs
  BY <1>1, ReadyType DEF RegisterStates
<1>3. r \notin ToSet(used)
  <2>1. \A i \in DOMAIN args : i \in 1..6
    BY ArgsType
  <2> QED
    BY <2>1, CheckedApart DEF ToSet
<1>4. ready \in RegisterStates
  BY ReadyType
<1>5. Entry(args).regs = [q \in DOMAIN ready.regs |->
                            IF q \in ToSet(used) THEN Unwrapped(args[CHOOSE i \in DOMAIN args : used[i] = q])
                                                 ELSE ready.regs[q]]
  <2> HIDE DEF used
  <2> QED
    BY <1>4 DEF Entry, RegisterStates, used
<1> HIDE DEF ready, used
<1> QED
  BY <1>2, <1>3, <1>5

\* What a callee that returned has left is around its call.
LEMMA LeftAround ==
  ASSUME TypeOK, NEW args \in Args, NEW changed \in Changes, NEW moved \in Moves, NEW flags \in FlagSets,
         NEW call, call.changed = changed, call.moved = moved
  PROVE  Around(arch, child, Left(Entry(args), changed, moved, flags), call)
<1> DEFINE after == Left(Entry(args), changed, moved, flags)
<1>1. arch \in Arches /\ child \in RegisterStates /\ results \in Seq(Results)
  BY DEF TypeOK
<1>2. Entry(args) \in EntryStates /\ Entry(args).sp = child.sp - Popped
  BY <1>1, EntryType
<1>3. after.sp = child.sp + moved
  <2>1. child.sp \in Int /\ moved \in Int /\ Popped \in Int
    BY <1>1, MovesAssumption DEF RegisterStates, Popped
  <2>2. after.sp = Entry(args).sp + Popped + moved
    BY <1>1, <1>2, LeftType
  <2> HIDE DEF after
  <2>3. after.sp = (child.sp - Popped) + Popped + moved
    BY <1>2, <2>2, Zenon
  <2>4. (child.sp - Popped) + Popped + moved = child.sp + moved
    BY <2>1
  <2> QED
    BY <2>3, <2>4, Zenon
<1>4. ASSUME NEW r \in Checked(arch) \ {"sp"}
      PROVE  after.regs[r] = IF \E p \in Pieces(r) : <<r, p>> \in changed
                             THEN Toggled(child.regs[r], CHOOSE p \in Pieces(r) : <<r, p>> \in changed)
                             ELSE child.regs[r]
  <2>1. Entry(args).regs[r] = child.regs[r]
    BY <1>1, EntryKeeps
  <2>2. r \in DOMAIN Entry(args).regs
    BY <1>1, <1>2, CheckedApart DEF EntryStates
  <2>3. after.regs[r] = IF \E p \in Pieces(r) : <<r, p>> \in changed
                        THEN Toggled(Entry(args).regs[r], CHOOSE p \in Pieces(r) : <<r, p>> \in changed)
                        ELSE Entry(args).regs[r]
    BY <1>2, <2>2 DEF Left, EntryStates
  <2> HIDE DEF after
  <2> QED
    BY <2>1, <2>3
<1> HIDE DEF after
<1> QED
  <2>1. changed = {} \/ \E c \in Touched : changed = {c}
    BY DEF Changes
  <2> QED
    BY <1>3, <1>4, <2>1, Zenon DEF Around, after

\* A result that no call adds leaves nothing to be known about a last call.
LEMMA PcsAdded ==
  ASSUME TypeOK, NestedDiscipline, PcsDiscipline, NEW needs, NEW err, NEW val, Added(needs, err, val),
         UNCHANGED <<arch, child, seen, calls>>
  PROVE  PcsDiscipline'
<1>1. Len(results) \in Nat /\ Len(results') = Len(results) + 1 /\ DOMAIN results = 1..Len(results)
  BY ResultsKept
<1>2. ~LastReturned'
  <2>1. ASSUME calls # <<>> PROVE Last(calls).result # Len(results) + 1
    <3>1. Last(calls) = calls[Len(calls)] /\ Len(calls) \in DOMAIN calls
      BY <2>1 DEF Last, TypeOK
    <3>2. calls[Len(calls)].result \in 1..Len(results)
      BY <1>1, <3>1 DEF NestedDiscipline, CallsNested
    <3> QED
      BY <1>1, <3>1, <3>2
  <2> QED
    BY <1>1, <2>1 DEF LastReturned
<1>3. ASSUME NEW s \in DOMAIN seen
      PROVE  seen[s].ops \in 0..Len(results') /\ seen[s].ops # Len(results')
  BY <1>1, <1>3 DEF PcsDiscipline
<1> QED
  BY <1>2, <1>3, Zenon DEF PcsDiscipline

\* Neither does a call that did not return.
LEMMA PcsCut ==
  ASSUME TypeOK, TypeOK', PcsDiscipline, NEW args \in Args, NEW err \in CutOffs, NEW entry, NEW changed,
         NEW moved, Called(Needs(args), err, {}, entry, changed, moved), UNCHANGED <<arch, seen>>
  PROVE  PcsDiscipline'
<1> DEFINE r == Result(Needs(args), err, {})
<1>1. r \in Results
  BY NeedsType DEF Result, Results, Errors
<1>2. results' = Append(results, r)
  BY DEF Called
<1>3. r.err # None
  BY DEF Result, None, CutOffs
<1> HIDE DEF r
<1>4. Len(results) \in Nat /\ Len(results') = Len(results) + 1 /\ results'[Len(results')] = r
  BY <1>1, <1>2 DEF TypeOK
<1>5. ~LastReturned'
  BY <1>3, <1>4, Zenon DEF LastReturned
<1>6. ASSUME NEW s \in DOMAIN seen
      PROVE  seen[s].ops \in 0..Len(results') /\ seen[s].ops # Len(results')
  BY <1>4, <1>6 DEF PcsDiscipline
<1> QED
  BY <1>5, <1>6, Zenon DEF PcsDiscipline

\* Snapshots say what the registers were just before and just after a call that returned.
LEMMA PcsInvariant == Spec => []PcsDiscipline
<1>1. Init => PcsDiscipline
  BY DEF Init, PcsDiscipline
<1>2. TypeOK /\ TypeOK' /\ NestedDiscipline /\ SnapshotDiscipline /\ PcsDiscipline /\ [Next]_vars => PcsDiscipline'
  <2> SUFFICES ASSUME TypeOK, TypeOK', NestedDiscipline, SnapshotDiscipline, PcsDiscipline, [Next]_vars
               PROVE  PcsDiscipline'
    OBVIOUS
  <2>0. CASE UNCHANGED <<arch, child, results, seen, calls>>
    BY <2>0, Zenon DEF PcsDiscipline, LastReturned
  <2>1. ASSUME NEW outcome, Unwind(outcome) PROVE PcsDiscipline'
    BY <2>1 DEF Unwind, PcsDiscipline
  <2>2. ASSUME NEW args \in Args, NEW name, CallRefused(name, args) PROVE PcsDiscipline'
    <3>1. Added(Needs(args), Failure(name, args), {})
      <4>1. Failure(name, args) \in Errors
        BY DEF Failure, Errors
      <4>2. Needs(args) \in SUBSET Nat /\ {} \in SUBSET Widths
        BY NeedsType
      <4>3. Result(Needs(args), Failure(name, args), {}) \in Results
        BY <4>1, <4>2 DEF Result, Results
      <4> QED
        BY <2>2, <4>3, FailureFits, Zenon DEF Added, CallRefused
    <3> QED
      BY <2>2, <3>1, PcsAdded, Zenon DEF CallRefused
  <2>3. ASSUME NEW args \in Args, NEW name, CallReturns(name, args) PROVE PcsDiscipline'
    <3>1. PICK changed \in Changes, moved \in Moves, flags \in FlagSets :
            /\ child' = Left(Entry(args), changed, moved, flags)
            /\ Called(Needs(args), None, child'.regs[ReturnRegister], Entry(args), changed, moved)
      BY <2>3 DEF CallReturns
    <3>2. arch' = arch /\ seen' = seen
      BY <2>3 DEF CallReturns
    <3> DEFINE call == [result |-> Len(results) + 1, sp |-> Entry(args).sp, after |-> disturbed,
                        changed |-> changed, moved |-> moved]
               r == Result(Needs(args), None, child'.regs[ReturnRegister])
    <3>3. calls' = Append(calls, call) /\ results' = Append(results, r)
      BY <3>1 DEF Called
    <3>4. call.changed = changed /\ call.moved = moved
      OBVIOUS
    <3> HIDE DEF call, r
    <3>5. Last(calls') = call
      <4>0. \E S : calls \in Seq(S)
        BY DEF TypeOK
      <4>1. calls' # <<>> /\ calls'[Len(calls')] = call
        BY <3>3, <4>0
      <4> QED
        BY <4>1, Zenon DEF Last
    <3>6. Len(results) \in Nat /\ Len(results') = Len(results) + 1 /\ Len(results') - 1 = Len(results)
      BY <3>3 DEF TypeOK
    <3>7. Around(arch, child, child', call)
      BY <3>1, <3>4, LeftAround, Zenon
    <3>9. ASSUME NEW s \in DOMAIN seen
          PROVE  /\ seen[s].ops \in 0..Len(results') /\ seen[s].ops # Len(results')
                 /\ seen[s].ops = Len(results') - 1 => seen[s].of = child
      BY <3>6 DEF PcsDiscipline
    <3>10. ASSUME NEW s \in DOMAIN seen, seen[s].ops = Len(results') - 1
           PROVE  Around(arch, seen[s].of, child', Last(calls'))
      BY <3>5, <3>7, <3>9, <3>10, Zenon
    <3> QED
      BY <3>2, <3>9, <3>10, Zenon DEF PcsDiscipline
  <2>4. ASSUME NEW args \in Args, NEW name, CallCutOff(name, args) PROVE PcsDiscipline'
    BY <2>4, PcsCut, CutOff, Zenon DEF CallCutOff
  <2>5. ASSUME NEW args \in Args, NEW name, CallExits(name, args) PROVE PcsDiscipline'
    <3>1. "UnexpectedReturn" \in CutOffs
      BY DEF CutOffs
    <3> QED
      BY <2>5, <3>1, PcsCut, Zenon DEF CallExits
  <2>6. ASSUME NEW name, GetValue(name) PROVE PcsDiscipline'
    <3>1. PICK err \in {"UnresolvedSymbol", "SyscallFailure", None}, val \in {{16}, {}} :
            results' = Append(results, Result({}, err, val))
      BY <2>6 DEF GetValue
    <3>2. Result({}, err, val) \in Results
      BY DEF Result, Results, Widths, Errors
    <3>3. FitsIn(results, {}, err, Len(results))
      BY DEF FitsIn, None
    <3>4. Added({}, err, val)
      BY <3>1, <3>2, <3>3, Zenon DEF Added
    <3> QED
      BY <2>6, <3>4, PcsAdded, Zenon DEF GetValue
  <2>7. ASSUME NEW s \in Slots, TakeSnapshot(s) PROVE PcsDiscipline'
    <3>1. Len(results) \in Nat
      BY DEF TypeOK
    <3>2. /\ DOMAIN seen' = DOMAIN seen \cup {s}
          /\ seen'[s].of = child /\ seen'[s].ops = Len(results)
          /\ \A t \in DOMAIN seen \ {s} : seen'[t] = seen[t]
      BY <2>7 DEF TakeSnapshot, Put
    <3>3. /\ arch' = arch /\ child' = child /\ results' = results /\ calls' = calls
          /\ LastReturned' = LastReturned
      BY <2>7 DEF TakeSnapshot, LastReturned
    <3>4. Len(results) \in 0..Len(results) /\ Len(results) # Len(results) - 1
      BY <3>1
    <3>5. \A t \in DOMAIN seen' : t = s \/ (t \in DOMAIN seen \ {s})
      BY <3>2
    <3> QED
      BY <3>2, <3>3, <3>4, <3>5, Zenon DEF PcsDiscipline
  <2>8. ASSUME NEW s \in Slots, NEW t \in Slots, CopySnapshot(s, t) PROVE PcsDiscipline'
    <3>1. /\ DOMAIN seen' = DOMAIN seen \cup {t}
          /\ seen'[t] = seen[s]
          /\ \A u \in DOMAIN seen \ {t} : seen'[u] = seen[u]
      BY <2>8 DEF CopySnapshot, Put
    <3>2. s \in DOMAIN seen
      BY <2>8 DEF CopySnapshot, SnapshotDiscipline
    <3>3. seen'[t].of = seen[s].of /\ seen'[t].ops = seen[s].ops
      BY <3>1
    <3>4. /\ arch' = arch /\ child' = child /\ results' = results /\ calls' = calls
          /\ LastReturned' = LastReturned
      BY <2>8 DEF CopySnapshot, LastReturned
    <3>5. ASSUME NEW u \in DOMAIN seen'
          PROVE  \E v \in DOMAIN seen : seen'[u].of = seen[v].of /\ seen'[u].ops = seen[v].ops
      BY <3>1, <3>2, <3>3
    <3> QED
      BY <3>4, <3>5, Zenon DEF PcsDiscipline
  <2> QED
    BY <2>0, <2>1, <2>2, <2>3, <2>4, <2>5, <2>6, <2>7, <2>8
       DEF Next, vars, LoadProgram, ReadForeign, SetValueThrows
<1> QED
  BY <1>1, <1>2, TypeCorrect, NestedInvariant, SnapshotInvariant, PTL DEF Spec

\* A piece changes what a register shows in 64 bits exactly when it is one of those.
LEMMA ToggledShows ==
  ASSUME NEW content, NEW p \in Widths
  PROVE  As(Toggled(content, p), 64) # As(content, 64) <=> p <= 64
<1>1. CASE p <= 64
  <2>1. p \in As(Toggled(content, p), 64) <=> p \notin As(content, 64)
    BY <1>1 DEF As, Toggled
  <2> QED
    BY <1>1, <2>1, Zenon
<1>2. CASE ~(p <= 64)
  <2>1. \A q : q \in As(Toggled(content, p), 64) <=> q \in As(content, 64)
    BY <1>2 DEF As, Toggled
  <2>2. As(Toggled(content, p), 64) = As(content, 64)
    BY <2>1
  <2> QED
    BY <1>2, <2>2, Zenon
<1> QED
  BY <1>1, <1>2

\* The registers compared are preserved ones, or vector registers; of the preserved ones
\* only r15 is not compared.
LEMMA CheckedSaved ==
  ASSUME arch \in Arches
  PROVE  /\ CalleeSaved \ {"r15"} \subseteq Checked(arch) \ {"sp"}
         /\ Checked(arch) \ {"sp"} \subseteq CalleeSaved \cup Aarch64Vector
<1>1. CASE arch = "x86_64"
  BY <1>1 DEF CalleeSaved, Checked, X64Checked
<1>2. CASE arch # "x86_64"
  <2>1. CalleeSaved = Aarch64Saved /\ Checked(arch) = {"sp"} \cup Aarch64Checked
    BY <1>2 DEF CalleeSaved, Checked
  <2>2. Aarch64Saved \subseteq Aarch64Checked
    BY DEF Aarch64Saved, Aarch64Checked
  <2>3. "sp" \notin Aarch64Checked
    <3>1. Aarch64Checked \subseteq Aarch64All
      BY DEF Aarch64Checked, Aarch64All, Aarch64General, Aarch64Vector
    <3> QED
      BY <3>1, NamesApart
  <2>4. Aarch64Checked \subseteq Aarch64Saved \cup Aarch64Vector
    BY DEF Aarch64Saved, Aarch64Checked, Aarch64Vector
  <2> QED
    BY <2>1, <2>2, <2>3, <2>4
<1> QED
  BY <1>1, <1>2

\* What valid_pcs says of states around a call: it names the touched registers it compares.
LEMMA VerdictAround ==
  ASSUME arch \in Arches, NEW before \in RegisterStates, NEW after, NEW call, call.moved \in Int,
         Around(arch, before, after, call)
  PROVE  LET verdict == ValidPcs(arch, before, after)
             lost    == {c[1] : c \in {c \in call.changed : c[2] <= 64}}
         IN  /\ "sp" \in verdict <=> call.moved # 0
             /\ \A r \in Checked(arch) \ {"sp"} : r \in verdict <=> r \in lost
             /\ verdict \subseteq Checked(arch)
<1> DEFINE verdict == ValidPcs(arch, before, after)
           lost == {c[1] : c \in {c \in call.changed : c[2] <= 64}}
<1>1. "sp" \in verdict <=> call.moved # 0
  <2>1. after.sp = before.sp + call.moved
    BY Zenon DEF Around
  <2>2. before.sp \in Int
    BY DEF RegisterStates
  <2>3. before.sp # before.sp + call.moved <=> call.moved # 0
    BY <2>2
  <2>4. "sp" \in verdict <=> before.sp # after.sp
    BY DEF ValidPcs, Checked
  <2> QED
    BY <2>1, <2>3, <2>4, Zenon
<1>2. ASSUME NEW r \in Checked(arch) \ {"sp"} PROVE r \in verdict <=> r \in lost
  <2>1. r \in verdict <=> As(before.regs[r], 64) # As(after.regs[r], 64)
    BY DEF ValidPcs
  <2>2. after.regs[r] = IF \E p \in Pieces(r) : <<r, p>> \in call.changed
                        THEN Toggled(before.regs[r], CHOOSE p \in Pieces(r) : <<r, p>> \in call.changed)
                        ELSE before.regs[r]
    BY Zenon DEF Around
  <2>3. CASE \E p \in Pieces(r) : <<r, p>> \in call.changed
    <3>1. PICK p \in Pieces(r) : p = CHOOSE q \in Pieces(r) : <<r, q>> \in call.changed
      BY <2>3
    <3>2. <<r, p>> \in call.changed
      BY <2>3, <3>1
    <3>3. call.changed = {<<r, p>>}
      BY <3>2, Zenon DEF Around
    <3>4. r \in lost <=> p <= 64
      <4>1. \A c \in call.changed : c[1] = r /\ c[2] = p
        BY <3>3
      <4>2. r \in lost <=> \E c \in call.changed : c[2] <= 64 /\ r = c[1]
        OBVIOUS
      <4> HIDE DEF lost
      <4> QED
        BY <3>2, <4>1, <4>2, Zenon
    <3>5. after.regs[r] = Toggled(before.regs[r], p)
      BY <2>2, <2>3, <3>1, Zenon
    <3>6. p \in Widths
      BY PiecesType
    <3> HIDE DEF lost, verdict
    <3> QED
      BY <2>1, <3>4, <3>5, <3>6, ToggledShows
  <2>4. CASE ~ \E p \in Pieces(r) : <<r, p>> \in call.changed
    <3>1. r \notin lost
      <4> SUFFICES ASSUME NEW c \in call.changed, c[1] = r PROVE FALSE
        OBVIOUS
      <4>1. c \in Touched
        BY Zenon DEF Around
      <4>2. c = <<c[1], c[2]>> /\ c[2] \in Pieces(c[1])
        BY <4>1, TouchedAssumption
      <4> QED
        BY <2>4, <4>2, Zenon
    <3>2. after.regs[r] = before.regs[r]
      BY <2>2, <2>4, Zenon
    <3> HIDE DEF lost, verdict
    <3> QED
      BY <2>1, <3>1, <3>2, Zenon
  <2> QED
    BY <2>3, <2>4
<1>3. verdict \subseteq Checked(arch)
  BY DEF ValidPcs
<1> QED
  BY <1>1, <1>2, <1>3, Zenon

\* valid_pcs on snapshots around one call names what the callee did not preserve, but for
\* the exceptions, and nothing the tracer has set up.
THEOREM PcsVerdictCorrect == Spec => []PcsVerdict
<1>1. TypeOK /\ SnapshotDiscipline /\ PcsDiscipline => PcsVerdict
  <2> SUFFICES ASSUME TypeOK, SnapshotDiscipline, PcsDiscipline PROVE PcsVerdict
    OBVIOUS
  <2> DEFINE call == Last(calls)
             before == snaps["before"].s
             after == snaps["after"].s
             verdict == ValidPcs(arch, before, after)
             lost == {c[1] : c \in {c \in call.changed : c[2] <= 64}}
  <2> SUFFICES ASSUME calls # <<>>, Slots \subseteq DOMAIN snaps,
                      call.result = Len(results), results[call.result].err = None,
                      seen["before"].ops = Len(results) - 1, seen["after"].ops = Len(results)
               PROVE  /\ lost \cap (CalleeSaved \ {"r15"}) \subseteq verdict
                      /\ verdict \ {"sp"} \subseteq lost \cap (CalleeSaved \cup Aarch64Vector)
                      /\ "sp" \in verdict <=> call.moved # 0
                      /\ arch = "x86_64" => "r15" \notin verdict
    BY Zenon DEF PcsVerdict, AroundCall, Verdict, Lost
  <2>1. "before" \in DOMAIN seen /\ "after" \in DOMAIN seen /\ arch \in Arches
    BY DEF SnapshotDiscipline, Slots, TypeOK
  <2>2. before = seen["before"].of /\ after = seen["after"].of /\ before \in RegisterStates
    BY <2>1, Zenon DEF SnapshotDiscipline
  <2>3. LastReturned
    BY Zenon DEF LastReturned
  <2>4. after = child
    BY <2>1, <2>2, Zenon DEF PcsDiscipline
  <2>5. Around(arch, before, after, call)
    BY <2>1, <2>2, <2>3, <2>4, Zenon DEF PcsDiscipline
  <2>6. call.moved \in Int
    <3>1. call = calls[Len(calls)] /\ Len(calls) \in DOMAIN calls
      BY DEF Last, TypeOK
    <3>2. calls[Len(calls)] \in Calls
      BY <3>1 DEF TypeOK
    <3> QED
      BY <3>1, <3>2 DEF Calls
  <2> HIDE DEF call, before, after
  <2>7. /\ "sp" \in verdict <=> call.moved # 0
        /\ \A r \in Checked(arch) \ {"sp"} : r \in verdict <=> r \in lost
        /\ verdict \subseteq Checked(arch)
    BY <2>1, <2>2, <2>5, <2>6, VerdictAround
  <2>8. /\ CalleeSaved \ {"r15"} \subseteq Checked(arch) \ {"sp"}
        /\ Checked(arch) \ {"sp"} \subseteq CalleeSaved \cup Aarch64Vector
    BY <2>1, CheckedSaved
  <2>9. arch = "x86_64" => "r15" \notin Checked(arch)
    BY DEF Checked, X64Checked
  <2> HIDE DEF verdict, lost
  <2> QED
    BY <2>7, <2>8, <2>9
<1> QED
  BY <1>1, TypeCorrect, SnapshotInvariant, PcsInvariant, PTL
=============================================================================
