---- MODULE CallTracerProofs ----
(***************************************************************************)
(* Proofs about CallTracer, for every set of addresses, every program      *)
(* behaviour in Env and every depth of the call stack.                     *)
(***************************************************************************)
EXTENDS CallTracer, FiniteSetTheorems, SequenceTheorems, TLAPS

(***************************************************************************)
(* References held by a sequence of frames.                                *)
(***************************************************************************)

Refs(s, a, i) == {k \in i..Len(s) : s[k].return_addr = a}

\* A stack of frames holds a finite number of references to a breakpoint.
LEMMA RefsFinite ==
  ASSUME NEW S, NEW s \in Seq(S), NEW a, NEW i \in Nat \ {0}
  PROVE  IsFiniteSet(Refs(s, a, i)) /\ Cardinality(Refs(s, a, i)) \in Nat
<1>1. IsFiniteSet(i..Len(s))
  BY FS_Interval, LenProperties
<1>2. Refs(s, a, i) \subseteq i..Len(s)
  BY DEF Refs
<1> QED
  BY <1>1, <1>2, FS_Subset, FS_CardinalityType

\* Pushing a frame adds one reference, to the breakpoint at its return address.
LEMMA RefsPush ==
  ASSUME NEW S, NEW s \in Seq(S), NEW e \in S, NEW a
  PROVE  Cardinality(Refs(Append(s, e), a, 1)) =
           Cardinality(Refs(s, a, 1)) + (IF e.return_addr = a THEN 1 ELSE 0)
<1> DEFINE n == Len(s) + 1
           t == Append(s, e)
<1>1. /\ t \in Seq(S) /\ Len(t) = n /\ t[n] = e
      /\ \A k \in 1..Len(s) : t[k] = s[k]
  BY AppendProperties
<1>2. Len(s) \in Nat
  BY LenProperties
<1>3. IsFiniteSet(Refs(s, a, 1)) /\ Cardinality(Refs(s, a, 1)) \in Nat
  BY RefsFinite
<1>4. n \notin Refs(s, a, 1)
  BY <1>2 DEF Refs
<1>5. CASE e.return_addr = a
  <2>1. Refs(t, a, 1) = Refs(s, a, 1) \cup {n}
    BY <1>1, <1>2, <1>5 DEF Refs
  <2> QED
    BY <2>1, <1>3, <1>4, <1>5, FS_AddElement
<1>6. CASE e.return_addr # a
  <2>1. Refs(t, a, 1) = Refs(s, a, 1)
    BY <1>1, <1>2, <1>6 DEF Refs
  <2> QED
    BY <2>1, <1>3, <1>6
<1> QED
  BY <1>5, <1>6

\* Cutting a stack at i takes away the references held from i on.
LEMMA RefsCut ==
  ASSUME NEW S, NEW s \in Seq(S), NEW a, NEW i \in 1..Len(s)
  PROVE  /\ SubSeq(s, 1, i - 1) \in Seq(S)
         /\ Len(SubSeq(s, 1, i - 1)) = i - 1
         /\ \A k \in 1..(i - 1) : SubSeq(s, 1, i - 1)[k] = s[k]
         /\ Cardinality(Refs(SubSeq(s, 1, i - 1), a, 1)) =
              Cardinality(Refs(s, a, 1)) - Cardinality(Refs(s, a, i))
<1> DEFINE t == SubSeq(s, 1, i - 1)
<1>1. Len(s) \in Nat /\ i \in Nat \ {0} /\ i <= Len(s)
  BY LenProperties
<1>2. \A k \in 1..(i - 1) : s[k] \in S
  BY <1>1, ElementOfSeq
<1>3. /\ t \in Seq(S)
      /\ Len(t) = i - 1
      /\ \A k \in 1..(i - 1) : t[k] = s[k]
  BY <1>1, <1>2, SubSeqProperties
<1>4. Refs(s, a, 1) = Refs(t, a, 1) \cup Refs(s, a, i)
  BY <1>1, <1>3 DEF Refs
<1>5. Refs(t, a, 1) \cap Refs(s, a, i) = {}
  BY <1>1, <1>3 DEF Refs
<1>6. /\ IsFiniteSet(Refs(t, a, 1)) /\ Cardinality(Refs(t, a, 1)) \in Nat
      /\ IsFiniteSet(Refs(s, a, i)) /\ Cardinality(Refs(s, a, i)) \in Nat
  <2>1. t \in Seq(S) /\ 1 \in Nat \ {0}
    BY <1>3
  <2>2. IsFiniteSet(Refs(t, a, 1)) /\ Cardinality(Refs(t, a, 1)) \in Nat
    BY <2>1, RefsFinite
  <2>3. IsFiniteSet(Refs(s, a, i)) /\ Cardinality(Refs(s, a, i)) \in Nat
    BY <1>1, RefsFinite
  <2> QED
    BY <2>2, <2>3
<1>7. Cardinality(Refs(s, a, 1)) =
        Cardinality(Refs(t, a, 1)) + Cardinality(Refs(s, a, i)) - Cardinality({})
  BY <1>4, <1>5, <1>6, FS_Union
<1> QED
  BY <1>3, <1>6, <1>7, FS_EmptySet

(***************************************************************************)
(* The types and the reference counts, one invariant: that a count stays   *)
(* natural follows from what it counts.                                    *)
(***************************************************************************)

RealCall == [fn : Entry, ret : Site, seen : BOOLEAN]

Counts == TypeOK /\ RefCount

\* A frame returns to an address, or to NULL if it is a system call's.
LEMMA FrameShape ==
  ASSUME NEW e \in Frames
  PROVE  /\ e.is_syscall \in BOOLEAN
         /\ e.is_syscall => e.return_addr = NULL /\ e.c_un \in Sys \cup {SigReturn}
         /\ ~e.is_syscall => e.return_addr \in Addr /\ e.c_un \in Entry
         /\ e = IF e.is_syscall THEN SyscallFrame(e.c_un) ELSE SymFrame(e.c_un, e.return_addr)
<1>1. CASE \E n \in Sys \cup {SigReturn} : e = SyscallFrame(n)
  BY <1>1 DEF SyscallFrame
<1>2. CASE \E f \in Entry, r \in Addr : e = SymFrame(f, r)
  BY <1>2 DEF SymFrame
<1> QED
  BY <1>1, <1>2 DEF Frames

\* The counts of a stack after a push and after a cut, given those before.
LEMMA CountPush ==
  ASSUME NEW s \in Seq(Frames), NEW e \in Frames, NEW cnt,
         \A a \in Addr : cnt[a] = SymCount[a] + Cardinality(Refs(s, a, 1))
  PROVE  /\ Append(s, e) \in Seq(Frames) /\ Len(Append(s, e)) = Len(s) + 1
         /\ \A a \in Addr :
              SymCount[a] + Cardinality(Refs(Append(s, e), a, 1)) =
                cnt[a] + (IF e.return_addr = a THEN 1 ELSE 0)
<1>1. \A a \in Addr : Cardinality(Refs(s, a, 1)) \in Nat
  BY RefsFinite
<1>2. \A a \in Addr : Cardinality(Refs(Append(s, e), a, 1)) =
           Cardinality(Refs(s, a, 1)) + (IF e.return_addr = a THEN 1 ELSE 0)
  BY RefsPush
<1> QED
  BY <1>1, <1>2, AppendProperties, AddrAssumption

LEMMA CountCut ==
  ASSUME NEW s \in Seq(Frames), NEW i \in 1..Len(s), NEW cnt,
         \A a \in Addr : cnt[a] = SymCount[a] + Cardinality(Refs(s, a, 1))
  PROVE  /\ SubSeq(s, 1, i - 1) \in Seq(Frames) /\ Len(SubSeq(s, 1, i - 1)) = i - 1
         /\ \A a \in Addr :
              /\ cnt[a] - Cardinality(Refs(s, a, i)) =
                   SymCount[a] + Cardinality(Refs(SubSeq(s, 1, i - 1), a, 1))
              /\ cnt[a] - Cardinality(Refs(s, a, i)) \in Nat
<1>1. i \in Nat \ {0} /\ 1 \in Nat \ {0}
  BY LenProperties
<1>2. \A a \in Addr : /\ Cardinality(Refs(s, a, 1)) \in Nat
                      /\ Cardinality(Refs(s, a, i)) \in Nat
  BY <1>1, RefsFinite
<1>3. /\ SubSeq(s, 1, i - 1) \in Seq(Frames)
      /\ Len(SubSeq(s, 1, i - 1)) = i - 1
      /\ \A a \in Addr : Cardinality(Refs(SubSeq(s, 1, i - 1), a, 1)) =
                           Cardinality(Refs(s, a, 1)) - Cardinality(Refs(s, a, i))
  BY RefsCut
<1>4. \A a \in Addr : Cardinality(Refs(SubSeq(s, 1, i - 1), a, 1)) \in Nat
  BY <1>1, <1>3, RefsFinite
<1> QED
  BY <1>2, <1>3, <1>4, AddrAssumption

LEMMA HoldingIsRefs ==
  /\ \A a, i : Holding(a, i) = Refs(callstack, a, i)
  /\ \A a, i : Holding(a, i)' = Refs(callstack', a, i)
BY DEF Holding, Refs

LEMMA CountsInit == Init => Counts
<1> SUFFICES ASSUME Init PROVE Counts
  OBVIOUS
<1>1. TypeOK
  <2>1. enabled \in [Addr -> Nat] /\ orig_value \in [Addr -> Byte] /\ text \in [Addr -> Byte]
    BY AddrAssumption DEF Init, Byte
  <2>2. /\ callstack \in Seq(Frames) /\ Len(callstack) <= MaxDepth
        /\ real \in Seq([fn : Entry, ret : Site, seen : BOOLEAN])
    BY BoundAssumption, EmptySeq DEF Init
  <2>3. /\ breakpoints_enabled \in {-1, 0, 1}
        /\ insys \in Sys \cup {SigReturn, NoSys} /\ orig_eax \in Sys \cup {SigReturn, NoSys}
    BY DEF Init, NoSys
  <2> QED
    BY <2>1, <2>2, <2>3 DEF Init, TypeOK
<1>2. \A a \in Addr : Cardinality(Holding(a, 1)) = 0
  <2>1. \A a \in Addr : Holding(a, 1) = {}
    BY DEF Init, Holding
  <2> QED
    BY <2>1, FS_EmptySet
<1>3. RefCount
  BY <1>2, AddrAssumption DEF Init, RefCount
<1> QED
  BY <1>1, <1>3 DEF Counts

\* A step that pushes and pops nothing keeps the counts.
LEMMA CountsKept ==
  Counts /\ TypeOK' /\ UNCHANGED <<enabled, callstack>> => Counts'
BY DEF Counts, RefCount, Holding

\* The program and the kernel touch no variable of the tracer.
LEMMA CountsProgram == Counts /\ Program => Counts'
<1> SUFFICES ASSUME Counts, Program PROVE Counts'
  OBVIOUS
<1> USE DEF bpVars, threadVars, exitVars, cpuVars, sysVars
<1>1. TypeOK
  BY DEF Counts
<1>2. CASE Step
  <2>1. UNCHANGED <<bpVars, threadVars, exitVars, text, sysVars, stopPending>>
    BY <1>2 DEF Step, Trap, Executed, Plain, Call, Return, TailCall, LongJmp, UntracedReturn
  <2>2. mode' \in {"cont", "step", "trap"} /\ skew' \in BOOLEAN
    BY <1>2, <1>1 DEF Step, Trap, Executed, Executes, Running, Resumed, Plain, Call, Return,
                      TailCall, LongJmp, UntracedReturn
  <2>3. pc' \in Addr \cup {Elsewhere} /\ real' \in Seq(RealCall)
    <3>1. real \in Seq(RealCall) /\ pc \in Addr \cup {Elsewhere}
      BY <1>1 DEF TypeOK, RealCall
    <3>2. \A k \in 0..Len(real) : SubSeq(real, 1, k) \in Seq(RealCall)
      <4> SUFFICES ASSUME NEW k \in 0..Len(real) PROVE SubSeq(real, 1, k) \in Seq(RealCall)
        OBVIOUS
      <4>1. \A i \in 1..k : real[i] \in RealCall
        BY <3>1, LenProperties, ElementOfSeq
      <4> QED
        BY <4>1, <3>1, LenProperties, SubSeqProperties
    <3>3. real # << >> => Len(real) \in 1..Len(real) /\ real[Len(real)] \in RealCall
      BY <3>1, EmptySeq, ElementOfSeq
    <3>4. CASE Trap \/ Plain \/ (\E r \in Site : UntracedReturn(r))
      BY <3>1, <3>4, AddrAssumption DEF Trap, Plain, UntracedReturn
    <3>5. CASE \E f \in Entry, r \in Site : Call(f, r)
      <4>1. PICK f \in Entry, r \in Site : Call(f, r)
        BY <3>5
      <4>2. [fn |-> f, ret |-> r, seen |-> FALSE] \in RealCall
        BY DEF RealCall
      <4> QED
        BY <4>1, <4>2, <3>1, AppendProperties DEF Call, Entry
    <3>6. CASE Return
      <4>1. Len(real) - 1 \in 0..Len(real) /\ real[Len(real)].ret \in Site
        BY <3>1, <3>3, <3>6, LenProperties DEF Return, RealCall
      <4> QED
        BY <4>1, <3>2, <3>6, AddrAssumption DEF Return
    <3>7. CASE \E f \in Entry : TailCall(f)
      <4>1. PICK f \in Entry : TailCall(f)
        BY <3>7
      <4>2. real # << >> /\ pc' = f
        BY <4>1 DEF TailCall
      <4> DEFINE top == real[Len(real)]
                 new == [fn |-> f, ret |-> top.ret, seen |-> FALSE]
      <4>3. top \in RealCall /\ new \in RealCall
        BY <4>2, <3>3 DEF RealCall
      <4>4. real' = [real EXCEPT ![Len(real)] = new]
        BY <4>1, <4>2, <3>1, <3>3, LenProperties DEF TailCall
      <4>5. real' \in Seq(RealCall)
        BY <4>3, <4>4, <4>2, <3>1, <3>3, ExceptSeq
      <4> QED
        BY <4>2, <4>5 DEF Entry
    <3>8. CASE \E k \in 0..MaxStack : LongJmp(k)
      <4>1. PICK k \in 0..MaxStack : LongJmp(k)
        BY <3>8
      <4>2. k \in 0..Len(real)
        BY <4>1, <3>1, LenProperties, BoundAssumption DEF LongJmp
      <4> QED
        BY <4>1, <4>2, <3>2 DEF LongJmp
    <3> QED
      BY <1>2, <3>4, <3>5, <3>6, <3>7, <3>8 DEF Step
  <2>4. TypeOK'
    BY <2>1, <2>2, <2>3, <1>1 DEF TypeOK, RealCall
  <2> QED
    BY <2>1, <2>4, CountsKept
<1>3. CASE \E n \in Sys \cup {SigReturn} : SysEnter(n)
  <2>1. TypeOK' /\ UNCHANGED <<enabled, callstack>>
    BY <1>3, <1>1 DEF TypeOK, SysEnter
  <2> QED
    BY <2>1, CountsKept
<1>4. CASE SysLeave
  <2>1. TypeOK' /\ UNCHANGED <<enabled, callstack>>
    BY <1>4, <1>1 DEF TypeOK, SysLeave
  <2> QED
    BY <2>1, CountsKept
<1>5. CASE TakeSignal \/ TakeStop \/ Die
  <2>1. /\ mode' \in {"signal", "sigstop", "exited"} /\ stopPending' \in {stopPending, FALSE}
        /\ UNCHANGED <<bpVars, threadVars, exitVars, text, cpuVars, sysVars>>
    BY <1>5 DEF TakeSignal, TakeStop, Die
  <2>2. stopPending' \in BOOLEAN
    BY <2>1, <1>1 DEF TypeOK
  <2>3. TypeOK'
    BY <2>1, <2>2, <1>1 DEF TypeOK
  <2> QED
    BY <2>1, <2>3, CountsKept
<1> QED
  BY <1>2, <1>3, <1>4, <1>5 DEF Program

\* The stack after callstack_push_syscall, callstack_push_symfunc, callstack_pop.
LEMMA TopFrame ==
  ASSUME TypeOK, callstack # << >>
  PROVE  /\ Len(callstack) \in 1..Len(callstack)
         /\ callstack[Len(callstack)] \in Frames
BY EmptySeq, LenProperties, ElementOfSeq DEF TypeOK

\* A push writes a frame below the limit only.
LEMMA PushFits ==
  ASSUME TypeOK, ~Full
  PROVE  Len(callstack) + 1 <= MaxDepth
BY LenProperties, BoundAssumption DEF TypeOK, Full

LEMMA BreakAddress ==
  ASSUME TypeOK
  PROVE  /\ brk_addr \in Addr \cup {Elsewhere}
         /\ brk_addr # NULL
         /\ brk_addr \in Addr => skew /\ pc = brk_addr
BY AddrAssumption DEF TypeOK, brk_addr

LEMMA Bytes ==
  ASSUME NEW t \in [Addr -> Byte], NEW o \in [Addr -> Byte], NEW A
  PROVE  /\ Planted(t, A) \in [Addr -> Byte]
         /\ Saved(o, t, A) \in [Addr -> Byte]
         /\ Restored(t, o, A) \in [Addr -> Byte]
BY DEF Planted, Saved, Restored, Byte

LEMMA CountsTracer == Counts /\ Tracer => Counts'
<1> SUFFICES ASSUME Counts, Tracer PROVE Counts'
  OBVIOUS
<1> USE DEF bpVars, threadVars, exitVars, cpuVars, sysVars
<1>1. TypeOK /\ RefCount
  BY DEF Counts
<1>2. /\ callstack \in Seq(Frames) /\ Len(callstack) \in Nat
      /\ \A a \in Addr : enabled[a] = SymCount[a] + Cardinality(Refs(callstack, a, 1))
  BY <1>1, LenProperties, HoldingIsRefs DEF TypeOK, RefCount
<1>b. \A A : /\ Planted(text, A) \in [Addr -> Byte]
             /\ Saved(orig_value, text, A) \in [Addr -> Byte]
             /\ Restored(text, orig_value, A) \in [Addr -> Byte]
  BY <1>1, Bytes DEF TypeOK
<1>e. enabled \in [Addr -> Nat] /\ \A a \in Addr : enabled[a] \in Nat /\ a # NULL
  BY <1>1, AddrAssumption DEF TypeOK
<1>3. CASE FirstEvent
  <2>1. text' \in [Addr -> Byte] /\ orig_value' \in [Addr -> Byte]
    BY <1>3, <1>1, Bytes DEF FirstEvent, EnableAll, TypeOK
  <2>2. TypeOK' /\ UNCHANGED <<enabled, callstack>>
    BY <2>1, <1>3, <1>1 DEF TypeOK, FirstEvent, EnableAll
  <2> QED
    BY <2>2, CountsKept
<1>4. CASE Detach
  <2>1. text' \in [Addr -> Byte] /\ breakpoints_enabled' \in {-1, 0, 1}
    <3>1. text \in [Addr -> Byte] /\ breakpoints_enabled \in {-1, 0, 1}
      BY <1>1 DEF TypeOK
    <3>2. CASE breakpoints_enabled # 0
      BY <1>4, <1>b, <3>2 DEF Detach, DisableAll
    <3>3. CASE breakpoints_enabled = 0
      BY <1>4, <3>1, <3>3 DEF Detach
    <3> QED
      BY <3>2, <3>3
  <2>2. TypeOK' /\ UNCHANGED <<enabled, callstack>>
    BY <2>1, <1>4, <1>1 DEF TypeOK, Detach
  <2> QED
    BY <2>2, CountsKept
<1>5. CASE ProcessSignal \/ ProcessExit \/ UnknownHit
  <2>1. TypeOK' /\ UNCHANGED <<enabled, callstack>>
    BY <1>5, <1>1 DEF TypeOK, ProcessSignal, ProcessExit, UnknownHit, Continue
  <2> QED
    BY <2>1, CountsKept
<1>6. CASE Reinsert
  <2>1. text' \in [Addr -> Byte] /\ orig_value' \in [Addr -> Byte]
    BY <1>6, <1>1, Bytes DEF Reinsert, TypeOK
  <2>2. /\ breakpoint_being_enabled' = NULL /\ mode' = "cont" /\ orig_eax' = NoSys
        /\ UNCHANGED <<breakpoints_enabled, enabled, callstack, tooDeep, exitVars, cpuVars,
                       insys, stopPending>>
    BY <1>6 DEF Reinsert, Continue
  <2>3. TypeOK'
    BY <2>1, <2>2, <1>1 DEF TypeOK
  <2> QED
    BY <2>2, <2>3, CountsKept
<1>7. CASE ProcessSyscall
  <2> DEFINE e == SyscallFrame(orig_eax)
  <2>1. e \in Frames /\ e.return_addr = NULL
    <3>1. orig_eax \in Sys \cup {SigReturn, NoSys} /\ orig_eax >= 0
      BY <1>7, <1>1 DEF ProcessSyscall, Syscall, TypeOK
    <3>2. orig_eax \in Sys \cup {SigReturn}
      BY <3>1 DEF NoSys
    <3>3. e \in {SyscallFrame(n) : n \in Sys \cup {SigReturn}}
      BY <3>2
    <3>4. e.return_addr = NULL
      BY DEF SyscallFrame
    <3> QED
      BY <3>3, <3>4 DEF Frames
  <2>2. callstack' = IF Full THEN callstack ELSE Append(callstack, e)
    BY <1>7 DEF ProcessSyscall
  <2>3. callstack' \in Seq(Frames) /\ Len(callstack') <= MaxDepth
    BY <2>1, <2>2, <1>1, AppendProperties, PushFits DEF TypeOK
  <2>4. \A a \in Addr : enabled[a] = SymCount[a] + Cardinality(Refs(callstack', a, 1))
    <3>1. \A a \in Addr : SymCount[a] + Cardinality(Refs(Append(callstack, e), a, 1)) =
                            enabled[a] + (IF e.return_addr = a THEN 1 ELSE 0)
      BY <2>1, <1>2, CountPush
    <3> QED
      BY <3>1, <2>1, <2>2, <1>2, <1>e
  <2>5. text' \in [Addr -> Byte] /\ orig_value' \in [Addr -> Byte] /\ breakpoints_enabled' \in {-1, 0, 1}
    <3>1. /\ text \in [Addr -> Byte] /\ orig_value \in [Addr -> Byte]
          /\ breakpoints_enabled \in {-1, 0, 1}
      BY <1>1 DEF TypeOK
    <3>2. CASE breakpoints_enabled # 0
      BY <1>7, <3>1, <3>2 DEF ProcessSyscall
    <3>3. CASE breakpoints_enabled = 0
      BY <1>7, <1>b, <3>3 DEF ProcessSyscall, EnableAll
    <3> QED
      BY <3>2, <3>3
  <2>6. TypeOK'
    BY <2>3, <2>5, <1>7, <1>1 DEF TypeOK, ProcessSyscall, Continue
  <2>7. RefCount'
    BY <2>4, <1>7, HoldingIsRefs DEF RefCount, ProcessSyscall
  <2> QED
    BY <2>6, <2>7 DEF Counts
<1>8. CASE ProcessSysret
  <2> DEFINE n == Len(callstack)
  <2>1. callstack # << >> /\ callstack[n].is_syscall
    BY <1>8 DEF ProcessSysret, Sysret, TopIsSyscall
  <2>2. n \in 1..n /\ callstack[n] \in Frames
    BY <2>1, <1>1, TopFrame
  <2>3. callstack[n].return_addr = NULL
    BY <2>1, <2>2, FrameShape
  <2>4. \A a \in Addr : Refs(callstack, a, n) = {}
    BY <2>3, <2>2, AddrAssumption DEF Refs
  <2>5. callstack' = SubSeq(callstack, 1, n - 1)
    BY <1>8 DEF ProcessSysret
  <2>6. /\ callstack' \in Seq(Frames) /\ Len(callstack') = n - 1
        /\ \A a \in Addr : enabled[a] - Cardinality(Refs(callstack, a, n)) =
                             SymCount[a] + Cardinality(Refs(callstack', a, 1))
    BY ZenonT(30), <2>2, <2>5, <1>2, CountCut
  <2>7. \A a \in Addr : enabled[a] = SymCount[a] + Cardinality(Refs(callstack', a, 1))
    <3>1. \A a \in Addr : Cardinality(Refs(callstack, a, n)) = 0
      BY <2>4, FS_EmptySet
    <3> QED
      BY <3>1, <2>6, <1>e
  <2>8. TypeOK'
    BY <2>6, <1>8, <1>1, <1>2, BoundAssumption DEF TypeOK, ProcessSysret, Continue
  <2>9. RefCount'
    BY <2>7, <1>8, HoldingIsRefs DEF RefCount, ProcessSysret
  <2> QED
    BY <2>8, <2>9 DEF Counts
<1>9. CASE \E i \in 1..Len(callstack) : ReturnHit(i)
  <2>1. PICK i \in 1..Len(callstack) : ReturnHit(i)
    BY <1>9
  <2>2. /\ callstack' \in Seq(Frames) /\ Len(callstack') = i - 1
        /\ \A a \in Addr :
             /\ Released(i)[a] = SymCount[a] + Cardinality(Refs(callstack', a, 1))
             /\ Released(i)[a] \in Nat
    BY <2>1, <1>2, CountCut, HoldingIsRefs DEF ReturnHit, Pop, Released
  <2>3. enabled' = Released(i) /\ Released(i) \in [Addr -> Nat]
    BY <2>1, <2>2 DEF ReturnHit, Released
  <2>4. callstack[i] \in Frames
    BY <1>2, ElementOfSeq
  <2>5. brk_addr \in Addr
    BY <2>1, <2>4, <1>1, FrameShape, BreakAddress DEF ReturnHit, Returning
  <2>6. text' \in [Addr -> Byte]
    BY <2>1, <1>1, Bytes DEF ReturnHit, ContinueAfterBreakpoint, TypeOK
  <2>7. TypeOK'
    <3>1. /\ breakpoint_being_enabled' \in Addr \cup {NULL}
          /\ mode' \in {"cont", "step"} /\ pc' \in Addr /\ skew' = FALSE
          /\ UNCHANGED <<breakpoints_enabled, orig_value, tooDeep, exitVars, real, sysVars, stopPending>>
      BY <2>1, <2>5, <1>1 DEF ReturnHit, ContinueAfterBreakpoint, TypeOK
    <3>1a. skew' \in BOOLEAN /\ exiting' \in BOOLEAN /\ alarm' \in BOOLEAN
           /\ attached' \in BOOLEAN /\ tooDeep' \in BOOLEAN /\ stopPending' \in BOOLEAN
      BY <3>1, <1>1 DEF TypeOK
    <3>2. Len(callstack') <= MaxDepth
      BY <2>2, <1>1, <1>2, BoundAssumption DEF TypeOK
    <3>3. callstack' \in Seq(Frames) /\ enabled' \in [Addr -> Nat]
      BY <2>2, <2>3
    <3> QED
      BY <3>1, <3>1a, <3>2, <3>3, <2>6, <1>1 DEF TypeOK
  <2>8. RefCount'
    BY <2>2, <2>3, HoldingIsRefs DEF RefCount
  <2> QED
    BY <2>7, <2>8 DEF Counts
<1>10. CASE \E r \in StackTop : EntryHit(r)
  <2>1. PICK r \in StackTop : EntryHit(r)
    BY <1>10
  <2> DEFINE e == SymFrame(brk_addr, r)
             cnt == IF Full THEN enabled ELSE [enabled EXCEPT ![r] = @ + 1]
  <2>2. r \in Site /\ r \in Addr
    <3>1. real \in Seq(RealCall)
      BY <1>1 DEF TypeOK, RealCall
    <3>2. real # << >> => real[Len(real)] \in RealCall
      BY <3>1, EmptySeq, ElementOfSeq
    <3> QED
      BY <2>1, <3>2, AddrAssumption DEF StackTop, RealCall
  <2>3. brk_addr \in Entry /\ brk_addr \in Addr
    BY <2>1 DEF EntryHit, Entry
  <2>4. e \in Frames /\ e.return_addr = r
    <3>1. e \in {SymFrame(f, q) : f \in Entry, q \in Addr}
      BY <2>2, <2>3
    <3> QED
      BY <3>1 DEF Frames, SymFrame
  <2>5. /\ enabled' = cnt
        /\ callstack' = IF Full THEN callstack ELSE Append(callstack, e)
        /\ real' = IF Full THEN real ELSE Noted
    BY <2>1 DEF EntryHit
  <2>6. callstack' \in Seq(Frames) /\ Len(callstack') <= MaxDepth
    BY <2>4, <2>5, <1>1, AppendProperties, PushFits DEF TypeOK
  <2>7. enabled' \in [Addr -> Nat]
    BY <2>5, <2>2, <1>1 DEF TypeOK
  <2>8. \A a \in Addr : cnt[a] = SymCount[a] + Cardinality(Refs(callstack', a, 1))
    <3>1. \A a \in Addr : SymCount[a] + Cardinality(Refs(Append(callstack, e), a, 1)) =
                            enabled[a] + (IF r = a THEN 1 ELSE 0)
      BY <2>4, <1>2, CountPush
    <3>2. \A a \in Addr : ~Full => cnt[a] = enabled[a] + (IF r = a THEN 1 ELSE 0)
      BY <2>2, <1>e
    <3>3. CASE Full
      BY <3>3, <2>5, <1>2
    <3>4. CASE ~Full
      BY <3>1, <3>2, <3>4, <2>5
    <3> QED
      BY <3>3, <3>4
  <2>9. real' \in Seq(RealCall)
    <3>1. real \in Seq(RealCall)
      BY <1>1 DEF TypeOK, RealCall
    <3>2. CASE real = << >>
      BY <3>1, <3>2, <2>5 DEF Noted
    <3>3. CASE real # << >>
      <4> DEFINE top == real[Len(real)]
                 new == [top EXCEPT !.seen = TRUE]
      <4>1. Len(real) \in 1..Len(real) /\ top \in RealCall
        BY <3>1, <3>3, EmptySeq, ElementOfSeq
      <4>2. new \in RealCall
        BY <4>1 DEF RealCall
      <4>3. Noted = [real EXCEPT ![Len(real)] = new]
        BY <3>1, <3>3, <4>1, LenProperties DEF Noted
      <4> QED
        BY <4>1, <4>2, <4>3, <3>1, <2>5, ExceptSeq
    <3> QED
      BY <3>2, <3>3
  <2>10. text' \in [Addr -> Byte] /\ orig_value' \in [Addr -> Byte]
    BY <2>1, <1>1, Bytes DEF EntryHit, ContinueAfterBreakpoint, TypeOK
  <2>11. TypeOK'
    BY <2>1, <2>3, <2>6, <2>7, <2>9, <2>10, <1>1
       DEF TypeOK, RealCall, EntryHit, ContinueAfterBreakpoint
  <2>12. RefCount'
    BY <2>5, <2>8, HoldingIsRefs DEF RefCount
  <2> QED
    BY <2>11, <2>12 DEF Counts
<1> QED
  BY <1>3, <1>4, <1>5, <1>6, <1>7, <1>8, <1>9, <1>10 DEF Tracer

LEMMA CountsNext == Counts /\ [Next]_vars => Counts'
<1> SUFFICES ASSUME Counts, [Next]_vars PROVE Counts'
  OBVIOUS
<1> USE DEF bpVars, threadVars, exitVars, cpuVars, sysVars
<1>1. CASE SignalExit \/ SignalAlarm
  <2>1. UNCHANGED <<bpVars, threadVars, attached, text, cpuVars, sysVars, mode>>
    BY <1>1 DEF SignalExit, SignalAlarm
  <2>2. exiting' \in BOOLEAN /\ alarm' \in BOOLEAN /\ stopPending' \in BOOLEAN
    BY <1>1 DEF SignalExit, SignalAlarm, Counts, TypeOK
  <2>3. TypeOK'
    BY <2>1, <2>2 DEF Counts, TypeOK
  <2> QED
    BY <2>1, <2>3, CountsKept
<1>2. CASE UNCHANGED vars
  <2>1. TypeOK' /\ UNCHANGED <<enabled, callstack>>
    BY <1>2 DEF Counts, TypeOK, vars, ptraceVars
  <2> QED
    BY <2>1, CountsKept
<1> QED
  BY <1>1, <1>2, CountsProgram, CountsTracer DEF Next, Finished

\* Every variable keeps its type: in particular no reference count becomes
\* negative, the second assertion of delete_breakpoint.
THEOREM TypeCorrect == Spec => []TypeOK
<1>1. Counts => TypeOK
  BY DEF Counts
<1> QED
  BY <1>1, CountsInit, CountsNext, PTL DEF Spec

\* The count of each breakpoint is the number of its users.
THEOREM RefCountCorrect == Spec => []RefCount
<1>1. Counts => RefCount
  BY DEF Counts
<1> QED
  BY <1>1, CountsInit, CountsNext, PTL DEF Spec

(***************************************************************************)
(* The memory of the traced program.                                       *)
(***************************************************************************)

\* PlantedIff needs to know that nothing is planted before the first event,
\* that breakpoints are disabled only to let the process go, and that the
\* lifted breakpoint stays in use.
Memory ==
  /\ PlantedIff
  /\ breakpoints_enabled = -1 =>
       /\ \A a \in Addr : text[a] = "code"
       /\ breakpoint_being_enabled = NULL
       /\ mode # "step"
  /\ breakpoints_enabled = 0 <=> mode = "detached"
  /\ CleanDetach
  /\ breakpoint_being_enabled # NULL => enabled[breakpoint_being_enabled] > 0

MemoryInv == Counts /\ Memory

LEMMA MemoryInit == Init => Memory
BY DEF Init, Memory, PlantedIff, CleanDetach

LEMMA MemoryProgram == MemoryInv /\ Program => Memory'
<1> SUFFICES ASSUME MemoryInv, Program PROVE Memory'
  OBVIOUS
<1> USE DEF bpVars, threadVars, exitVars, cpuVars, sysVars
<1>1. UNCHANGED <<breakpoints_enabled, enabled, orig_value, text, breakpoint_being_enabled>>
  BY DEF Program, Step, Trap, Executed, Plain, Call, Return, TailCall, LongJmp, UntracedReturn,
         SysEnter, SysLeave, TakeSignal, TakeStop, Die
<1>2. /\ mode # "detached" /\ mode' # "detached"
      /\ breakpoints_enabled = -1 => mode' # "step"
  BY DEF MemoryInv, Memory, Program, Step, Trap, Executed, Executes, Running, Resumed, Plain, Call,
         Return, TailCall, LongJmp, UntracedReturn, SysEnter, SysLeave, TakeSignal, TakeStop, Die
<1> QED
  BY <1>1, <1>2 DEF MemoryInv, Memory, PlantedIff, CleanDetach

LEMMA MemoryTracer == MemoryInv /\ Tracer => Memory'
<1> SUFFICES ASSUME MemoryInv, Tracer PROVE Memory'
  OBVIOUS
<1> USE DEF bpVars, threadVars, exitVars, cpuVars, sysVars
<1>1. TypeOK /\ RefCount /\ Memory /\ Counts
  BY DEF MemoryInv, Counts
<1>2. /\ text \in [Addr -> Byte] /\ orig_value \in [Addr -> Byte] /\ enabled \in [Addr -> Nat]
      /\ breakpoint_being_enabled \in Addr \cup {NULL}
      /\ callstack \in Seq(Frames) /\ Len(callstack) \in Nat
  BY <1>1, LenProperties DEF TypeOK
<1>3. TypeOK' /\ RefCount'
  BY <1>1, CountsTracer DEF Counts
<1>4. CASE FirstEvent
  <2>1. breakpoints_enabled = -1 /\ breakpoint_being_enabled = NULL /\ \A a \in Addr : text[a] = "code"
    BY <1>4, <1>1 DEF FirstEvent, Memory
  <2>2. /\ breakpoints_enabled' = 1 /\ mode' \in {"dead", "cont"}
        /\ UNCHANGED <<enabled, breakpoint_being_enabled>>
        /\ \A a \in Addr : text'[a] = IF enabled[a] # 0 THEN "int3" ELSE "code"
        /\ \A a \in Addr : enabled[a] # 0 => orig_value'[a] = "code"
    BY <2>1, <1>4 DEF FirstEvent, EnableAll, Planted, Saved, Counted
  <2> QED
    BY <2>1, <2>2, <1>2, AddrAssumption DEF Memory, PlantedIff, CleanDetach
<1>5. CASE Detach
  <2>1. breakpoints_enabled = 1 /\ mode = "sigstop"
    BY <1>5, <1>1 DEF Detach, Tracing, Memory, TypeOK
  <2>2. /\ breakpoints_enabled' = 0 /\ mode' = "detached"
        /\ UNCHANGED <<enabled, breakpoint_being_enabled>>
        /\ \A a \in Addr : text'[a] = IF enabled[a] # 0 THEN orig_value[a] ELSE text[a]
    BY <2>1, <1>5 DEF Detach, DisableAll, Restored, Counted
  <2>3. \A a \in Addr : text'[a] = "code"
    BY <2>1, <2>2, <1>1, <1>2 DEF Memory, PlantedIff
  <2> QED
    BY <2>2, <2>3, <1>1 DEF Memory, PlantedIff, CleanDetach
<1>6. CASE ProcessSignal \/ ProcessExit \/ UnknownHit \/ ProcessSysret
  <2>1. /\ UNCHANGED <<breakpoints_enabled, enabled, orig_value, text, breakpoint_being_enabled>>
        /\ mode # "detached" /\ mode' \in {"cont", "dead"}
    BY <1>6 DEF ProcessSignal, ProcessExit, UnknownHit, ProcessSysret, Continue, Breakpoint, Sysret
  <2> QED
    BY <2>1, <1>1 DEF Memory, PlantedIff, CleanDetach
<1>7. CASE ProcessSyscall
  <2>1. mode = "trap" /\ breakpoints_enabled # 0
    BY <1>7, <1>1 DEF ProcessSyscall, Syscall, Memory
  <2>2. /\ UNCHANGED <<breakpoints_enabled, enabled, orig_value, text, breakpoint_being_enabled>>
        /\ mode' = "cont"
    BY <1>7, <2>1 DEF ProcessSyscall, Continue
  <2> QED
    BY <2>1, <2>2, <1>1 DEF Memory, PlantedIff, CleanDetach
<1>8. CASE Reinsert
  <2> DEFINE b == breakpoint_being_enabled
  <2>1. b \in Addr /\ b # NULL /\ breakpoints_enabled = 1 /\ enabled[b] > 0
    BY <1>8, <1>1, <1>2 DEF Reinsert, Breakpoint, Tracing, Memory, TypeOK
  <2>2. /\ breakpoint_being_enabled' = NULL /\ mode' = "cont"
        /\ UNCHANGED <<breakpoints_enabled, enabled>>
        /\ \A a \in Addr : text'[a] = IF a = b THEN "int3" ELSE text[a]
        /\ \A a \in Addr : orig_value'[a] = IF a = b THEN text[a] ELSE orig_value[a]
    BY <1>8 DEF Reinsert, Continue, Planted, Saved
  <2> QED
    BY <2>1, <2>2, <1>1, AddrAssumption DEF Memory, PlantedIff, CleanDetach
<1>9. CASE \E i \in 1..Len(callstack) : ReturnHit(i)
  <2>1. PICK i \in 1..Len(callstack) : ReturnHit(i)
    BY <1>9
  <2> DEFINE b == brk_addr
             cnt == Released(i)
  <2>2. callstack[i] \in Frames
    BY <1>2, ElementOfSeq
  <2>3. b \in Addr
    BY <2>1, <2>2, <1>1, FrameShape, BreakAddress DEF ReturnHit, Returning
  <2>4. breakpoints_enabled = 1 /\ breakpoint_being_enabled = NULL /\ mode = "trap"
    BY <2>1, <1>1 DEF ReturnHit, Breakpoint, Tracing, Memory, TypeOK
  <2>5. enabled' = cnt /\ cnt \in [Addr -> Nat]
    BY <2>1, <1>3 DEF ReturnHit, TypeOK
  <2>6. \A a \in Addr : cnt[a] > 0 => enabled[a] > 0
    <3>1. \A a \in Addr : Cardinality(Refs(callstack, a, i)) \in Nat
      BY <1>2, RefsFinite
    <3>2. \A a \in Addr : cnt[a] = enabled[a] - Cardinality(Refs(callstack, a, i))
      BY HoldingIsRefs DEF Released
    <3> QED
      BY <3>1, <3>2, <1>2, <2>5
  <2>7. \A a \in Addr :
          text'[a] = IF (cnt[a] = 0 /\ enabled[a] # 0) \/ (a = b /\ cnt[a] # 0)
                     THEN orig_value[a] ELSE text[a]
    BY <2>1, <2>3 DEF ReturnHit, ContinueAfterBreakpoint, Restored
  <2>8. /\ breakpoint_being_enabled' = IF cnt[b] # 0 THEN b ELSE NULL
        /\ mode' = IF cnt[b] # 0 THEN "step" ELSE "cont"
        /\ UNCHANGED <<breakpoints_enabled, orig_value>>
    BY <2>1, <2>4 DEF ReturnHit, ContinueAfterBreakpoint
  <2>9. \A a \in Addr : /\ text[a] = IF enabled[a] > 0 THEN "int3" ELSE "code"
                        /\ enabled[a] > 0 => orig_value[a] = "code"
    BY <2>4, <1>1, AddrAssumption DEF Memory, PlantedIff
  <2>10. \A a \in Addr :
           /\ text'[a] = IF cnt[a] > 0 /\ ~(a = b /\ cnt[b] # 0) THEN "int3" ELSE "code"
           /\ cnt[a] > 0 => orig_value[a] = "code"
    BY <2>3, <2>5, <2>6, <2>7, <2>9, <1>2
  <2> QED
    BY <2>3, <2>4, <2>5, <2>8, <2>10, AddrAssumption DEF Memory, PlantedIff, CleanDetach
<1>10. CASE \E r \in StackTop : EntryHit(r)
  <2>1. PICK r \in StackTop : EntryHit(r)
    BY <1>10
  <2> DEFINE b == brk_addr
             cnt == IF Full THEN enabled ELSE [enabled EXCEPT ![r] = @ + 1]
             fresh == IF ~Full /\ cnt[r] = 1 THEN {r} ELSE {}
  <2>2. b \in Addr /\ SymCount[b] > 0
    BY <2>1 DEF EntryHit, Entry
  <2>3. breakpoints_enabled = 1 /\ breakpoint_being_enabled = NULL /\ mode = "trap"
    BY <2>1, <1>1 DEF EntryHit, Breakpoint, Tracing, Memory, TypeOK
  <2>4. enabled' = cnt /\ cnt \in [Addr -> Nat]
    BY <2>1, <1>3 DEF EntryHit, TypeOK
  <2>5. enabled[b] > 0
    <3>1. Cardinality(Refs(callstack, b, 1)) \in Nat
      BY <1>2, RefsFinite
    <3>2. enabled[b] = SymCount[b] + Cardinality(Refs(callstack, b, 1))
      BY <1>1, <2>2, HoldingIsRefs DEF RefCount
    <3> QED
      BY <3>1, <3>2, <2>2, AddrAssumption
  <2>6. \A a \in Addr : /\ a \in fresh <=> enabled[a] = 0 /\ cnt[a] > 0
                        /\ enabled[a] > 0 => cnt[a] > 0
    BY <2>4, <1>2
  <2>7. /\ orig_value' = Saved(orig_value, text, fresh)
        /\ text' = IF cnt[b] # 0
                   THEN Restored(Planted(text, fresh), Saved(orig_value, text, fresh), {b})
                   ELSE Planted(text, fresh)
        /\ breakpoint_being_enabled' = IF cnt[b] # 0 THEN b ELSE breakpoint_being_enabled
        /\ mode' = IF cnt[b] # 0 THEN "step" ELSE "cont"
        /\ UNCHANGED breakpoints_enabled
    BY <2>1 DEF EntryHit, ContinueAfterBreakpoint
  <2>8. cnt[b] # 0 /\ b \notin fresh
    BY <2>2, <2>4, <2>5, <2>6
  <2>9. \A a \in Addr :
          /\ text'[a] = IF a = b THEN orig_value[a] ELSE IF a \in fresh THEN "int3" ELSE text[a]
          /\ orig_value'[a] = IF a \in fresh THEN text[a] ELSE orig_value[a]
    BY <2>7, <2>8 DEF Restored, Planted, Saved
  <2>10. \A a \in Addr : /\ text[a] = IF enabled[a] > 0 THEN "int3" ELSE "code"
                         /\ enabled[a] > 0 => orig_value[a] = "code"
    BY <2>3, <1>1, AddrAssumption DEF Memory, PlantedIff
  <2>11. \A a \in Addr :
           /\ text'[a] = IF cnt[a] > 0 /\ a # b THEN "int3" ELSE "code"
           /\ cnt[a] > 0 => orig_value'[a] = "code"
    BY <2>4, <2>5, <2>6, <2>9, <2>10, <1>2
  <2>12. breakpoint_being_enabled' = b /\ mode' = "step" /\ breakpoints_enabled' = 1 /\ cnt[b] > 0
    BY <2>2, <2>3, <2>4, <2>7, <2>8
  <2> QED
    BY <2>2, <2>4, <2>11, <2>12, AddrAssumption DEF Memory, PlantedIff, CleanDetach
<1> QED
  BY <1>4, <1>5, <1>6, <1>7, <1>8, <1>9, <1>10 DEF Tracer

LEMMA MemoryNext == MemoryInv /\ [Next]_vars => MemoryInv'
<1> SUFFICES ASSUME MemoryInv, [Next]_vars PROVE MemoryInv'
  OBVIOUS
<1>1. Counts'
  BY CountsNext DEF MemoryInv
<1>2. CASE SignalExit \/ SignalAlarm \/ UNCHANGED vars
  BY <1>1, <1>2 DEF SignalExit, SignalAlarm, vars, bpVars, threadVars, exitVars, ptraceVars,
                    MemoryInv, Memory, PlantedIff, CleanDetach
<1> QED
  BY <1>1, <1>2, MemoryProgram, MemoryTracer DEF Next, Finished, MemoryInv

\* An int3 is in memory exactly where it should be, over the program's byte.
THEOREM PlantedCorrect == Spec => []PlantedIff
<1>1. Init => MemoryInv
  BY CountsInit, MemoryInit DEF MemoryInv
<1>2. MemoryInv => PlantedIff
  BY DEF MemoryInv, Memory
<1> QED
  BY <1>1, <1>2, MemoryNext, PTL DEF Spec

\* A process that utrace lets go has all of its own code back.
THEOREM DetachCorrect == Spec => []CleanDetach
<1>1. Init => MemoryInv
  BY CountsInit, MemoryInit DEF MemoryInv
<1>2. MemoryInv => CleanDetach
  BY DEF MemoryInv, Memory
<1> QED
  BY <1>1, <1>2, MemoryNext, PTL DEF Spec

(***************************************************************************)
(* The single step.  Without a signal to take its place, the stop after it *)
(* is the next one the tracer sees.                                        *)
(***************************************************************************)

\* An int3 that was executed waits for its handler; a lifted breakpoint is
\* being stepped over, or that step has just ended, or the thread is leaving.
OnTrack ==
  /\ skew => /\ mode = "trap" /\ pc \in Addr /\ enabled[pc] > 0
             /\ breakpoint_being_enabled = NULL
             /\ orig_eax = NoSys
             /\ breakpoints_enabled = 1
  /\ mode = "step" => breakpoint_being_enabled # NULL /\ pc = breakpoint_being_enabled
  /\ breakpoint_being_enabled # NULL =>
       /\ mode \in {"step", "trap", "sigstop", "exited", "detached", "dead"}
       /\ orig_eax = NoSys
       /\ insys = NoSys
  /\ Resumed => orig_eax = NoSys
  /\ breakpoints_enabled = -1 => insys = NoSys /\ orig_eax = NoSys
  /\ mode = "trap" /\ orig_eax = NoSys => insys = NoSys
  /\ mode = "sigstop" => exiting \/ breakpoints_enabled = -1
  /\ stopPending => \/ exiting
                    \/ breakpoints_enabled = -1 /\ mode \in {"cont", "exited"}
                    \/ mode = "dead"
  /\ alarm => exiting
  /\ mode # "signal"

TrackInv == MemoryInv /\ OnTrack

LEMMA TrackInit == Init => OnTrack
BY AddrAssumption DEF Init, OnTrack, Resumed

LEMMA TrackProgram ==
  ASSUME "signal" \notin Env
  PROVE  TrackInv /\ Program => OnTrack'
<1> SUFFICES ASSUME TrackInv, Program PROVE OnTrack'
  OBVIOUS
<1> USE DEF bpVars, threadVars, exitVars, cpuVars, sysVars
<1>1. TypeOK /\ Memory /\ OnTrack
  BY DEF TrackInv, MemoryInv, Counts
<1>2. breakpoints_enabled \in {-1, 0, 1} /\ pc \in Addr \cup {Elsewhere} /\ skew \in BOOLEAN
  BY <1>1 DEF TypeOK
<1>3. CASE Trap
  <2>1. mode = "cont"
    <3>1. mode = "step" => text[pc] # "int3"
      BY <1>1, <1>3 DEF Trap, Memory, PlantedIff, OnTrack, AtInt3
    <3> QED
      BY <3>1, <1>3 DEF Trap, Running, Resumed, AtInt3
  <2>2. breakpoint_being_enabled = NULL /\ orig_eax = NoSys
    BY <2>1, <1>1 DEF OnTrack, Resumed
  <2>3. pc \in Addr /\ text[pc] = "int3" /\ breakpoints_enabled = 1
    BY <1>3 DEF Trap, AtInt3
  <2>4. enabled[pc] > 0
    BY <2>3, <1>1 DEF Memory, PlantedIff
  <2> QED
    BY <2>1, <2>2, <2>3, <2>4, <1>3, <1>1 DEF Trap, Running, OnTrack, Resumed
<1>4. ASSUME Executed PROVE OnTrack'
  <2>1. /\ skew' = FALSE /\ mode' = (IF mode = "step" THEN "trap" ELSE mode)
        /\ mode \in {"cont", "step"} /\ insys = NoSys /\ breakpoints_enabled = 1
        /\ UNCHANGED <<bpVars, threadVars, exitVars, text, sysVars, stopPending>>
    BY <1>4 DEF Executed, Executes, Running, Resumed
  <2> QED
    BY <2>1, <1>1 DEF OnTrack, Resumed
<1>5. CASE Step
  BY <1>3, <1>4, <1>5 DEF Step, Plain, Call, Return, TailCall, LongJmp, UntracedReturn
<1>6. CASE \E n \in Sys \cup {SigReturn} : SysEnter(n)
  <2>1. /\ mode = "cont" /\ breakpoints_enabled = 1 /\ skew' = FALSE /\ mode' = "trap"
        /\ orig_eax' # NoSys
        /\ UNCHANGED <<bpVars, threadVars, exitVars, stopPending>>
    BY <1>6, SysAssumption DEF SysEnter, Executes, NoSys
  <2> QED
    BY <2>1, <1>1 DEF OnTrack, Resumed
<1>7. CASE SysLeave
  <2>1. /\ mode = "cont" /\ insys # NoSys /\ mode' = "trap" /\ insys' = NoSys
        /\ UNCHANGED <<bpVars, threadVars, exitVars, cpuVars, stopPending>>
    BY <1>7 DEF SysLeave
  <2> QED
    BY <2>1, <1>1 DEF OnTrack, Resumed
<1>8. CASE TakeStop \/ Die
  BY <1>8, <1>1 DEF TakeStop, Die, Running, Resumed, OnTrack
<1>9. ~TakeSignal
  BY DEF TakeSignal
<1> QED
  BY <1>5, <1>6, <1>7, <1>8, <1>9 DEF Program

LEMMA TrackTracer == TrackInv /\ Tracer => OnTrack'
<1> SUFFICES ASSUME TrackInv, Tracer PROVE OnTrack'
  OBVIOUS
<1> USE DEF bpVars, threadVars, exitVars, cpuVars, sysVars
<1>1. TypeOK /\ RefCount /\ Memory /\ OnTrack /\ Counts
  BY DEF TrackInv, MemoryInv, Counts
<1>2. Memory'
  BY MemoryTracer DEF TrackInv
<1>3. /\ breakpoints_enabled \in {-1, 0, 1} /\ skew \in BOOLEAN
      /\ orig_eax \in Sys \cup {SigReturn, NoSys}
      /\ callstack \in Seq(Frames) /\ Len(callstack) \in Nat
  BY <1>1, LenProperties DEF TypeOK
<1>4. CASE FirstEvent
  BY <1>4, <1>1 DEF FirstEvent, EnableAll, OnTrack, Memory, Stopped, Resumed
<1>5. CASE Detach
  <2>1. mode = "sigstop" /\ mode' = "detached" /\ exiting /\ exiting' /\ breakpoints_enabled # -1
        /\ breakpoints_enabled' \in {breakpoints_enabled, 0}
        /\ UNCHANGED <<enabled, orig_value, threadVars, exitVars, cpuVars, sysVars, stopPending>>
    BY <1>5 DEF Detach, DisableAll, Tracing
  <2> QED
    BY <2>1, <1>1 DEF OnTrack, Resumed
<1>6. CASE ProcessSignal
  BY <1>6, <1>1 DEF ProcessSignal, Tracing, OnTrack
<1>7. CASE ProcessExit
  BY <1>7, <1>1 DEF ProcessExit, Tracing, OnTrack, Resumed
<1>8. CASE ProcessSyscall \/ ProcessSysret
  <2>1. /\ mode = "trap" /\ orig_eax # NoSys
        /\ mode' = "cont" /\ orig_eax' = NoSys
        /\ UNCHANGED <<breakpoint_being_enabled, exitVars, cpuVars, insys, stopPending, enabled>>
        /\ breakpoints_enabled # -1 /\ breakpoints_enabled' # -1
    <3>1. CASE ProcessSyscall
      BY <3>1, <1>1 DEF ProcessSyscall, Syscall, Tracing, Continue, NoSys, Memory
    <3>2. CASE ProcessSysret
      <4> DEFINE top == callstack[Len(callstack)]
      <4>1. callstack # << >> /\ top.is_syscall /\ top.c_un = orig_eax
        BY <3>2 DEF ProcessSysret, Sysret, TopIsSyscall
      <4>2. top \in Frames
        BY <4>1, <1>1, TopFrame
      <4>3. orig_eax \in Sys \cup {SigReturn}
        BY <4>1, <4>2, FrameShape
      <4>4. orig_eax # NoSys
        BY <4>3, SysAssumption DEF NoSys
      <4> QED
        BY <3>2, <4>4 DEF ProcessSysret, Sysret, Tracing, Continue
    <3> QED
      BY <1>8, <3>1, <3>2
  <2> QED
    BY <2>1, <1>1 DEF OnTrack, Resumed
<1>9. CASE Reinsert
  <2>1. ~skew
    BY <1>9, <1>1 DEF Reinsert, OnTrack
  <2> QED
    BY <2>1, <1>9, <1>1 DEF Reinsert, Breakpoint, Tracing, Continue, OnTrack, Resumed
<1>10. CASE (\E i \in 1..Len(callstack) : ReturnHit(i)) \/ (\E r \in StackTop : EntryHit(r))
  <2>1. PICK cnt, t, o : /\ Breakpoint /\ breakpoint_being_enabled = NULL
                         /\ ContinueAfterBreakpoint(brk_addr, cnt, t, o)
                         /\ UNCHANGED <<breakpoints_enabled, exitVars, sysVars>>
    BY <1>10 DEF ReturnHit, EntryHit
  <2>2. breakpoints_enabled = 1 /\ orig_eax = NoSys /\ mode = "trap"
    BY <2>1, <1>1, <1>3, SysAssumption DEF Breakpoint, Tracing, Memory, NoSys
  <2>3. brk_addr # NULL
    BY <1>1, BreakAddress
  <2>4. insys = NoSys
    BY <2>2, <1>1 DEF OnTrack
  <2> QED
    BY <2>1, <2>2, <2>3, <2>4, <1>1 DEF ContinueAfterBreakpoint, OnTrack, Resumed
<1>11. CASE UnknownHit
  <2>1. ~skew
    <3> SUFFICES ASSUME skew PROVE FALSE
      OBVIOUS
    <3>1. pc \in Addr /\ enabled[pc] > 0 /\ brk_addr = pc
      BY <1>1 DEF OnTrack, brk_addr
    <3>2. SymCount[pc] = 0
      BY <3>1, <1>11, AddrAssumption DEF UnknownHit, Entry
    <3>3. Refs(callstack, pc, 1) = {}
      BY <3>1, <1>11 DEF UnknownHit, NoReturn, Refs
    <3>4. enabled[pc] = SymCount[pc] + Cardinality(Refs(callstack, pc, 1))
      BY <3>1, <1>1, HoldingIsRefs DEF RefCount
    <3> QED
      BY <3>1, <3>2, <3>3, <3>4, FS_EmptySet
  <2> QED
    BY <2>1, <1>11, <1>1 DEF UnknownHit, Breakpoint, Tracing, Continue, OnTrack, Resumed
<1> QED
  BY <1>4, <1>5, <1>6, <1>7, <1>8, <1>9, <1>10, <1>11 DEF Tracer

LEMMA TrackNext ==
  ASSUME "signal" \notin Env
  PROVE  TrackInv /\ [Next]_vars => TrackInv'
<1> SUFFICES ASSUME TrackInv, [Next]_vars PROVE TrackInv'
  OBVIOUS
<1>1. MemoryInv'
  BY MemoryNext DEF TrackInv
<1>2. CASE SignalExit \/ SignalAlarm \/ UNCHANGED vars
  <2>1. OnTrack'
    <3>1. CASE SignalExit
      BY <3>1 DEF SignalExit, bpVars, threadVars, exitVars, cpuVars, sysVars, TrackInv, OnTrack, Resumed
    <3>2. CASE SignalAlarm
      BY <3>2 DEF SignalAlarm, bpVars, threadVars, exitVars, cpuVars, sysVars, TrackInv, OnTrack, Resumed
    <3>3. CASE UNCHANGED vars
      BY <3>3 DEF vars, bpVars, threadVars, exitVars, cpuVars, sysVars, ptraceVars, TrackInv, OnTrack, Resumed
    <3> QED
      BY <1>2, <3>1, <3>2, <3>3
  <2> QED
    BY <1>1, <2>1 DEF TrackInv
<1> QED
  BY <1>1, <1>2, TrackProgram, TrackTracer DEF Next, Finished, TrackInv

\* Unless a signal arrives, whatever else the program does, no thread is ever
\* resumed in the middle of an instruction that an int3 covers.
THEOREM NeverDerailedWithoutSignals ==
  ASSUME "signal" \notin Env
  PROVE  Spec => []NeverDerailed
<1>1. Init => TrackInv
  BY CountsInit, MemoryInit, TrackInit DEF TrackInv, MemoryInv
<1>2. TrackInv => NeverDerailed
  BY DEF TrackInv, OnTrack, NeverDerailed
<1>3. TrackInv /\ [Next]_vars => TrackInv'
  BY TrackNext
<1> QED
  BY <1>1, <1>2, <1>3, PTL DEF Spec

====
