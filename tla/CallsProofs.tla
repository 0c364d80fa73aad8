---- MODULE CallsProofs ----
(***************************************************************************)
(* What CallTracer knows of the calls of the program: system calls and     *)
(* their exits, the calls in progress, and that it implements CallFlow.    *)
(***************************************************************************)
EXTENDS CallTracerProofs

(***************************************************************************)
(* System calls.                                                           *)
(***************************************************************************)

TopSys == callstack # << >> /\ callstack[Len(callstack)].is_syscall

\* A push that the nesting limit refused
Refused == tooDeep /\ Full

\* A frame of a system call is on top, and it is of the call the thread is in;
\* it is missing only where a push was refused.  At a stop, ORIG_EAX still
\* has the number of a call that is being left.
Pairing ==
  /\ insys # SigReturn
  /\ breakpoints_enabled = -1 => insys = NoSys /\ orig_eax = NoSys /\ callstack = << >>
  /\ \A i \in 1..Len(callstack) : callstack[i].is_syscall => i = Len(callstack)
  /\ Resumed => orig_eax = NoSys
  /\ mode = "trap" /\ orig_eax = insys => ~TopSys
  /\ mode = "trap" /\ orig_eax # insys =>
       /\ insys = NoSys
       /\ IF TopSys THEN TopIsSyscall(orig_eax) ELSE Refused
  /\ mode # "trap" =>
       /\ insys # NoSys => mode \in {"cont", "exited", "dead"}
       /\ IF TopSys THEN TopIsSyscall(insys) ELSE insys = NoSys \/ Refused

\* Only a number of a system call can be on top.
LEMMA TopNumber ==
  ASSUME TypeOK, NEW n, TopIsSyscall(n)
  PROVE  TopSys /\ n \in Sys \cup {SigReturn} /\ n # NoSys
<1> DEFINE top == callstack[Len(callstack)]
<1>1. callstack # << >> /\ top.is_syscall /\ top.c_un = n
  BY DEF TopIsSyscall
<1>2. top \in Frames
  BY <1>1, TopFrame
<1>3. n \in Sys \cup {SigReturn}
  BY <1>1, <1>2, FrameShape
<1>4. n # NoSys
  BY <1>3, SysAssumption DEF NoSys
<1> QED
  BY <1>1, <1>3, <1>4 DEF TopSys

LEMMA SymFrameFields ==
  \A f, r : /\ ~SymFrame(f, r).is_syscall
            /\ SymFrame(f, r).c_un = f
            /\ SymFrame(f, r).return_addr = r
BY DEF SymFrame

\* In user code no frame is a system call's.
LEMMA UserFrames ==
  ASSUME TypeOK, Pairing, ~TopSys
  PROVE  \A i \in 1..Len(callstack) : ~callstack[i].is_syscall
<1> SUFFICES ASSUME NEW i \in 1..Len(callstack), callstack[i].is_syscall
             PROVE  FALSE
  BY DEF Frames, SyscallFrame, SymFrame
<1>1. i = Len(callstack)
  BY DEF Pairing
<1>2. callstack # << >>
  BY <1>1
<1> QED
  BY <1>1, <1>2 DEF TopSys

\* While the thread runs its own code, or is stopped at a breakpoint.
LEMMA InUserCode ==
  ASSUME TypeOK, Pairing
  PROVE  /\ Running => insys = NoSys /\ orig_eax = NoSys /\ ~TopSys
         /\ Breakpoint => insys = NoSys /\ orig_eax = NoSys /\ ~TopSys
<1>1. ASSUME Running PROVE insys = NoSys /\ orig_eax = NoSys /\ ~TopSys
  <2>1. insys = NoSys /\ orig_eax = NoSys /\ mode # "trap"
    BY <1>1 DEF Running, Resumed, Pairing
  <2>2. ~TopIsSyscall(NoSys)
    BY TopNumber
  <2> QED
    BY <2>1, <2>2 DEF Pairing
<1>2. ASSUME Breakpoint PROVE insys = NoSys /\ orig_eax = NoSys /\ ~TopSys
  <2>1. mode = "trap" /\ orig_eax = NoSys
    BY <1>2, SysAssumption DEF Breakpoint, TypeOK, NoSys
  <2> QED
    BY <2>1 DEF Pairing
<1> QED
  BY <1>1, <1>2

LEMMA PairingProgram ==
  ASSUME "sigreturn" \notin Env
  PROVE  TypeOK /\ Pairing /\ Program => Pairing'
<1> SUFFICES ASSUME TypeOK, Pairing, Program PROVE Pairing'
  OBVIOUS
<1> USE DEF bpVars, threadVars, exitVars, cpuVars, sysVars
<1>1. UNCHANGED <<breakpoints_enabled, callstack, tooDeep>>
  BY DEF Program, Step, Trap, Executed, Plain, Call, Return, TailCall, LongJmp, UntracedReturn,
         SysEnter, SysLeave, TakeSignal, TakeStop, Die
<1>2. /\ TopSys' = TopSys /\ Refused' = Refused
      /\ \A n : TopIsSyscall(n)' = TopIsSyscall(n)
  BY <1>1 DEF TopSys, Refused, Full, TopIsSyscall
<1>3. CASE Step
  <2>1. Running /\ mode' \in {"cont", "step", "trap"} /\ UNCHANGED <<insys, orig_eax>>
    BY <1>3 DEF Step, Trap, Executed, Executes, Running, Resumed, Plain, Call, Return, TailCall,
                LongJmp, UntracedReturn
  <2>2. insys = NoSys /\ orig_eax = NoSys /\ ~TopSys
    BY <2>1, InUserCode
  <2> QED
    BY <1>1, <1>2, <2>1, <2>2 DEF Pairing, Resumed
<1>4. CASE \E n \in Sys \cup {SigReturn} : SysEnter(n)
  <2>1. PICK n \in Sys \cup {SigReturn} : SysEnter(n)
    BY <1>4
  <2>2. /\ Running /\ breakpoints_enabled = 1
        /\ n # SigReturn /\ insys' = n /\ orig_eax' = n /\ mode' = "trap"
    BY <2>1 DEF SysEnter, Executes
  <2>3. ~TopSys
    BY <2>2, InUserCode
  <2> QED
    BY <1>1, <1>2, <2>2, <2>3 DEF Pairing, Resumed
<1>5. CASE SysLeave
  <2>1. mode = "cont" /\ insys # NoSys /\ insys' = NoSys /\ mode' = "trap" /\ orig_eax' = insys
    BY <1>5 DEF SysLeave, Pairing
  <2>2. SigReturn # NoSys /\ breakpoints_enabled # -1
    BY <2>1, SysAssumption DEF NoSys, Pairing
  <2> QED
    BY <1>1, <1>2, <2>1, <2>2 DEF Pairing, Resumed
<1>6. CASE TakeSignal \/ TakeStop \/ Die
  <2>1. /\ mode \in {"cont", "step"} /\ mode' \in {"signal", "sigstop", "exited"}
        /\ UNCHANGED <<insys, orig_eax>>
        /\ insys # NoSys => mode' = "exited"
    BY <1>6 DEF TakeSignal, TakeStop, Die, Running, Resumed
  <2> QED
    BY <1>1, <1>2, <2>1 DEF Pairing, Resumed
<1> QED
  BY <1>3, <1>4, <1>5, <1>6 DEF Program

LEMMA PairingTracer == Counts /\ Pairing /\ Tracer => Pairing'
<1> SUFFICES ASSUME Counts, Pairing, Tracer PROVE Pairing'
  OBVIOUS
<1> USE DEF bpVars, threadVars, exitVars, cpuVars, sysVars
<1>1. TypeOK /\ callstack \in Seq(Frames) /\ Len(callstack) \in Nat
  BY LenProperties DEF Counts, TypeOK
<1>2. ~TopIsSyscall(NoSys)
  BY <1>1, TopNumber
<1>3. CASE FirstEvent \/ Detach \/ ProcessSignal \/ ProcessExit
  <2>1. /\ UNCHANGED <<callstack, tooDeep, insys>>
        /\ mode \notin {"cont", "step", "trap"} \/ breakpoints_enabled = -1
        /\ mode' \in {"cont", "dead", "detached"}
        /\ mode' = "dead" => mode = "exited"
        /\ mode' = "cont" => breakpoints_enabled = -1 \/ mode \in {"signal", "sigstop"}
        /\ mode' = "detached" => mode = "sigstop"
        /\ breakpoints_enabled' = -1 => breakpoints_enabled = -1
        /\ orig_eax' \in {orig_eax, NoSys}
        /\ mode' = "cont" => orig_eax' = NoSys
    BY <1>3 DEF FirstEvent, EnableAll, Detach, DisableAll, ProcessSignal, ProcessExit, Stopped,
                Tracing, Continue, Pairing
  <2>2. /\ TopSys' = TopSys /\ Refused' = Refused
        /\ \A n : TopIsSyscall(n)' = TopIsSyscall(n)
    BY <2>1 DEF TopSys, Refused, Full, TopIsSyscall
  <2>3. breakpoints_enabled = -1 => ~TopSys
    BY DEF Pairing, TopSys
  <2> QED
    BY <2>1, <2>2, <2>3 DEF Pairing, Resumed
<1>4. CASE ProcessSyscall
  <2>1. /\ mode = "trap" /\ breakpoints_enabled # -1 /\ breakpoints_enabled' # -1
        /\ orig_eax # NoSys /\ ~TopIsSyscall(orig_eax)
        /\ mode' = "cont" /\ orig_eax' = NoSys /\ insys' = insys
        /\ callstack' = IF Full THEN callstack ELSE Append(callstack, SyscallFrame(orig_eax))
        /\ tooDeep' = (tooDeep \/ Full)
    BY <1>4 DEF ProcessSyscall, Syscall, Tracing, EnableAll, Continue, NoSys
  <2>2. ~TopSys
    BY <2>1 DEF Pairing
  <2>3. \A i \in 1..Len(callstack) : ~callstack[i].is_syscall
    BY <1>1, <2>2, UserFrames
  <2>4. CASE Full
    BY <2>1, <2>2, <2>3, <2>4 DEF Pairing, TopSys, Refused, Full, Resumed
  <2>5. CASE ~Full
    <3> DEFINE e == SyscallFrame(orig_eax)
    <3>1. /\ Len(callstack') = Len(callstack) + 1
          /\ callstack'[Len(callstack')] = e
          /\ \A i \in 1..Len(callstack) : callstack'[i] = callstack[i]
          /\ callstack' # << >>
      BY <2>1, <2>5, <1>1
    <3>2. e.is_syscall /\ e.c_un = orig_eax
      BY DEF SyscallFrame
    <3>3. orig_eax = insys
      BY <2>1, <2>2, <2>5 DEF Pairing, Refused
    <3>4. TopSys' /\ TopIsSyscall(insys)'
      BY <2>1, <3>1, <3>2, <3>3 DEF TopSys, TopIsSyscall
    <3>5. \A i \in 1..Len(callstack') : callstack'[i].is_syscall => i = Len(callstack')
      BY <2>3, <3>1, <1>1
    <3> QED
      BY <2>1, <3>4, <3>5 DEF Pairing, Resumed
  <2> QED
    BY <2>4, <2>5
<1>5. CASE ProcessSysret
  <2>1. /\ mode = "trap" /\ TopIsSyscall(orig_eax)
        /\ mode' = "cont" /\ orig_eax' = NoSys /\ insys' = insys
        /\ breakpoints_enabled # -1 /\ breakpoints_enabled' = breakpoints_enabled
        /\ callstack' = SubSeq(callstack, 1, Len(callstack) - 1)
    BY <1>5 DEF ProcessSysret, Sysret, Tracing, Continue
  <2>2. TopSys /\ callstack # << >>
    BY <1>1, <2>1, TopNumber DEF TopSys
  <2>3. insys = NoSys
    BY <2>1, <2>2 DEF Pairing
  <2>4. /\ Len(callstack') = Len(callstack) - 1
        /\ \A i \in 1..(Len(callstack) - 1) : callstack'[i] = callstack[i]
    <3>1. Len(callstack) \in 1..Len(callstack)
      BY <1>1, <2>2, TopFrame
    <3> QED
      BY <3>1, <1>1, <2>1, RefsCut
  <2>5. \A i \in 1..Len(callstack') : ~callstack'[i].is_syscall
    BY <1>1, <2>4 DEF Pairing
  <2>6. ~TopSys'
    <3>1. callstack' # << >> => Len(callstack') \in 1..Len(callstack')
      BY <1>1, <2>1, <2>4
    <3> QED
      BY <3>1, <2>5 DEF TopSys
  <2> QED
    BY <2>1, <2>3, <2>5, <2>6 DEF Pairing, Resumed
<1>6. ASSUME Breakpoint,
             mode' \in {"cont", "step"}, insys' = insys, orig_eax' = NoSys,
             breakpoints_enabled' = breakpoints_enabled,
             \A i \in 1..Len(callstack') : ~callstack'[i].is_syscall
      PROVE  Pairing'
  <2>1. insys = NoSys /\ breakpoints_enabled # -1
    BY <1>1, <1>6, InUserCode DEF Breakpoint, Tracing
  <2>2. TypeOK'
    BY CountsTracer DEF Counts
  <2>3. ~TopSys'
    <3>1. callstack' # << >> => Len(callstack') \in 1..Len(callstack')
      BY <2>2, EmptySeq DEF TypeOK
    <3> QED
      BY <3>1, <1>6 DEF TopSys
  <2>4. insys' # SigReturn
    BY <1>6 DEF Pairing
  <2> QED
    BY <1>6, <2>1, <2>3, <2>4 DEF Pairing, Resumed
<1>7. ASSUME Breakpoint
      PROVE  /\ \A i \in 1..Len(callstack) : ~callstack[i].is_syscall
             /\ orig_eax = NoSys
  BY <1>1, <1>7, InUserCode, UserFrames
<1>8. CASE Reinsert \/ UnknownHit
  BY <1>6, <1>7, <1>8 DEF Reinsert, UnknownHit, Continue
<1>9. CASE \E i \in 1..Len(callstack) : ReturnHit(i)
  <2>1. PICK i \in 1..Len(callstack) : ReturnHit(i)
    BY <1>9
  <2>2. /\ Len(callstack') = i - 1
        /\ \A k \in 1..(i - 1) : callstack'[k] = callstack[k]
    BY <2>1, <1>1, RefsCut DEF ReturnHit, Pop
  <2> QED
    BY <1>1, <1>6, <1>7, <2>1, <2>2 DEF ReturnHit, ContinueAfterBreakpoint
<1>10. CASE \E r \in StackTop : EntryHit(r)
  <2>1. PICK r \in StackTop : EntryHit(r)
    BY <1>10
  <2> DEFINE e == SymFrame(brk_addr, r)
  <2>2. ~e.is_syscall
    BY DEF SymFrame
  <2>3. callstack' = IF Full THEN callstack ELSE Append(callstack, e)
    BY <2>1 DEF EntryHit
  <2>4. Breakpoint
    BY <2>1 DEF EntryHit
  <2>5. \A k \in 1..Len(callstack') : ~callstack'[k].is_syscall
    BY <1>1, <1>7, <2>2, <2>3, <2>4
  <2> QED
    BY <1>6, <1>7, <2>1, <2>4, <2>5 DEF EntryHit, ContinueAfterBreakpoint
<1> QED
  BY <1>3, <1>4, <1>5, <1>8, <1>9, <1>10 DEF Tracer

PairingInv == Counts /\ Pairing

LEMMA PairingInit == Init => Pairing
BY SysAssumption DEF Init, Pairing, TopSys, Resumed, NoSys

LEMMA PairingNext ==
  ASSUME "sigreturn" \notin Env
  PROVE  PairingInv /\ [Next]_vars => PairingInv'
<1> SUFFICES ASSUME PairingInv, [Next]_vars PROVE PairingInv'
  OBVIOUS
<1>1. Counts' /\ TypeOK
  BY CountsNext DEF PairingInv, Counts
<1>2. CASE SignalExit \/ SignalAlarm \/ UNCHANGED vars
  <2>1. UNCHANGED <<breakpoints_enabled, callstack, tooDeep, mode, insys, orig_eax>>
    BY <1>2 DEF SignalExit, SignalAlarm, vars, bpVars, threadVars, sysVars, ptraceVars
  <2> QED
    BY <1>1, <2>1 DEF PairingInv, Pairing, TopSys, Refused, Full, TopIsSyscall, Resumed
<1> QED
  BY <1>1, <1>2, PairingProgram, PairingTracer DEF Next, Finished, PairingInv

\* Unless the program returns from signal handlers by sigreturn, whatever else
\* it does: the frame on top is a system call's exactly while the thread is in
\* that call, and none is ever buried (syscall_p, process_syscall, process_sysret).
THEOREM SyscallFramesFollowKernel ==
  ASSUME "sigreturn" \notin Env
  PROVE  Spec => []SyscallFramesMatchKernel
<1>1. PairingInv => SyscallFramesMatchKernel
  <2> SUFFICES ASSUME PairingInv PROVE SyscallFramesMatchKernel
    OBVIOUS
  <2>1. TypeOK /\ Pairing
    BY DEF PairingInv, Counts
  <2>2. ASSUME mode = "cont", ~tooDeep, NEW n \in Sys
        PROVE  TopIsSyscall(n) <=> insys = n
    <3>1. n # NoSys
      BY SysAssumption DEF NoSys
    <3>2. ASSUME TopIsSyscall(n) PROVE insys = n
      <4>1. TopIsSyscall(insys)
        BY <2>1, <2>2, <3>2, TopNumber DEF Pairing
      <4> QED
        BY <3>2, <4>1 DEF TopIsSyscall
    <3>3. ASSUME insys = n PROVE TopIsSyscall(n)
      BY <2>1, <2>2, <3>1, <3>3 DEF Pairing, Refused
    <3> QED
      BY <3>2, <3>3
  <2> QED
    BY <2>1, <2>2 DEF SyscallFramesMatchKernel, Pairing
<1>2. Init => PairingInv
  BY CountsInit, PairingInit DEF PairingInv
<1>3. PairingInv /\ [Next]_vars => PairingInv'
  BY PairingNext
<1> QED
  BY <1>1, <1>2, <1>3, PTL DEF Spec

(***************************************************************************)
(* The calls in progress.                                                  *)
(***************************************************************************)

SeenCalls == {i \in 1..Len(real) : real[i].seen}

\* The frame e[i] is the one of the call i, and the frames are in the order of
\* the calls.
Keeps(e) ==
  /\ e \in [SeenCalls -> 1..Len(callstack)]
  /\ \A i \in SeenCalls : callstack[e[i]] = SymFrame(real[i].fn, real[i].ret)
  /\ \A i, j \in SeenCalls : i < j => e[i] < e[j]

\* A traced function has just returned, and the breakpoint at its return
\* address is not handled yet: the frame m is its own, or a later one's that
\* returns there too.
Pending == pc \in Site /\ enabled[pc] > 0 /\ mode \in {"cont", "trap"}

Above(e, m) ==
  /\ m \in 1..Len(callstack)
  /\ callstack[m].return_addr = pc
  /\ \A i \in SeenCalls : e[i] < m

\* An entry is reached by a call only; a system call is made, and left, in
\* code of no interest; a frame returns behind a call.
Places ==
  /\ pc \in Entry => real # << >> /\ real[Len(real)].fn = pc
  /\ breakpoints_enabled = -1 => pc = Elsewhere /\ real = << >>
  /\ insys # NoSys => pc = Elsewhere
  /\ mode = "trap" /\ orig_eax # NoSys => pc = Elsewhere
  /\ \A i \in 1..Len(callstack) : callstack[i].is_syscall \/ callstack[i].return_addr \in Site

\* CallsSeen is kept because the int3 at the entry is in memory: it is lifted
\* only once the call is on record.
Seen == \A i \in 1..Len(real) : ~real[i].seen => i = Len(real) /\ pc = real[i].fn /\ mode # "step"

Kept == \E e : Keeps(e) /\ (Pending => \E m : Above(e, m))

Calls == Places /\ (~tooDeep => Seen /\ Kept)

CallsInv == TrackInv /\ Calls

LEMMA CallsInit == Init => Calls
<1> SUFFICES ASSUME Init PROVE Calls
  OBVIOUS
<1>1. pc = Elsewhere /\ real = << >> /\ callstack = << >> /\ insys = NoSys /\ orig_eax = NoSys
  BY DEF Init
<1>2. Elsewhere \notin Addr /\ Elsewhere \notin Site /\ Elsewhere \notin Entry
  BY AddrAssumption DEF Entry
<1>3. Places /\ Seen
  BY <1>1, <1>2 DEF Places, Seen
<1>4. Kept
  <2> DEFINE e == [i \in {} |-> 0]
  <2>1. SeenCalls = {}
    BY <1>1 DEF SeenCalls
  <2>2. Keeps(e) /\ ~Pending
    BY <2>1, <1>1, <1>2 DEF Keeps, Pending
  <2> QED
    BY <2>2 DEF Kept
<1> QED
  BY <1>3, <1>4 DEF Calls

\* A call in progress, its function and its return address.
LEMMA RealShape ==
  ASSUME TypeOK
  PROVE  /\ Len(real) \in Nat
         /\ \A i \in 1..Len(real) :
              real[i].fn \in Entry /\ real[i].ret \in Site /\ real[i].seen \in BOOLEAN
         /\ real # << >> => Len(real) \in 1..Len(real)
<1>1. real \in Seq(RealCall)
  BY DEF TypeOK, RealCall
<1>2. \A i \in 1..Len(real) : real[i] \in RealCall
  BY <1>1, ElementOfSeq
<1> QED
  BY <1>1, <1>2, LenProperties, EmptySeq DEF RealCall

\* The program gets on only when all calls in progress are on record.
LEMMA AllSeen ==
  ASSUME CallsInv, Executes, Seen
  PROVE  \A i \in 1..Len(real) : real[i].seen
<1> SUFFICES ASSUME NEW i \in 1..Len(real), ~real[i].seen PROVE FALSE
  BY RealShape DEF CallsInv, TrackInv, MemoryInv, Counts
<1>1. TypeOK /\ RefCount /\ PlantedIff /\ OnTrack
  BY DEF CallsInv, TrackInv, MemoryInv, Counts, Memory
<1>2. pc = real[i].fn /\ mode = "cont" /\ breakpoints_enabled = 1
  BY DEF Seen, Executes, Running, Resumed
<1>3. pc \in Addr /\ SymCount[pc] > 0
  BY <1>1, <1>2, RealShape DEF Entry
<1>4. breakpoint_being_enabled = NULL /\ ~skew
  BY <1>1, <1>2 DEF OnTrack
<1>5. enabled[pc] > 0
  <2>1. enabled[pc] = SymCount[pc] + Cardinality(Refs(callstack, pc, 1))
    BY <1>1, <1>3, HoldingIsRefs DEF RefCount
  <2>2. Cardinality(Refs(callstack, pc, 1)) \in Nat
    BY <1>1, RefsFinite DEF TypeOK
  <2> QED
    BY <2>1, <2>2, <1>3, AddrAssumption
<1>6. text[pc] = "int3"
  BY <1>1, <1>2, <1>3, <1>4, <1>5, AddrAssumption DEF PlantedIff
<1> QED
  BY <1>3, <1>4, <1>6 DEF Executes, AtInt3

\* Dropping calls drops no frame of the others.
LEMMA KeepsFewer ==
  ASSUME NEW e, Keeps(e), UNCHANGED callstack, SeenCalls' \subseteq SeenCalls,
         \A i \in SeenCalls' : real'[i].fn = real[i].fn /\ real'[i].ret = real[i].ret
  PROVE  \E d : Keeps(d)' /\ \A i \in SeenCalls' : d[i] = e[i]
<1>1. PICK d : d = [i \in SeenCalls' |-> e[i]]
  OBVIOUS
<1>2. d \in [SeenCalls' -> 1..Len(callstack)] /\ \A i \in SeenCalls' : d[i] = e[i]
  BY <1>1 DEF Keeps
<1>3. \A i \in SeenCalls' : callstack[d[i]] = SymFrame(real'[i].fn, real'[i].ret)
  BY <1>2 DEF Keeps
<1>4. \A i, j \in SeenCalls' : i < j => d[i] < d[j]
  BY <1>2 DEF Keeps
<1>5. Keeps(d)'
  BY <1>2, <1>3, <1>4 DEF Keeps
<1> QED
  BY <1>2, <1>5

\* The thread executes code, all calls in progress being on record.
LEMMA CallsExecuted ==
  ASSUME "untraced" \notin Env, Entry \cap Site = {}, CallsInv, Step, Executed
  PROVE  Calls'
<1> USE DEF bpVars, threadVars, exitVars, cpuVars, sysVars
<1>1. TypeOK /\ OnTrack /\ Places
  BY DEF CallsInv, TrackInv, MemoryInv, Counts, Calls
<1>2. /\ insys = NoSys /\ orig_eax = NoSys /\ insys' = NoSys /\ orig_eax' = NoSys
      /\ breakpoints_enabled' = 1 /\ UNCHANGED <<callstack, tooDeep, enabled>>
  BY <1>1 DEF Executed, Executes, Running, Resumed, OnTrack
<1>3. mode \in {"cont", "step"} /\ mode' = (IF mode = "step" THEN "trap" ELSE mode)
  BY DEF Executed, Executes, Running, Resumed
<1>4. Elsewhere \notin Entry /\ Elsewhere \notin Site /\ Site \subseteq Addr
  BY AddrAssumption DEF Entry
<1>5. /\ Len(real) \in Nat /\ (real # << >> => Len(real) \in 1..Len(real))
      /\ \A i \in 1..Len(real) : real[i].fn \in Entry /\ real[i].ret \in Site
      /\ real \in Seq(RealCall)
  BY <1>1, RealShape DEF TypeOK, RealCall
\* What is left to show of each way to go on: where it leads to, and which
\* calls it drops.
<1>6. ASSUME pc' \in Entry => real' # << >> /\ real'[Len(real')].fn = pc',
             Len(real') \in Nat,
             \A i \in 1..Len(real') :
               \/ ~real'[i].seen /\ i = Len(real') /\ pc' = real'[i].fn
               \/ i \in 1..Len(real) /\ real'[i] = real[i],
             pc' \in Site =>
               \/ real # << >> /\ real'= SubSeq(real, 1, Len(real) - 1)
                               /\ pc' = real[Len(real)].ret
      PROVE  Calls'
  <2>1. Places'
    BY <1>1, <1>2, <1>4, <1>6 DEF Places
  <2>2. ASSUME ~tooDeep' PROVE Seen' /\ Kept'
    <3>1. Executes /\ Seen /\ Kept
      BY <2>2, <1>2 DEF CallsInv, Calls, Executed
    <3>2. \A i \in 1..Len(real) : real[i].seen
      BY <3>1, AllSeen
    <3>3. Seen'
      BY <3>2, <1>3, <1>6 DEF Seen
    <3>4. PICK e : Keeps(e)
      BY <3>1 DEF Kept
    <3>5. SeenCalls' \subseteq SeenCalls /\ \A i \in SeenCalls' : real'[i] = real[i]
      BY <3>2, <1>6 DEF SeenCalls
    <3>6. PICK d : Keeps(d)' /\ \A i \in SeenCalls' : d[i] = e[i]
      BY <3>4, <3>5, <1>2, KeepsFewer
    <3>7. ASSUME Pending' PROVE \E m : Above(d, m)'
      <4> DEFINE n == Len(real)
      <4>1. real # << >> /\ real'= SubSeq(real, 1, n - 1) /\ pc' = real[n].ret
        BY <3>7, <1>6 DEF Pending
      <4>2. n \in SeenCalls /\ Len(real') = n - 1
        BY <4>1, <3>2, <1>5, RefsCut DEF SeenCalls
      <4>3. callstack[e[n]] = SymFrame(real[n].fn, real[n].ret) /\ e[n] \in 1..Len(callstack)
        BY <3>4, <4>2 DEF Keeps
      <4>4. \A i \in SeenCalls' : d[i] < e[n]
        <5>1. \A i \in SeenCalls' : i \in SeenCalls /\ i < n
          BY <3>5, <4>2, <1>5 DEF SeenCalls
        <5> QED
          BY <5>1, <3>4, <3>6, <4>2 DEF Keeps
      <4> QED
        BY <4>1, <4>3, <4>4, <1>2 DEF Above, SymFrame
    <3> QED
      BY <3>3, <3>6, <3>7 DEF Kept
  <2> QED
    BY <2>1, <2>2 DEF Calls
<1>7. CASE Plain \/ Trap
  BY <1>7, <1>4, <1>5, <1>6 DEF Plain, Trap, Executed, Executes
<1>8. CASE \E f \in Entry, r \in Site : Call(f, r)
  <2>1. PICK f \in Entry, r \in Site : Call(f, r)
    BY <1>8
  <2> DEFINE new == [fn |-> f, ret |-> r, seen |-> FALSE]
  <2>2. pc' = f /\ real' = Append(real, new) /\ new \in RealCall
    BY <2>1 DEF Call, RealCall
  <2>3. /\ Len(real') = Len(real) + 1 /\ real'[Len(real')] = new /\ real' # << >>
        /\ \A i \in 1..Len(real) : real'[i] = real[i]
    BY <2>2, <1>5, AppendProperties
  <2> QED
    BY <2>2, <2>3, <1>5, <1>6
<1>9. CASE Return
  <2>1. real # << >> /\ pc' = real[Len(real)].ret /\ real' = SubSeq(real, 1, Len(real) - 1)
    BY <1>9 DEF Return
  <2>2. Len(real') = Len(real) - 1 /\ \A i \in 1..(Len(real) - 1) : real'[i] = real[i]
    BY <2>1, <1>5, RefsCut
  <2>3. pc' \notin Entry
    BY <2>1, <1>5
  <2> QED
    BY <2>1, <2>2, <2>3, <1>5, <1>6
<1>10. CASE \E f \in Entry : TailCall(f)
  <2>1. PICK f \in Entry : TailCall(f)
    BY <1>10
  <2> DEFINE n == Len(real)
             new == [fn |-> f, ret |-> real[n].ret, seen |-> FALSE]
  <2>2. real # << >> /\ pc' = f /\ real' = [real EXCEPT ![n] = new]
    BY <2>1, <1>5 DEF TailCall
  <2>3. n \in 1..Len(real) /\ new \in RealCall
    BY <2>2, <1>5 DEF RealCall
  <2>4. /\ Len(real') = n /\ real'[n] = new /\ real' # << >>
        /\ \A i \in 1..n : i # n => real'[i] = real[i]
    <3>1. /\ real' \in Seq(RealCall) /\ Len(real') = Len(real)
          /\ \A i \in 1..Len(real) : real'[i] = IF i = n THEN new ELSE real[i]
      <4> HIDE DEF new, n
      <4> QED
        BY <2>2, <2>3, <1>5, ExceptSeq
    <3> HIDE DEF new, n
    <3>2. n > 0 /\ n = Len(real) /\ n \in 1..n
      BY <2>3, <1>5 DEF n
    <3>3. real' # << >>
      BY <3>1, <3>2, EmptySeq
    <3> QED
      BY <3>1, <3>2, <3>3
  <2> QED
    <3>1. pc' = f /\ pc' \notin Site /\ real' # << >> /\ real'[Len(real')].fn = pc'
      BY <2>2, <2>4
    <3>2. \A i \in 1..Len(real') :
            \/ ~real'[i].seen /\ i = Len(real') /\ pc' = real'[i].fn
            \/ i \in 1..Len(real) /\ real'[i] = real[i]
      BY <2>4, <3>1
    <3> QED
      BY <2>4, <3>1, <3>2, <1>5, <1>6
<1>11. CASE \E k \in 0..MaxStack : LongJmp(k)
  <2>1. PICK k \in 0..MaxStack : LongJmp(k)
    BY <1>11
  <2>2. k + 1 \in 1..Len(real) /\ k = (k + 1) - 1
    BY <2>1, <1>5, BoundAssumption DEF LongJmp
  <2>3. pc' = Elsewhere /\ real' = SubSeq(real, 1, (k + 1) - 1)
    BY <2>1, <2>2 DEF LongJmp
  <2>4. Len(real') = k /\ \A i \in 1..k : real'[i] = real[i]
    BY <2>2, <2>3, <1>5, RefsCut
  <2> QED
    BY <2>2, <2>3, <2>4, <1>4, <1>5, <1>6
<1> QED
  BY <1>7, <1>8, <1>9, <1>10, <1>11 DEF Step, UntracedReturn

\* The stack and the calls as they were: what is left to show is where the
\* thread is.
LEMMA CallsSame ==
  ASSUME Calls, Places', UNCHANGED <<callstack, tooDeep, pc, real>>,
         mode' # "step" \/ mode = "step",
         Pending' => Pending
  PROVE  Calls'
<1>1. SeenCalls' = SeenCalls /\ (Seen => Seen')
  BY DEF SeenCalls, Seen
<1>2. ASSUME Kept PROVE Kept'
  <2>1. PICK e : Keeps(e) /\ (Pending => \E m : Above(e, m))
    BY <1>2 DEF Kept
  <2>2. Keeps(e)' /\ (\A m : Above(e, m) => Above(e, m)')
    BY <2>1, <1>1 DEF Keeps, Above
  <2> QED
    BY <2>1, <2>2 DEF Kept
<1> QED
  BY <1>1, <1>2 DEF Calls

LEMMA CallsProgram ==
  ASSUME "signal" \notin Env, "untraced" \notin Env, Entry \cap Site = {}
  PROVE  CallsInv /\ Program => Calls'
<1> SUFFICES ASSUME CallsInv, Program PROVE Calls'
  OBVIOUS
<1> USE DEF bpVars, threadVars, exitVars, cpuVars, sysVars
<1>1. TypeOK /\ Memory /\ OnTrack /\ Places /\ Calls
  BY DEF CallsInv, TrackInv, MemoryInv, Counts, Calls
<1>2. Elsewhere \notin Entry /\ Elsewhere \notin Site
  BY AddrAssumption DEF Entry
<1>3. CASE Trap
  <2>1. mode = "cont"
    <3>1. mode = "step" => text[pc] # "int3"
      BY <1>1, <1>3 DEF Trap, Memory, PlantedIff, OnTrack, AtInt3
    <3> QED
      BY <3>1, <1>3 DEF Trap, Running, Resumed, AtInt3
  <2>2. mode' = "trap" /\ orig_eax' = NoSys
        /\ UNCHANGED <<bpVars, threadVars, pc, real, insys>>
    BY <1>1, <1>3 DEF Trap, Running, OnTrack
  <2>3. Places'
    BY <2>2, <1>1 DEF Places
  <2> QED
    BY <2>1, <2>2, <2>3, <1>1, CallsSame DEF Pending
<1>4. CASE Step /\ ~Trap
  <2>1. Executed
    BY <1>4 DEF Step, Plain, Call, Return, TailCall, LongJmp, UntracedReturn
  <2> QED
    BY <2>1, <1>4, CallsExecuted
<1>5. CASE \E n \in Sys \cup {SigReturn} : SysEnter(n)
  <2>1. /\ Executes /\ pc' = Elsewhere /\ mode' = "trap" /\ breakpoints_enabled' # -1
        /\ UNCHANGED <<callstack, tooDeep, real>>
    BY <1>5 DEF SysEnter, Executes
  <2>2. Places'
    BY <2>1, <1>1, <1>2 DEF Places
  <2>3. ASSUME ~tooDeep' PROVE Seen' /\ Kept'
    <3>1. Seen /\ Kept
      BY <2>1, <2>3, <1>1 DEF Calls
    <3>2. Seen'
      BY <2>1, <3>1, AllSeen DEF Seen
    <3>3. PICK e : Keeps(e)
      BY <3>1 DEF Kept
    <3>4. Keeps(e)'
      BY <3>3, <2>1 DEF Keeps, SeenCalls
    <3> QED
      BY <3>2, <3>4, <2>1, <1>2 DEF Kept, Pending
  <2> QED
    BY <2>2, <2>3 DEF Calls
<1>6. CASE SysLeave
  <2>1. /\ pc = Elsewhere /\ mode' = "trap" /\ insys' = NoSys
        /\ UNCHANGED <<bpVars, threadVars, pc, real>>
    BY <1>6, <1>1 DEF SysLeave, Places
  <2>2. Places'
    BY <2>1, <1>1, <1>2 DEF Places
  <2> QED
    BY <2>1, <2>2, <1>1, <1>2, CallsSame DEF Pending
<1>7. CASE TakeStop \/ Die
  <2>1. /\ mode' \in {"sigstop", "exited"}
        /\ UNCHANGED <<bpVars, threadVars, cpuVars, sysVars>>
    BY <1>7 DEF TakeStop, Die
  <2>2. Places'
    BY <2>1, <1>1 DEF Places
  <2> QED
    BY <2>1, <2>2, <1>1, CallsSame DEF Pending
<1> QED
  BY <1>3, <1>4, <1>5, <1>6, <1>7 DEF Program, TakeSignal

\* A breakpoint that is handled is at the instruction pointer, and stays there.
LEMMA AtBreakpoint ==
  ASSUME TrackInv, Breakpoint, brk_addr \in Addr
  PROVE  /\ pc = brk_addr /\ enabled[pc] > 0
         /\ mode = "trap" /\ breakpoints_enabled = 1
         /\ orig_eax = NoSys /\ insys = NoSys
<1>1. TypeOK /\ OnTrack
  BY DEF TrackInv, MemoryInv, Counts
<1>2. skew /\ pc = brk_addr
  BY <1>1, BreakAddress
<1> QED
  BY <1>1, <1>2 DEF OnTrack, Breakpoint

\* A return: the calls on record are all below the frame found, from which on
\* everything is popped.
LEMMA CallsReturnHit ==
  ASSUME Entry \cap Site = {}, CallsInv, NEW i \in 1..Len(callstack), ReturnHit(i)
  PROVE  Calls'
<1> USE DEF bpVars, threadVars, exitVars, cpuVars, sysVars
<1>1. TypeOK /\ RefCount /\ Places /\ Calls /\ TrackInv /\ Counts
  BY DEF CallsInv, TrackInv, MemoryInv, Counts, Calls
<1>2. callstack \in Seq(Frames) /\ Len(callstack) \in Nat /\ callstack[i] \in Frames
  BY <1>1, LenProperties, ElementOfSeq DEF TypeOK
<1>3. /\ Breakpoint
      /\ callstack[i].return_addr = brk_addr
      /\ \A k \in (i + 1)..Len(callstack) : callstack[k].return_addr # brk_addr
      /\ callstack' = SubSeq(callstack, 1, i - 1)
      /\ UNCHANGED <<breakpoints_enabled, tooDeep, real, insys, orig_eax>>
  BY DEF ReturnHit, Returning, Pop
<1>4. brk_addr \in Addr /\ brk_addr \in Site /\ pc = brk_addr
  <2>1. brk_addr # NULL
    BY <1>1, BreakAddress
  <2>2. ~callstack[i].is_syscall /\ brk_addr \in Addr
    BY <1>2, <1>3, <2>1, FrameShape
  <2> QED
    BY <1>1, <1>3, <2>2, AtBreakpoint DEF Places
<1>5. Pending /\ breakpoints_enabled = 1 /\ insys = NoSys /\ orig_eax = NoSys
  BY <1>1, <1>3, <1>4, AtBreakpoint DEF Pending
<1>6. /\ Len(callstack') = i - 1
      /\ \A k \in 1..(i - 1) : callstack'[k] = callstack[k]
  BY <1>2, <1>3, RefsCut
<1>7. pc' = pc /\ mode' \in {"step", "cont"} /\ ~Pending'
  <2>1. enabled' = Released(i) /\ pc' = brk_addr
        /\ mode' = IF Released(i)[brk_addr] # 0 THEN "step" ELSE "cont"
    BY DEF ReturnHit, ContinueAfterBreakpoint
  <2> QED
    BY <2>1, <1>4 DEF Pending
<1>8. Places'
  BY <1>1, <1>2, <1>3, <1>5, <1>6, <1>7 DEF Places
<1>9. ASSUME ~tooDeep' PROVE Seen' /\ Kept'
  <2>1. Seen /\ Kept
    BY <1>1, <1>3, <1>9 DEF Calls
  <2>2. Seen'
    <3>1. \A k \in 1..Len(real) : real[k].fn # pc
      BY <1>1, <1>4, RealShape
    <3> QED
      BY <3>1, <2>1, <1>3 DEF Seen
  <2>3. PICK e, m : Keeps(e) /\ Above(e, m)
    BY <2>1, <1>5 DEF Kept
  <2>4. m <= i
    BY <2>3, <1>2, <1>3, <1>4 DEF Above
  <2>5. SeenCalls' = SeenCalls /\ \A k \in SeenCalls : e[k] \in 1..(i - 1)
    BY <2>3, <2>4, <1>2, <1>3 DEF SeenCalls, Above, Keeps
  <2>6. e \in [SeenCalls -> 1..(i - 1)]
    BY <2>3, <2>5 DEF Keeps
  <2>7. Keeps(e)'
    BY <2>3, <2>5, <2>6, <1>3, <1>6 DEF Keeps
  <2> QED
    BY <2>2, <2>7, <1>7 DEF Kept
<1> QED
  BY <1>8, <1>9 DEF Calls

\* An entry: the call is put on record, on top of all others.
LEMMA CallsEntryHit ==
  ASSUME Entry \cap Site = {}, CallsInv, NEW r \in StackTop, EntryHit(r)
  PROVE  Calls'
<1> USE DEF bpVars, threadVars, exitVars, cpuVars, sysVars
<1> DEFINE n == Len(real)
           top == SymFrame(brk_addr, r)
<1>1. TypeOK /\ Places /\ Calls /\ TrackInv
  BY DEF CallsInv, TrackInv, MemoryInv, Counts, Calls
<1>2. callstack \in Seq(Frames) /\ Len(callstack) \in Nat
  BY <1>1, LenProperties DEF TypeOK
<1>3. /\ Breakpoint /\ brk_addr \in Entry /\ brk_addr \in Addr
      /\ pc' = brk_addr /\ mode' \in {"step", "cont"}
      /\ callstack' = IF Full THEN callstack ELSE Append(callstack, top)
      /\ tooDeep' = (tooDeep \/ Full)
      /\ real' = IF Full THEN real ELSE Noted
      /\ UNCHANGED <<breakpoints_enabled, insys, orig_eax>>
  BY DEF EntryHit, ContinueAfterBreakpoint, Entry
<1>4. pc = brk_addr /\ pc' = pc /\ breakpoints_enabled = 1 /\ insys = NoSys /\ orig_eax = NoSys
  BY <1>1, <1>3, AtBreakpoint
<1>5. real # << >> /\ real[n].fn = pc /\ n \in 1..n /\ real[n].ret \in Site /\ n \in Nat
  BY <1>1, <1>3, <1>4, RealShape DEF Places
<1>6. r = real[n].ret
  BY <1>5 DEF StackTop
<1>7. /\ Len(real') = n /\ real' # << >>
      /\ \A i \in 1..n : real'[i].fn = real[i].fn /\ real'[i].ret = real[i].ret
      /\ \A i \in 1..n : real'[i].seen = (real[i].seen \/ (~Full /\ i = n))
  <2> DEFINE new == [real[n] EXCEPT !.seen = TRUE]
  <2>1. real \in Seq(RealCall) /\ real[n] \in RealCall
    BY <1>1, <1>5, ElementOfSeq DEF TypeOK, RealCall
  <2>2. new \in RealCall /\ new.fn = real[n].fn /\ new.ret = real[n].ret /\ new.seen
    BY <2>1 DEF RealCall
  <2>3. CASE ~Full
    <3>1. real' = [real EXCEPT ![n] = new]
      BY <2>3, <1>3, <1>5 DEF Noted
    <3> HIDE DEF new
    <3>2. /\ real' \in Seq(RealCall) /\ Len(real') = n
          /\ \A i \in 1..n : real'[i] = IF i = n THEN new ELSE real[i]
      BY <3>1, <2>1, <2>2, <1>5, ExceptSeq
    <3>3. real' # << >>
      BY <3>2, <1>5, EmptySeq
    <3> QED
      BY <3>2, <3>3, <2>2, <2>3, <1>1, RealShape
  <2>4. CASE Full
    BY <2>4, <1>3, <1>5, <1>1, RealShape
  <2> QED
    BY <2>3, <2>4
<1>8. /\ Len(callstack') = IF Full THEN Len(callstack) ELSE Len(callstack) + 1
      /\ \A i \in 1..Len(callstack) : callstack'[i] = callstack[i]
      /\ ~Full => callstack'[Len(callstack) + 1] = top
  <2> HIDE DEF top
  <2> QED
    BY <1>2, <1>3, AppendProperties
<1>9. Places'
  <2>1. \A i \in 1..Len(callstack') : callstack'[i].is_syscall \/ callstack'[i].return_addr \in Site
    BY <1>1, <1>2, <1>5, <1>6, <1>8 DEF Places, SymFrame
  <2> QED
    BY <2>1, <1>1, <1>3, <1>4, <1>5, <1>7 DEF Places
<1>10. ASSUME ~tooDeep' PROVE Seen' /\ Kept'
  <2>1. ~Full /\ Seen /\ Kept
    BY <1>1, <1>3, <1>10 DEF Calls
  <2>2. Seen'
    BY <2>1, <1>5, <1>7 DEF Seen
  <2>3. PICK e : Keeps(e)
    BY <2>1 DEF Kept
  <2>4. SeenCalls' = SeenCalls \cup {n}
    BY <2>1, <1>5, <1>7 DEF SeenCalls
  <2>5. PICK d : d = [i \in SeenCalls' |-> IF i = n THEN Len(callstack) + 1 ELSE e[i]]
    OBVIOUS
  <2>6. \A i \in SeenCalls' : i # n => i < n /\ i \in SeenCalls /\ e[i] \in 1..Len(callstack)
    BY <2>3, <2>4, <1>5 DEF SeenCalls, Keeps
  <2>7. d \in [SeenCalls' -> 1..Len(callstack')]
    BY <2>1, <2>5, <2>6, <1>2, <1>8
  <2>8. \A i \in SeenCalls' : callstack'[d[i]] = SymFrame(real'[i].fn, real'[i].ret)
    <3> SUFFICES ASSUME NEW i \in SeenCalls'
                 PROVE  callstack'[d[i]] = SymFrame(real'[i].fn, real'[i].ret)
      OBVIOUS
    <3>1. i \in 1..n
      BY <1>7 DEF SeenCalls
    <3>2. CASE i = n
      BY <3>1, <3>2, <2>1, <2>5, <1>4, <1>5, <1>6, <1>7, <1>8
    <3>3. CASE i # n
      BY <3>1, <3>3, <2>3, <2>5, <2>6, <1>7, <1>8 DEF Keeps
    <3> QED
      BY <3>2, <3>3
  <2>9. \A i, j \in SeenCalls' : i < j => d[i] < d[j]
    <3> SUFFICES ASSUME NEW i \in SeenCalls', NEW j \in SeenCalls', i < j PROVE d[i] < d[j]
      OBVIOUS
    <3>1. i # n /\ i \in 1..n /\ j \in 1..n
      BY <1>5, <1>7 DEF SeenCalls
    <3>2. CASE j = n
      BY <3>1, <3>2, <2>5, <2>6, <1>2
    <3>3. CASE j # n
      BY <3>1, <3>3, <2>3, <2>5, <2>6 DEF Keeps
    <3> QED
      BY <3>2, <3>3
  <2>10. Keeps(d)'
    BY <2>7, <2>8, <2>9 DEF Keeps
  <2>11. ~Pending'
    BY <1>3 DEF Pending
  <2> QED
    BY <2>2, <2>10, <2>11 DEF Kept
<1> QED
  BY <1>9, <1>10 DEF Calls

LEMMA CallsTracer ==
  ASSUME Entry \cap Site = {}
  PROVE  CallsInv /\ Tracer => Calls'
<1> SUFFICES ASSUME CallsInv, Tracer PROVE Calls'
  OBVIOUS
<1> USE DEF bpVars, threadVars, exitVars, cpuVars, sysVars
<1>1. TypeOK /\ OnTrack /\ Memory /\ Places /\ Calls
  BY DEF CallsInv, TrackInv, MemoryInv, Counts, Calls
<1>2. /\ callstack \in Seq(Frames) /\ Len(callstack) \in Nat
      /\ Elsewhere \notin Entry /\ Elsewhere \notin Site
  BY <1>1, LenProperties, AddrAssumption DEF TypeOK, Entry
<1>3. CASE FirstEvent \/ Detach \/ ProcessExit
  <2>1. /\ mode' \in {"cont", "dead", "detached"}
        /\ mode' = "cont" => breakpoints_enabled = -1
        /\ breakpoints_enabled' = -1 => breakpoints_enabled = -1
        /\ UNCHANGED <<callstack, tooDeep, cpuVars, sysVars>>
    BY <1>3 DEF FirstEvent, EnableAll, Detach, DisableAll, ProcessExit
  <2>2. Places' /\ ~Pending'
    BY <2>1, <1>1, <1>2 DEF Places, Pending
  <2> QED
    BY <2>1, <2>2, <1>1, CallsSame
<1>4. ~ProcessSignal
  BY <1>1 DEF ProcessSignal, Tracing, OnTrack
<1>5. CASE Reinsert \/ UnknownHit
  <2>1. /\ mode = "trap" /\ mode' = "cont"
        /\ UNCHANGED <<breakpoints_enabled, enabled, callstack, tooDeep, cpuVars, insys>>
    BY <1>5 DEF Reinsert, UnknownHit, Breakpoint, Continue
  <2>2. Places'
    BY <2>1, <1>1 DEF Places
  <2> QED
    BY <2>1, <2>2, <1>1, CallsSame DEF Pending
<1>6. CASE ProcessSyscall
  <2> DEFINE top == SyscallFrame(orig_eax)
  <2>1. /\ mode = "trap" /\ orig_eax # NoSys /\ mode' = "cont"
        /\ breakpoints_enabled # -1 /\ breakpoints_enabled' # -1
        /\ callstack' = IF Full THEN callstack ELSE Append(callstack, top)
        /\ tooDeep' = (tooDeep \/ Full)
        /\ UNCHANGED <<insys, pc, real>>
    BY <1>6 DEF ProcessSyscall, Syscall, Tracing, EnableAll, Continue, NoSys
  <2>2. pc' = Elsewhere /\ ~Pending'
    BY <2>1, <1>1, <1>2 DEF Places, Pending
  <2>3. /\ Len(callstack') = IF Full THEN Len(callstack) ELSE Len(callstack) + 1
        /\ \A i \in 1..Len(callstack) : callstack'[i] = callstack[i]
        /\ ~Full => callstack'[Len(callstack) + 1] = top
    <3> HIDE DEF top
    <3> QED
      BY <2>1, <1>2, AppendProperties
  <2>4. Places'
    <3>1. top.is_syscall
      BY DEF SyscallFrame
    <3>2. \A i \in 1..Len(callstack') : callstack'[i].is_syscall \/ callstack'[i].return_addr \in Site
      BY <3>1, <2>3, <1>1, <1>2 DEF Places
    <3> QED
      BY <3>2, <2>1, <2>2, <1>1, <1>2 DEF Places
  <2>5. ASSUME ~tooDeep' PROVE Seen' /\ Kept'
    <3>1. Seen /\ Kept
      BY <2>1, <2>5, <1>1 DEF Calls
    <3>2. Seen' /\ SeenCalls' = SeenCalls
      BY <2>1, <3>1 DEF Seen, SeenCalls
    <3>3. PICK e : Keeps(e)
      BY <3>1 DEF Kept
    <3>4. e \in [SeenCalls -> 1..Len(callstack')]
      BY <3>3, <2>3, <1>2 DEF Keeps
    <3>5. Keeps(e)'
      BY <3>2, <3>3, <3>4, <2>1, <2>3 DEF Keeps
    <3> QED
      BY <3>2, <3>5, <2>2 DEF Kept
  <2> QED
    BY <2>4, <2>5 DEF Calls
<1>7. CASE ProcessSysret
  <2> DEFINE n == Len(callstack)
  <2>1. /\ mode = "trap" /\ TopIsSyscall(orig_eax) /\ mode' = "cont"
        /\ callstack' = SubSeq(callstack, 1, n - 1)
        /\ UNCHANGED <<breakpoints_enabled, tooDeep, insys, pc, real>>
    BY <1>7 DEF ProcessSysret, Sysret, Continue
  <2>2. orig_eax # NoSys /\ n \in 1..n /\ callstack[n].is_syscall
    BY <2>1, <1>1, TopNumber, TopFrame DEF TopIsSyscall
  <2>3. pc' = Elsewhere /\ ~Pending'
    BY <2>1, <2>2, <1>1, <1>2 DEF Places, Pending
  <2>4. /\ Len(callstack') = n - 1
        /\ \A i \in 1..(n - 1) : callstack'[i] = callstack[i]
    BY <2>1, <2>2, <1>2, RefsCut
  <2>5. Places'
    BY <2>1, <2>3, <2>4, <1>1, <1>2 DEF Places
  <2>6. ASSUME ~tooDeep' PROVE Seen' /\ Kept'
    <3>1. Seen /\ Kept
      BY <2>1, <2>6, <1>1 DEF Calls
    <3>2. Seen' /\ SeenCalls' = SeenCalls
      BY <2>1, <3>1 DEF Seen, SeenCalls
    <3>3. PICK e : Keeps(e)
      BY <3>1 DEF Kept
    <3>4. \A i \in SeenCalls : e[i] \in 1..n /\ e[i] # n
      <4>1. \A i \in SeenCalls : e[i] \in 1..n /\ callstack[e[i]] = SymFrame(real[i].fn, real[i].ret)
        BY <3>3 DEF Keeps
      <4>2. \A i \in SeenCalls : ~callstack[e[i]].is_syscall
        BY <4>1, SymFrameFields
      <4> QED
        BY <4>1, <4>2, <2>2
    <3>5. e \in [SeenCalls -> 1..(n - 1)]
      BY <3>3, <3>4, <1>2 DEF Keeps
    <3>6. Keeps(e)'
      BY <3>2, <3>3, <3>5, <2>1, <2>4 DEF Keeps
    <3> QED
      BY <3>2, <3>6, <2>3 DEF Kept
  <2> QED
    BY <2>5, <2>6 DEF Calls
<1>8. CASE (\E i \in 1..Len(callstack) : ReturnHit(i)) \/ (\E r \in StackTop : EntryHit(r))
  BY <1>8, CallsReturnHit, CallsEntryHit
<1> QED
  BY <1>3, <1>4, <1>5, <1>6, <1>7, <1>8 DEF Tracer

LEMMA CallsNext ==
  ASSUME "signal" \notin Env, "untraced" \notin Env, Entry \cap Site = {}
  PROVE  CallsInv /\ [Next]_vars => CallsInv'
<1> SUFFICES ASSUME CallsInv, [Next]_vars PROVE CallsInv'
  OBVIOUS
<1>1. TrackInv'
  BY TrackNext DEF CallsInv
<1>2. CASE SignalExit \/ SignalAlarm \/ UNCHANGED vars
  <2>1. UNCHANGED <<breakpoints_enabled, enabled, callstack, tooDeep, mode, pc, real, insys, orig_eax>>
    BY <1>2 DEF SignalExit, SignalAlarm, vars, bpVars, threadVars, cpuVars, sysVars, ptraceVars
  <2>2. Calls
    BY DEF CallsInv
  <2>3. Places'
    BY <2>1, <2>2 DEF Calls, Places
  <2>4. Calls'
    BY <2>1, <2>2, <2>3, CallsSame DEF Pending
  <2> QED
    BY <1>1, <2>4 DEF CallsInv
<1> QED
  BY <1>1, <1>2, CallsProgram, CallsTracer DEF Next, Finished, CallsInv

LEMMA CallsAlways ==
  ASSUME "signal" \notin Env, "untraced" \notin Env, Entry \cap Site = {}
  PROVE  Spec => []CallsInv
<1>1. Init => CallsInv
  BY CountsInit, MemoryInit, TrackInit, CallsInit DEF CallsInv, TrackInv, MemoryInv
<1>2. CallsInv /\ [Next]_vars => CallsInv'
  BY CallsNext
<1> QED
  BY <1>1, <1>2, PTL DEF Spec

\* Unless a signal arrives, whatever longjmp, tail calls and system calls the
\* program makes (the returns of functions without a symbol at a traced site
\* excepted), no traced function gets past its entry unseen
\* (process_breakpoint of process_event.c, continue_after_breakpoint of trace.c).
THEOREM NoCallMissed ==
  ASSUME "signal" \notin Env, "untraced" \notin Env, Entry \cap Site = {}
  PROVE  Spec => []CallsSeen
<1>1. CallsInv => CallsSeen
  BY DEF CallsInv, Calls, Seen, CallsSeen
<1> QED
  BY <1>1, CallsAlways, PTL

\* For the same programs, the search from the top frame down never pops the
\* frame of a call that is still in progress (process_breakpoint, the loop over callstack[]).
THEOREM NoLiveCallPopped ==
  ASSUME "signal" \notin Env, "untraced" \notin Env, Entry \cap Site = {}
  PROVE  Spec => []LiveCallsKept
<1>1. CallsInv => LiveCallsKept
  BY DEF CallsInv, Calls, Kept, Keeps, SeenCalls, LiveCallsKept
<1> QED
  BY <1>1, CallsAlways, PTL

(***************************************************************************)
(* With plain calls and returns, and nesting within the limit, the frames  *)
(* are the calls: CallTracer implements CallFlow.                          *)
(***************************************************************************)

PlainCalls == Env = {} /\ Entry \cap Site = {} /\ MaxStack < MaxDepth

\* The innermost call has hit its entry and is not on record yet.
Unseen == real # << >> /\ ~real[Len(real)].seen

\* Until the tracer lets the thread go or sees it die: one frame for each
\* call, but for the call or the return at the breakpoint just hit.
Matched ==
  /\ pc \in Entry /\ mode # "step" => Unseen
  /\ Pending => ~Unseen /\ callstack[Len(real) + 1].return_addr = pc
  /\ SymDepth = Len(real) + (IF Pending THEN 1 ELSE IF Unseen THEN -1 ELSE 0)
  /\ \A i \in 1..SymDepth :
       i <= Len(real) => callstack[i] = SymFrame(real[i].fn, real[i].ret)

Followed ==
  /\ ~tooDeep
  /\ Len(real) <= MaxStack
  /\ mode \in {"cont", "step", "trap"} => Matched

FlowInv == CallsInv /\ Pairing /\ Followed

Traced == [fn : Entry, ret : Site]

FlowStep == [Flow!Next]_(Flow!vars)

LEMMA DepthShape ==
  ASSUME TypeOK
  PROVE  /\ SymDepth = IF TopSys THEN Len(callstack) - 1 ELSE Len(callstack)
         /\ SymDepth \in Nat
BY LenProperties, TopFrame DEF SymDepth, TopSys, TypeOK

\* The calls in progress as CallFlow has them.
LiveFields ==
  /\ Live \in Seq(Traced) /\ Len(Live) = Len(real)
  /\ \A i \in 1..Len(real) : Live[i] = [fn |-> real[i].fn, ret |-> real[i].ret]

LEMMA LiveShape == TypeOK => LiveFields
<1> SUFFICES ASSUME TypeOK PROVE LiveFields
  OBVIOUS
<1>1. Len(real) \in Nat /\ Live \in [1..Len(real) -> Traced]
  BY RealShape DEF Live, Traced
<1>2. Live \in Seq(Traced)
  BY <1>1, SeqDef
<1> QED
  BY <1>1, <1>2, LenProperties, RealShape DEF Live, LiveFields

LEMMA LiveShapeNext == TypeOK' => LiveFields'
BY LiveShape, PTL

\* The display is up to date exactly when no breakpoint waits to be handled.
LEMMA CaughtIff ==
  ASSUME TypeOK, Matched
  PROVE  Shown = Live <=> ~Pending /\ ~Unseen
<1> DEFINE n == Len(real)
<1>1. n \in Nat /\ SymDepth \in Nat
  BY RealShape, DepthShape
<1>2. ASSUME ~Pending, ~Unseen PROVE Shown = Live
  <2>1. SymDepth = n
    BY <1>1, <1>2 DEF Matched
  <2>2. \A i \in 1..n : callstack[i].c_un = real[i].fn /\ callstack[i].return_addr = real[i].ret
    <3>1. \A i \in 1..n : callstack[i] = SymFrame(real[i].fn, real[i].ret)
      BY <1>1, <2>1 DEF Matched
    <3> QED
      BY <3>1, SymFrameFields
  <2> QED
    BY <2>1, <2>2 DEF Shown, Live
<1>3. ASSUME Pending \/ Unseen PROVE Shown # Live
  <2>1. SymDepth # n
    BY <1>1, <1>3 DEF Matched
  <2>2. DOMAIN Shown = 1..SymDepth /\ DOMAIN Live = 1..n
    BY DEF Shown, Live
  <2>3. 1..SymDepth # 1..n
    <3>1. n < SymDepth \/ SymDepth < n
      BY <1>1, <2>1
    <3>2. n < SymDepth => SymDepth \in 1..SymDepth /\ SymDepth \notin 1..n
      BY <1>1
    <3>3. SymDepth < n => n \in 1..n /\ n \notin 1..SymDepth
      BY <1>1
    <3> QED
      BY <3>1, <3>2, <3>3
  <2> QED
    BY <2>2, <2>3
<1> QED
  BY <1>2, <1>3

LEMMA CaughtIffNext == TypeOK' /\ Matched' => (Shown' = Live' <=> ~Pending' /\ ~Unseen')
<1>1. TypeOK /\ Matched => (Shown = Live <=> ~Pending /\ ~Unseen)
  BY CaughtIff
<1>2. (TypeOK /\ Matched => (Shown = Live <=> ~Pending /\ ~Unseen))'
  BY <1>1, PTL
<1> QED
  BY <1>2

\* The program gets on only when the display is up to date.
LEMMA UpToDate ==
  ASSUME FlowInv, Executes
  PROVE  /\ ~Pending /\ ~Unseen /\ Shown = Live /\ Matched
         /\ insys = NoSys /\ orig_eax = NoSys /\ ~TopSys
         /\ SymDepth = Len(real) /\ Len(callstack) = Len(real)
         /\ \A i \in 1..Len(real) : /\ callstack[i] = SymFrame(real[i].fn, real[i].ret)
                                    /\ real[i].seen
<1>1. TypeOK /\ PlantedIff /\ OnTrack /\ Calls /\ Followed /\ Pairing
  BY DEF FlowInv, CallsInv, TrackInv, MemoryInv, Counts, Memory
<1>2. mode \in {"cont", "step"} /\ breakpoints_enabled = 1 /\ Matched
  BY <1>1 DEF Executes, Running, Resumed, Followed
<1>3. \A i \in 1..Len(real) : real[i].seen
  BY <1>1, AllSeen DEF FlowInv, Followed, Calls
<1>4. ~Unseen
  BY <1>1, <1>3, RealShape DEF Unseen
<1>5. ASSUME Pending PROVE FALSE
  <2>1. pc \in Addr /\ enabled[pc] > 0 /\ mode = "cont"
    BY <1>2, <1>5, AddrAssumption DEF Pending
  <2>2. ~skew /\ breakpoint_being_enabled = NULL
    BY <1>1, <2>1 DEF OnTrack
  <2>3. text[pc] = "int3"
    BY <1>1, <1>2, <2>1, <2>2, AddrAssumption DEF PlantedIff
  <2> QED
    BY <2>1, <2>2, <2>3 DEF Executes, AtInt3
<1>6. insys = NoSys /\ orig_eax = NoSys /\ ~TopSys
  BY <1>1, InUserCode DEF Executes
<1>7. SymDepth = Len(real) /\ Len(callstack) = Len(real)
  BY <1>1, <1>2, <1>4, <1>5, <1>6, DepthShape, RealShape DEF Matched
<1>8. \A i \in 1..Len(real) : callstack[i] = SymFrame(real[i].fn, real[i].ret)
  BY <1>1, <1>2, <1>7, RealShape DEF Matched
<1> QED
  BY <1>1, <1>2, <1>3, <1>4, <1>5, <1>6, <1>7, <1>8, CaughtIff

\* A step that changes neither the calls nor the frames of functions.
LEMMA FlowSame ==
  ASSUME UNCHANGED <<real, callstack>>
  PROVE  FlowStep /\ SymDepth' = SymDepth
BY DEF FlowStep, Flow!vars, Live, Shown, SymDepth

LEMMA FlowInit == Init => Followed /\ Flow!Init
<1> SUFFICES ASSUME Init PROVE Followed /\ Flow!Init
  OBVIOUS
<1>1. real = << >> /\ callstack = << >> /\ pc = Elsewhere /\ ~tooDeep
  BY DEF Init
<1>2. pc \notin Entry /\ pc \notin Site
  BY <1>1, AddrAssumption DEF Entry
<1>3. Len(real) = 0 /\ SymDepth = 0 /\ ~Unseen /\ ~Pending
  BY <1>1, <1>2 DEF SymDepth, Unseen, Pending
<1>4. Followed
  BY <1>1, <1>2, <1>3, BoundAssumption DEF Followed, Matched
<1>5. Live = << >> /\ Shown = << >>
  BY <1>3 DEF Live, Shown
<1> QED
  BY <1>4, <1>5 DEF Flow!Init

\* A call: the program is one ahead of the display.
LEMMA FlowCall ==
  ASSUME PlainCalls, FlowInv, NEW f \in Entry, NEW r \in Site, Call(f, r)
  PROVE  Followed' /\ FlowStep
<1> USE DEF bpVars, threadVars, exitVars, cpuVars, sysVars
<1> DEFINE n == Len(real)
           new == [fn |-> f, ret |-> r, seen |-> FALSE]
<1>1. TypeOK /\ Executes /\ Followed
  BY DEF Call, Executed, FlowInv, CallsInv, TrackInv, MemoryInv, Counts
<1>2. TypeOK'
  <2>1. Counts /\ Program
    BY DEF Program, Step, FlowInv, CallsInv, TrackInv, MemoryInv
  <2> QED
    BY <2>1, CountsProgram DEF Counts
<1>3. /\ pc' = f /\ pc' \notin Site /\ real' = Append(real, new) /\ n < MaxStack
      /\ UNCHANGED <<callstack, tooDeep>>
  BY DEF Call, Executed, PlainCalls
<1>4. real \in Seq(RealCall) /\ new \in RealCall /\ n \in Nat
  BY <1>1, LenProperties DEF TypeOK, RealCall
<1>5. /\ Len(real') = n + 1 /\ real'[n + 1] = new /\ real' # << >>
      /\ \A i \in 1..n : real'[i] = real[i]
  <2> HIDE DEF new
  <2> QED
    BY <1>3, <1>4, AppendProperties
<1>6. /\ SymDepth = n /\ Shown = Live
      /\ \A i \in 1..n : callstack[i] = SymFrame(real[i].fn, real[i].ret)
  BY <1>1, UpToDate
<1>7. SymDepth' = n /\ Shown' = Shown
  BY <1>3, <1>6 DEF SymDepth, Shown
<1>8. Unseen' /\ ~Pending'
  BY <1>3, <1>4, <1>5 DEF Unseen, Pending
<1>9. Matched'
  BY <1>3, <1>4, <1>5, <1>6, <1>7, <1>8 DEF Matched
<1>10. Followed'
  BY <1>1, <1>3, <1>4, <1>5, <1>9, BoundAssumption DEF Followed
<1>11. Live' = Append(Live, [fn |-> f, ret |-> r])
  <2> DEFINE e == [fn |-> f, ret |-> r]
  <2>1. /\ Live \in Seq(Traced) /\ Len(Live) = n
        /\ \A i \in 1..n : Live[i] = [fn |-> real[i].fn, ret |-> real[i].ret]
    BY <1>1, LiveShape DEF LiveFields
  <2>2. /\ Live' \in Seq(Traced) /\ Len(Live') = n + 1
        /\ \A i \in 1..(n + 1) : Live'[i] = [fn |-> real'[i].fn, ret |-> real'[i].ret]
    <3>1. /\ Live' \in Seq(Traced) /\ Len(Live') = Len(real')
          /\ \A i \in 1..Len(real') : Live'[i] = [fn |-> real'[i].fn, ret |-> real'[i].ret]
      BY <1>2, LiveShapeNext DEF LiveFields
    <3> QED
      BY <3>1, <1>5
  <2>3. e \in Traced
    BY DEF Traced
  <2>4. Live'[n + 1] = e /\ \A i \in 1..n : Live'[i] = Live[i]
    <3>1. n + 1 \in 1..(n + 1) /\ \A i \in 1..n : i \in 1..(n + 1)
      BY <1>4
    <3> QED
      BY <3>1, <2>1, <2>2, <1>5
  <2> HIDE DEF e
  <2>5. /\ Append(Live, e) \in Seq(Traced) /\ Len(Append(Live, e)) = n + 1
        /\ Append(Live, e)[n + 1] = e /\ \A i \in 1..n : Append(Live, e)[i] = Live[i]
    BY <2>1, <2>3, AppendProperties
  <2>6. \A i \in 1..(n + 1) : Live'[i] = Append(Live, e)[i]
    BY <2>4, <2>5, <1>4
  <2>7. Live' = Append(Live, e)
    BY <2>2, <2>5, <2>6, SeqEqual
  <2> QED
    BY <2>7 DEF e
<1>12. Flow!Call(f, r)
  BY <1>6, <1>7, <1>11 DEF Flow!Call, Flow!Caught
<1> QED
  BY <1>10, <1>12 DEF FlowStep, Flow!Next

\* A return: the frame of the call waits for the breakpoint at its return
\* address, which it keeps in use.
LEMMA FlowReturn ==
  ASSUME PlainCalls, FlowInv, Return
  PROVE  Followed' /\ FlowStep
<1> USE DEF bpVars, threadVars, exitVars, cpuVars, sysVars
<1> DEFINE n == Len(real)
<1>1. TypeOK /\ RefCount /\ Executes /\ Followed
  BY DEF Return, Executed, FlowInv, CallsInv, TrackInv, MemoryInv, Counts
<1>2. TypeOK'
  <2>1. Counts /\ Program
    BY DEF Program, Step, FlowInv, CallsInv, TrackInv, MemoryInv
  <2> QED
    BY <2>1, CountsProgram DEF Counts
<1>3. /\ real # << >> /\ pc' = real[n].ret /\ real' = SubSeq(real, 1, n - 1)
      /\ mode' \in {"cont", "trap"}
      /\ UNCHANGED <<callstack, tooDeep, enabled>>
  BY <1>1 DEF Return, Executed, Executes, Running, Resumed
<1>4. real \in Seq(RealCall) /\ n \in Nat /\ n \in 1..n /\ pc' \in Site /\ pc' \notin Entry
  BY <1>1, <1>3, RealShape DEF TypeOK, RealCall, PlainCalls
<1>5. Len(real') = n - 1 /\ \A i \in 1..(n - 1) : real'[i] = real[i]
  BY <1>3, <1>4, RefsCut
<1>6. /\ SymDepth = n /\ Len(callstack) = n /\ Shown = Live
      /\ \A i \in 1..n : callstack[i] = SymFrame(real[i].fn, real[i].ret) /\ real[i].seen
  BY <1>1, UpToDate
<1>7. SymDepth' = n /\ Shown' = Shown
  BY <1>3, <1>6 DEF SymDepth, Shown
<1>8. ~Unseen'
  <2>1. real' # << >> => Len(real') \in 1..(n - 1)
    BY <1>2, <1>4, <1>5, RealShape
  <2> QED
    BY <2>1, <1>4, <1>5, <1>6 DEF Unseen
<1>9. callstack[n].return_addr = pc'
  BY <1>3, <1>4, <1>6, SymFrameFields
<1>10. Pending'
  <2>1. n \in Refs(callstack, pc', 1)
    BY <1>4, <1>6, <1>9 DEF Refs
  <2>2. /\ IsFiniteSet(Refs(callstack, pc', 1))
        /\ Cardinality(Refs(callstack, pc', 1)) \in Nat
    BY <1>1, RefsFinite DEF TypeOK
  <2>3. Cardinality(Refs(callstack, pc', 1)) > 0
    BY <2>1, <2>2, FS_EmptySet
  <2>4. enabled[pc'] = SymCount[pc'] + Cardinality(Refs(callstack, pc', 1)) /\ SymCount[pc'] \in Nat
    BY <1>1, <1>4, HoldingIsRefs, AddrAssumption DEF RefCount
  <2> QED
    BY <2>2, <2>3, <2>4, <1>3, <1>4 DEF Pending
<1>11. Matched'
  <2>1. SymDepth' = Len(real') + 1 /\ callstack'[Len(real') + 1].return_addr = pc'
    BY <1>3, <1>4, <1>5, <1>7, <1>9
  <2>2. \A i \in 1..Len(real') : callstack'[i] = SymFrame(real'[i].fn, real'[i].ret)
    BY <1>3, <1>4, <1>5, <1>6
  <2> QED
    BY <2>1, <2>2, <1>4, <1>5, <1>7, <1>8, <1>10 DEF Matched
<1>12. Followed'
  BY <1>1, <1>3, <1>4, <1>5, <1>11, BoundAssumption DEF Followed
<1>13. Live # << >> /\ Live' = SubSeq(Live, 1, Len(Live) - 1)
  <2>1. /\ Live \in Seq(Traced) /\ Len(Live) = n
        /\ \A i \in 1..n : Live[i] = [fn |-> real[i].fn, ret |-> real[i].ret]
    BY <1>1, LiveShape DEF LiveFields
  <2>2. /\ Live' \in Seq(Traced) /\ Len(Live') = n - 1
        /\ \A i \in 1..(n - 1) : Live'[i] = [fn |-> real'[i].fn, ret |-> real'[i].ret]
    <3>1. /\ Live' \in Seq(Traced) /\ Len(Live') = Len(real')
          /\ \A i \in 1..Len(real') : Live'[i] = [fn |-> real'[i].fn, ret |-> real'[i].ret]
      BY <1>2, LiveShapeNext DEF LiveFields
    <3> QED
      BY <3>1, <1>5
  <2>3. \A i \in 1..(n - 1) : Live'[i] = Live[i]
    <3>1. \A i \in 1..(n - 1) : i \in 1..n
      BY <1>4
    <3> QED
      BY <3>1, <2>1, <2>2, <1>5
  <2>4. /\ SubSeq(Live, 1, n - 1) \in Seq(Traced) /\ Len(SubSeq(Live, 1, n - 1)) = n - 1
        /\ \A i \in 1..(n - 1) : SubSeq(Live, 1, n - 1)[i] = Live[i]
    BY <2>1, <1>4, RefsCut
  <2>5. Live' = SubSeq(Live, 1, n - 1)
    <3>1. \A i \in 1..Len(Live') : Live'[i] = SubSeq(Live, 1, n - 1)[i]
      BY <2>2, <2>3, <2>4
    <3> QED
      BY <3>1, <2>2, <2>4, SeqEqual
  <2>6. Live # << >>
    BY <2>1, <1>4, EmptySeq
  <2> QED
    BY <2>1, <2>5, <2>6
<1>14. Flow!Return
  BY <1>6, <1>7, <1>13 DEF Flow!Return, Flow!Caught
<1> QED
  BY <1>12, <1>14 DEF FlowStep, Flow!Next

LEMMA FlowProgram ==
  ASSUME PlainCalls, FlowInv, Program
  PROVE  Followed' /\ FlowStep
<1> USE DEF bpVars, threadVars, exitVars, cpuVars, sysVars
<1>1. TypeOK /\ Memory /\ OnTrack /\ Places /\ Followed /\ Pairing
  BY DEF FlowInv, CallsInv, TrackInv, MemoryInv, Counts, Calls
<1>2. Elsewhere \notin Entry /\ Elsewhere \notin Site
  BY AddrAssumption DEF Entry
<1>3. ASSUME UNCHANGED <<callstack, tooDeep, real>>,
             mode' \in {"cont", "step", "trap"} => Matched'
      PROVE  Followed' /\ FlowStep
  BY <1>1, <1>3, FlowSame DEF Followed
<1>4. CASE Trap
  <2>1. mode = "cont"
    <3>1. mode = "step" => text[pc] # "int3"
      BY <1>1, <1>4 DEF Trap, Memory, PlantedIff, OnTrack, AtInt3
    <3> QED
      BY <3>1, <1>4 DEF Trap, Running, Resumed, AtInt3
  <2>2. mode' = "trap" /\ UNCHANGED <<callstack, tooDeep, real, enabled, pc>>
    BY <1>4 DEF Trap
  <2>3. Pending' = Pending /\ Unseen' = Unseen /\ SymDepth' = SymDepth
    BY <2>1, <2>2, FlowSame DEF Pending, Unseen
  <2> QED
    BY <2>1, <2>2, <2>3, <1>1, <1>3 DEF Followed, Matched
<1>5. CASE Plain \/ \E n \in Sys \cup {SigReturn} : SysEnter(n)
  <2>1. /\ Executes /\ pc' = Elsewhere
        /\ UNCHANGED <<callstack, tooDeep, real>>
    BY <1>5 DEF Plain, Executed, SysEnter
  <2>2. ~Pending' /\ ~Unseen' /\ SymDepth' = Len(real) /\ Matched
    BY <2>1, <1>2, UpToDate, FlowSame DEF Pending, Unseen
  <2>3. Matched'
    BY <2>1, <2>2, <1>2, UpToDate DEF Matched
  <2> QED
    BY <2>1, <2>3, <1>3
<1>6. CASE SysLeave
  <2>1. mode = "cont" /\ pc = Elsewhere /\ UNCHANGED <<callstack, tooDeep, real, pc>>
    BY <1>6, <1>1 DEF SysLeave, Places
  <2>2. ~Pending /\ ~Pending' /\ Unseen' = Unseen /\ SymDepth' = SymDepth
    BY <2>1, <1>2, FlowSame DEF Pending, Unseen
  <2>3. Matched'
    BY <2>1, <2>2, <1>1, <1>2 DEF Followed, Matched
  <2> QED
    BY <2>1, <2>3, <1>3
<1>7. CASE TakeStop \/ Die
  BY <1>3, <1>7 DEF TakeStop, Die
<1>8. ~(\E f \in Entry : TailCall(f)) /\ ~(\E k \in 0..MaxStack : LongJmp(k))
      /\ ~(\E r \in Site : UntracedReturn(r)) /\ ~TakeSignal
  BY DEF PlainCalls, TailCall, LongJmp, UntracedReturn, TakeSignal
<1> QED
  BY <1>4, <1>5, <1>6, <1>7, <1>8, FlowCall, FlowReturn DEF Program, Step

\* A handler that leaves the calls and the display as they are, out of the way
\* of any breakpoint.
LEMMA FlowTracerSame ==
  ASSUME FlowInv,
         \/ FirstEvent \/ Detach \/ ProcessSignal \/ ProcessExit
         \/ Reinsert \/ UnknownHit
  PROVE  Followed' /\ FlowStep
<1> USE DEF bpVars, threadVars, exitVars, cpuVars, sysVars
<1>1. TypeOK /\ OnTrack /\ Places /\ Followed /\ Pairing
  BY DEF FlowInv, CallsInv, TrackInv, MemoryInv, Counts, Calls
<1>2. Elsewhere \notin Entry /\ Elsewhere \notin Site
  BY AddrAssumption DEF Entry
<1>3. UNCHANGED <<callstack, tooDeep, cpuVars>>
  BY DEF FirstEvent, EnableAll, Detach, DisableAll, ProcessSignal, ProcessExit, Reinsert,
         UnknownHit
<1>4. FlowStep /\ SymDepth' = SymDepth /\ Unseen' = Unseen
  BY <1>3, FlowSame DEF Unseen
<1>5. ASSUME mode' \in {"cont", "step", "trap"} PROVE Matched'
  <2>1. CASE Reinsert \/ UnknownHit
    <3>1. mode = "trap" /\ mode' = "cont" /\ UNCHANGED enabled
      BY <2>1 DEF Reinsert, UnknownHit, Breakpoint, Continue
    <3>2. Pending' = Pending
      BY <3>1, <1>3 DEF Pending
    <3> QED
      BY <3>1, <3>2, <1>1, <1>3, <1>4 DEF Followed, Matched
  <2>2. CASE FirstEvent
    <3>1. pc = Elsewhere /\ real = << >> /\ callstack = << >>
      BY <2>2, <1>1 DEF FirstEvent, Places, Pairing
    <3>2. SymDepth = 0 /\ Len(real) = 0 /\ ~Unseen /\ ~Pending'
      BY <3>1, <1>2, <1>3 DEF SymDepth, Unseen, Pending
    <3> QED
      BY <3>1, <3>2, <1>2, <1>3, <1>4 DEF Matched
  <2>3. ~ProcessSignal
    BY <1>1 DEF ProcessSignal, Tracing, OnTrack
  <2>4. ~Detach /\ ~ProcessExit
    BY <1>5 DEF Detach, ProcessExit
  <2> QED
    BY <2>1, <2>2, <2>3, <2>4
<1> QED
  BY <1>1, <1>3, <1>4, <1>5 DEF Followed

\* The frame of a system call comes and goes on top of the functions'.
LEMMA FlowSyscall ==
  ASSUME PlainCalls, FlowInv, ProcessSyscall
  PROVE  Followed' /\ FlowStep
<1> USE DEF bpVars, threadVars, exitVars, cpuVars, sysVars
<1> DEFINE top == SyscallFrame(orig_eax)
<1>1. TypeOK /\ Places /\ Followed /\ Pairing
  BY DEF FlowInv, CallsInv, TrackInv, MemoryInv, Counts, Calls
<1>2. /\ Elsewhere \notin Entry /\ Elsewhere \notin Site
      /\ callstack \in Seq(Frames) /\ Len(callstack) \in Nat
  BY <1>1, LenProperties, AddrAssumption DEF Entry, TypeOK
<1>3. /\ mode = "trap" /\ orig_eax # NoSys /\ mode' = "cont"
      /\ ~TopIsSyscall(orig_eax)
      /\ callstack' = IF Full THEN callstack ELSE Append(callstack, top)
      /\ tooDeep' = (tooDeep \/ Full)
      /\ UNCHANGED <<pc, real>>
  BY DEF ProcessSyscall, Syscall, Continue, NoSys
<1>4. pc = Elsewhere /\ ~Pending /\ ~Pending' /\ Matched
  BY <1>1, <1>2, <1>3 DEF Places, Pending, Followed
<1>5. ~TopSys /\ SymDepth = Len(callstack)
  BY <1>1, <1>3, DepthShape DEF Pairing
<1>6. ~Full
  <2>1. Len(callstack) <= Len(real) /\ Len(real) \in Nat /\ Len(real) <= MaxStack
    BY <1>1, <1>2, <1>4, <1>5, RealShape DEF Matched, Followed
  <2> QED
    BY <2>1, <1>2, BoundAssumption DEF Full, PlainCalls
<1>7. /\ Len(callstack') = Len(callstack) + 1 /\ callstack' # << >>
      /\ callstack'[Len(callstack')] = top
      /\ \A i \in 1..Len(callstack) : callstack'[i] = callstack[i]
  <2> HIDE DEF top
  <2> QED
    BY <1>2, <1>3, <1>6, AppendProperties
<1>8. top.is_syscall
  BY DEF SyscallFrame
<1>9. SymDepth' = SymDepth
  BY <1>2, <1>5, <1>7, <1>8 DEF SymDepth
<1>10. Shown' = Shown /\ Live' = Live
  BY <1>3, <1>5, <1>7, <1>9 DEF Shown, Live
<1>11. Matched'
  <2>1. Unseen' = Unseen
    BY <1>3 DEF Unseen
  <2>2. \A i \in 1..SymDepth : callstack'[i] = callstack[i]
    BY <1>5, <1>7
  <2> QED
    BY <2>1, <2>2, <1>2, <1>3, <1>4, <1>9 DEF Matched
<1> QED
  BY <1>1, <1>3, <1>6, <1>10, <1>11 DEF Followed, FlowStep, Flow!vars

LEMMA FlowSysret ==
  ASSUME FlowInv, ProcessSysret
  PROVE  Followed' /\ FlowStep
<1> USE DEF bpVars, threadVars, exitVars, cpuVars, sysVars
<1> DEFINE n == Len(callstack)
<1>1. TypeOK /\ Places /\ Followed /\ Pairing
  BY DEF FlowInv, CallsInv, TrackInv, MemoryInv, Counts, Calls
<1>2. /\ Elsewhere \notin Entry /\ Elsewhere \notin Site
      /\ callstack \in Seq(Frames) /\ n \in Nat
  BY <1>1, LenProperties, AddrAssumption DEF Entry, TypeOK
<1>3. /\ mode = "trap" /\ TopIsSyscall(orig_eax) /\ mode' = "cont"
      /\ callstack' = SubSeq(callstack, 1, n - 1)
      /\ UNCHANGED <<tooDeep, pc, real>>
  BY DEF ProcessSysret, Sysret, Continue
<1>4. orig_eax # NoSys /\ TopSys /\ n \in 1..n /\ SymDepth = n - 1
  BY <1>1, <1>3, TopNumber, TopFrame, DepthShape DEF TopSys
<1>5. pc = Elsewhere /\ ~Pending /\ ~Pending' /\ Matched
  BY <1>1, <1>2, <1>3, <1>4 DEF Places, Pending, Followed
<1>6. Len(callstack') = n - 1 /\ \A i \in 1..(n - 1) : callstack'[i] = callstack[i]
  BY <1>2, <1>3, <1>4, RefsCut
<1>7. SymDepth' = SymDepth
  <2>1. \A i \in 1..(n - 1) : ~callstack'[i].is_syscall
    BY <1>1, <1>2, <1>6 DEF Pairing
  <2>2. callstack' # << >> => Len(callstack') \in 1..(n - 1)
    BY <1>2, <1>3, <1>4, <1>6
  <2> QED
    BY <2>1, <2>2, <1>4, <1>6 DEF SymDepth
<1>8. Shown' = Shown /\ Live' = Live
  BY <1>3, <1>4, <1>6, <1>7 DEF Shown, Live
<1>9. Matched'
  <2>1. Unseen' = Unseen
    BY <1>3 DEF Unseen
  <2>2. \A i \in 1..SymDepth : callstack'[i] = callstack[i]
    BY <1>4, <1>6
  <2> QED
    BY <2>1, <2>2, <1>2, <1>3, <1>5, <1>7 DEF Matched
<1> QED
  BY <1>1, <1>3, <1>8, <1>9 DEF Followed, FlowStep, Flow!vars

\* At a breakpoint: the display catches up.
LEMMA FlowReturnHit ==
  ASSUME PlainCalls, FlowInv, NEW i \in 1..Len(callstack), ReturnHit(i)
  PROVE  Followed' /\ FlowStep
<1> USE DEF bpVars, threadVars, exitVars, cpuVars, sysVars
<1> DEFINE n == Len(real)
<1>1. TypeOK /\ TrackInv /\ Counts /\ Places /\ Followed /\ Pairing
  BY DEF FlowInv, CallsInv, TrackInv, MemoryInv, Counts, Calls
<1>2. /\ callstack \in Seq(Frames) /\ Len(callstack) \in Nat /\ callstack[i] \in Frames
      /\ n \in Nat
  BY <1>1, LenProperties, ElementOfSeq, RealShape DEF TypeOK
<1>3. /\ Breakpoint
      /\ callstack[i].return_addr = brk_addr
      /\ \A k \in (i + 1)..Len(callstack) : callstack[k].return_addr # brk_addr
      /\ callstack' = SubSeq(callstack, 1, i - 1)
      /\ UNCHANGED <<tooDeep, real>>
  BY DEF ReturnHit, Returning, Pop
<1>4. brk_addr \in Addr /\ brk_addr \in Site /\ pc = brk_addr
  <2>1. brk_addr # NULL
    BY <1>1, BreakAddress
  <2>2. ~callstack[i].is_syscall /\ brk_addr \in Addr
    BY <1>2, <1>3, <2>1, FrameShape
  <2> QED
    BY <1>1, <1>3, <2>2, AtBreakpoint DEF Places
<1>5. Pending /\ Matched
  BY <1>1, <1>3, <1>4, AtBreakpoint DEF Pending, Followed
<1>6. ~TopSys /\ SymDepth = Len(callstack) /\ Len(callstack) = n + 1
  BY <1>1, <1>2, <1>3, <1>5, InUserCode, DepthShape DEF Matched
<1>7. i = n + 1
  BY <1>2, <1>3, <1>4, <1>5, <1>6 DEF Matched
<1>8. Len(callstack') = n /\ \A k \in 1..n : callstack'[k] = callstack[k]
  <2>1. Len(callstack') = i - 1 /\ \A k \in 1..(i - 1) : callstack'[k] = callstack[k]
    BY <1>2, <1>3, RefsCut
  <2> QED
    BY <2>1, <1>2, <1>7
<1>9. pc' = pc /\ ~Pending'
  <2>1. enabled' = Released(i) /\ pc' = brk_addr
        /\ mode' = IF Released(i)[brk_addr] # 0 THEN "step" ELSE "cont"
    BY DEF ReturnHit, ContinueAfterBreakpoint
  <2> QED
    BY <2>1, <1>4 DEF Pending
<1>10. ~Unseen /\ ~Unseen' /\ pc' \notin Entry
  BY <1>3, <1>4, <1>5, <1>9 DEF Matched, Unseen, PlainCalls
<1>11. SymDepth' = n
  <2>1. \A k \in 1..n : ~callstack'[k].is_syscall
    BY <1>1, <1>2, <1>6, <1>8, UserFrames
  <2>2. callstack' # << >> => Len(callstack') \in 1..n
    <3>1. callstack' \in Seq(Frames)
      BY <1>2, <1>3, RefsCut
    <3> QED
      BY <3>1, <1>8, EmptySeq
  <2> QED
    BY <2>1, <2>2, <1>8 DEF SymDepth
<1>12. Matched'
  BY <1>2, <1>3, <1>5, <1>6, <1>8, <1>9, <1>10, <1>11 DEF Matched
<1>13. Shown' = Live' /\ Live' = Live
  <2>1. Live' = Live
    BY <1>3 DEF Live
  <2>2. TypeOK'
    BY <1>1, CountsTracer DEF Tracer, Counts
  <2>3. Shown' = Live'
    BY <2>2, <1>9, <1>10, <1>12, CaughtIffNext
  <2> QED
    BY <2>1, <2>3
<1>14. Flow!Show
  BY <1>1, <1>5, <1>13, CaughtIff DEF Flow!Show, Flow!Caught
<1> QED
  BY <1>1, <1>3, <1>12, <1>14 DEF Followed, FlowStep, Flow!Next

LEMMA FlowEntryHit ==
  ASSUME PlainCalls, FlowInv, NEW r \in StackTop, EntryHit(r)
  PROVE  Followed' /\ FlowStep
<1> USE DEF bpVars, threadVars, exitVars, cpuVars, sysVars
<1> DEFINE n == Len(real)
           top == SymFrame(brk_addr, r)
<1>1. TypeOK /\ TrackInv /\ Counts /\ Places /\ Followed /\ Pairing
  BY DEF FlowInv, CallsInv, TrackInv, MemoryInv, Counts, Calls
<1>2. /\ callstack \in Seq(Frames) /\ Len(callstack) \in Nat
      /\ n \in Nat
  BY <1>1, LenProperties, RealShape DEF TypeOK
<1>3. /\ Breakpoint /\ brk_addr \in Entry /\ brk_addr \in Addr
      /\ pc' = brk_addr
      /\ callstack' = IF Full THEN callstack ELSE Append(callstack, top)
      /\ tooDeep' = (tooDeep \/ Full)
      /\ real' = IF Full THEN real ELSE Noted
  BY DEF EntryHit, ContinueAfterBreakpoint, Entry
<1>4. pc = brk_addr /\ pc' = pc /\ pc \notin Site /\ mode = "trap" /\ enabled[pc] > 0
  BY <1>1, <1>3, AtBreakpoint DEF PlainCalls
<1>5. Matched /\ ~Pending /\ Unseen
  BY <1>1, <1>3, <1>4 DEF Followed, Pending, Matched
<1>6. real # << >> /\ real[n].fn = pc /\ n \in 1..n /\ real[n].ret = r
  BY <1>1, <1>3, <1>4, <1>5, RealShape DEF Places, Unseen, StackTop
<1>7. ~TopSys /\ SymDepth = Len(callstack) /\ Len(callstack) = n - 1
  BY <1>1, <1>2, <1>3, <1>5, InUserCode, DepthShape DEF Matched
<1>8. ~Full
  BY <1>1, <1>2, <1>7, BoundAssumption DEF Full, PlainCalls, Followed
<1>9. /\ Len(callstack') = n /\ callstack' # << >> /\ callstack'[n] = top
      /\ \A i \in 1..(n - 1) : callstack'[i] = callstack[i]
  <2> HIDE DEF top
  <2>1. /\ callstack' = Append(callstack, top) /\ Len(callstack') = Len(callstack) + 1
        /\ callstack'[Len(callstack) + 1] = top
        /\ \A i \in 1..Len(callstack) : callstack'[i] = callstack[i]
    BY <1>2, <1>3, <1>8, AppendProperties
  <2> QED
    BY <2>1, <1>2, <1>7
<1>10. mode' = "step"
  <2>1. /\ mode' = (IF enabled'[pc] # 0 THEN "step" ELSE "cont")
        /\ enabled' = [enabled EXCEPT ![r] = @ + 1]
    BY <1>4, <1>8 DEF EntryHit, ContinueAfterBreakpoint
  <2>2. enabled'[pc] # 0
    BY <2>1, <1>1, <1>3, <1>4 DEF TypeOK
  <2> QED
    BY <2>1, <2>2
<1>11. /\ Len(real') = n /\ real' # << >> /\ real'[n].seen
       /\ \A i \in 1..n : real'[i].fn = real[i].fn /\ real'[i].ret = real[i].ret
  <2> DEFINE new == [real[n] EXCEPT !.seen = TRUE]
  <2>1. real \in Seq(RealCall) /\ real[n] \in RealCall
    BY <1>1, <1>6, ElementOfSeq DEF TypeOK, RealCall
  <2>2. new \in RealCall /\ new.fn = real[n].fn /\ new.ret = real[n].ret /\ new.seen
    BY <2>1 DEF RealCall
  <2>3. real' = [real EXCEPT ![n] = new]
    BY <1>3, <1>6, <1>8 DEF Noted
  <2> HIDE DEF new
  <2>4. /\ real' \in Seq(RealCall) /\ Len(real') = n
        /\ \A i \in 1..n : real'[i] = IF i = n THEN new ELSE real[i]
    BY <2>1, <2>2, <2>3, <1>6, ExceptSeq
  <2>5. real' # << >>
    BY <2>4, <1>6, EmptySeq
  <2> QED
    BY <2>2, <2>4, <2>5, <1>6
<1>12. SymDepth' = n
  BY <1>9, SymFrameFields DEF SymDepth
<1>13. ~Unseen' /\ ~Pending'
  BY <1>4, <1>11 DEF Unseen, Pending
<1>14. Matched'
  <2>1. \A i \in 1..n : callstack'[i] = SymFrame(real'[i].fn, real'[i].ret)
    <3> SUFFICES ASSUME NEW i \in 1..n
                 PROVE  callstack'[i] = SymFrame(real[i].fn, real[i].ret)
      BY <1>11
    <3>1. CASE i = n
      BY <3>1, <1>4, <1>6, <1>9
    <3>2. CASE i # n
      BY <3>2, <1>2, <1>5, <1>7, <1>9 DEF Matched
    <3> QED
      BY <3>1, <3>2
  <2> QED
    BY <2>1, <1>2, <1>10, <1>11, <1>12, <1>13 DEF Matched
<1>15. Shown' = Live' /\ Live' = Live
  <2>1. Live' = Live
    BY <1>11 DEF Live
  <2>2. TypeOK'
    BY <1>1, CountsTracer DEF Tracer, Counts
  <2>3. Shown' = Live'
    BY <2>2, <1>13, <1>14, CaughtIffNext
  <2> QED
    BY <2>1, <2>3
<1>16. Flow!Show
  BY <1>1, <1>5, <1>15, CaughtIff DEF Flow!Show, Flow!Caught
<1> QED
  BY <1>1, <1>3, <1>8, <1>11, <1>14, <1>16 DEF Followed, FlowStep, Flow!Next

LEMMA FlowNext ==
  ASSUME PlainCalls
  PROVE  FlowInv /\ [Next]_vars => FlowInv' /\ FlowStep
<1> SUFFICES ASSUME FlowInv, [Next]_vars PROVE FlowInv' /\ FlowStep
  OBVIOUS
<1>1. CallsInv' /\ Pairing'
  <2>1. "signal" \notin Env /\ "untraced" \notin Env /\ "sigreturn" \notin Env
        /\ Entry \cap Site = {}
    BY DEF PlainCalls
  <2>2. CallsInv /\ PairingInv
    BY DEF FlowInv, CallsInv, TrackInv, MemoryInv, PairingInv
  <2> QED
    BY <2>1, <2>2, CallsNext, PairingNext DEF PairingInv
<1>2. CASE SignalExit \/ SignalAlarm \/ UNCHANGED vars
  <2>1. UNCHANGED <<enabled, callstack, tooDeep, mode, pc, real>>
    BY <1>2 DEF SignalExit, SignalAlarm, vars, bpVars, threadVars, cpuVars, ptraceVars
  <2>2. /\ FlowStep /\ SymDepth' = SymDepth /\ Pending' = Pending /\ Unseen' = Unseen
    BY <2>1, FlowSame DEF Pending, Unseen
  <2>3. Followed'
    BY <2>1, <2>2 DEF FlowInv, Followed, Matched
  <2> QED
    BY <1>1, <2>2, <2>3 DEF FlowInv
<1>3. CASE Program
  BY <1>1, <1>3, FlowProgram DEF FlowInv
<1>4. CASE Tracer
  <2>1. Followed' /\ FlowStep
    BY <1>4, FlowTracerSame, FlowSyscall, FlowSysret, FlowReturnHit, FlowEntryHit DEF Tracer
  <2> QED
    BY <1>1, <2>1 DEF FlowInv
<1> QED
  BY <1>2, <1>3, <1>4 DEF Next, Finished

\* For a program that only calls, returns and makes system calls, and never
\* nests too deep, the open calls on display are the calls in progress: each
\* is shown when it is made, and its return before the program's next step
\* (process_breakpoint, callstack_push_symfunc, callstack_pop).
THEOREM TracerImplementsCallFlow ==
  ASSUME PlainCalls
  PROVE  Spec => ImplementsCallFlow
<1>1. Init => FlowInv /\ Flow!Init
  BY CountsInit, MemoryInit, TrackInit, CallsInit, PairingInit, FlowInit
  DEF FlowInv, CallsInv, TrackInv, MemoryInv
<1>2. FlowInv /\ [Next]_vars => FlowInv' /\ [Flow!Next]_(Flow!vars)
  BY FlowNext DEF FlowStep
<1> QED
  BY <1>1, <1>2, PTL DEF Spec, ImplementsCallFlow, Flow!Spec

====
