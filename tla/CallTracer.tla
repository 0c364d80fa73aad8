---- MODULE CallTracer ----
(***************************************************************************)
(* The event loop of utrace for one traced thread (its tid is the pid, it  *)
(* sits in slot 0 of threads[]), without -f and without exec: int3         *)
(* breakpoints with a reference count, the call stack the tracer keeps,    *)
(* the lifting and reinsertion of a breakpoint around a single step, the   *)
(* pairing of system-call stops, signals, Ctrl-C and detaching.            *)
(*                                                                         *)
(* Each tracer action is the handling of one event, from waitpid() to the  *)
(* ptrace request that resumes the thread: the thread is stopped all along *)
(* and utrace has one thread, so the handling is atomic for the tracee.    *)
(* The traced program and the kernel are modelled from the ptrace requests *)
(* the code makes (external).                                              *)
(***************************************************************************)
EXTENDS Integers, Sequences, FiniteSets

CONSTANTS
  Addr,       \* code addresses that may carry a breakpoint
  SymCount,   \* [Addr -> Nat]: symbols of list_of_symbols at each address
  Site,       \* return addresses of the calls the program makes
  Sys,        \* system-call numbers
  SigReturn,  \* the number of sigreturn
  NULL,       \* the null pointer
  Elsewhere,  \* any code address that is not in Addr
  MaxDepth,   \* MAX_CALLDEPTH - 1: the frames the tracer can keep
  MaxStack,   \* bound of the model: nested calls the program makes
  Env         \* what the program does besides calls, returns and syscalls

Entry == {a \in Addr : SymCount[a] > 0}
NoSys == -1

\* The program's own first byte of an instruction, an int3, or the content of
\* an orig_value that was never written
Byte == {"code", "int3", "unset"}

ASSUME AddrAssumption ==
  /\ SymCount \in [Addr -> Nat]
  /\ Site \subseteq Addr
  /\ NULL \notin Addr
  /\ Elsewhere \notin Addr
  /\ NULL # Elsewhere
ASSUME SysAssumption == Sys \subseteq Nat /\ SigReturn \in Nat \ Sys
ASSUME BoundAssumption == MaxDepth \in Nat /\ MaxStack \in Nat
ASSUME EnvAssumption ==
  Env \subseteq {"signal", "sigreturn", "longjmp", "tailcall", "untraced"}

VARIABLES
  \* struct process, struct breakpoint
  breakpoints_enabled,      \* -1 not enabled yet, 0 disabled, 1 enabled
  enabled,                  \* [Addr -> Int], the reference counts
  orig_value,               \* [Addr -> byte saved by enable_breakpoint]
  \* struct thread
  callstack,
  breakpoint_being_enabled, \* the lifted breakpoint, or NULL
  \* ltrace.c and the options
  exiting, alarm, attached,
  \* history: a push was refused ("call nesting too deep!")
  tooDeep,
  \* the traced thread and what the kernel knows of it
  text,         \* [Addr -> byte in memory]
  pc, skew,     \* the instruction pointer is pc, or pc+1 after an int3
  real,         \* the calls of traced functions in progress
  insys,        \* the system call the thread is in, or NoSys
  orig_eax,     \* what PEEKUSER of ORIG_EAX returns at a trap
  mode,         \* how the thread was resumed, or the stop it is in, or gone
  stopPending   \* a SIGSTOP was sent and not taken yet

bpVars == <<breakpoints_enabled, enabled, orig_value>>
threadVars == <<callstack, breakpoint_being_enabled, tooDeep>>
exitVars == <<exiting, alarm, attached>>
cpuVars == <<pc, skew, real>>
sysVars == <<insys, orig_eax>>
ptraceVars == <<mode, stopPending>>
vars == <<bpVars, threadVars, exitVars, text, cpuVars, sysVars, ptraceVars>>

----
(* Bytes of text.                                                          *)

\* enable_breakpoint of every address in A: save the byte, write an int3
Planted(t, A) == [a \in Addr |-> IF a \in A THEN "int3" ELSE t[a]]
Saved(o, t, A) == [a \in Addr |-> IF a \in A THEN t[a] ELSE o[a]]

\* disable_breakpoint of every address in A: write the saved byte back
Restored(t, o, A) == [a \in Addr |-> IF a \in A THEN o[a] ELSE t[a]]

\* The addresses whose struct breakpoint passes "if (sbp->enabled)"
Counted == {a \in Addr : enabled[a] # 0}

EnableAll ==
  /\ breakpoints_enabled' = 1
  /\ text' = Planted(text, Counted)
  /\ orig_value' = Saved(orig_value, text, Counted)

\* Mutant: forgets the breakpoints at return sites
DisableAll_SymbolsOnly ==
  /\ breakpoints_enabled' = 0
  /\ text' = Restored(text, orig_value, Entry)

DisableAll ==
  /\ breakpoints_enabled' = 0
  /\ text' = Restored(text, orig_value, Counted)

----
(* Frames.                                                                 *)

SyscallFrame(n) == [is_syscall |-> TRUE, c_un |-> n, return_addr |-> NULL]
SymFrame(f, r) == [is_syscall |-> FALSE, c_un |-> f, return_addr |-> r]

Frames ==
  {SyscallFrame(n) : n \in Sys \cup {SigReturn}}
    \cup {SymFrame(f, r) : f \in Entry, r \in Addr}

\* The frames that hold a reference to the breakpoint at a, from index i on
Holding(a, i) == {k \in i..Len(callstack) : callstack[k].return_addr = a}

TopIsSyscall(n) ==
  /\ callstack # << >>
  /\ callstack[Len(callstack)].is_syscall
  /\ callstack[Len(callstack)].c_un = n


\* Mutant: off by one
Pop_KeepsFrame(i) == SubSeq(callstack, 1, i)

Pop(i) == SubSeq(callstack, 1, i - 1)

----
(* The traced program and the kernel (external).                           *)

Resumed == mode \in {"cont", "step"}   \* PTRACE_SYSCALL, PTRACE_SINGLESTEP
Stopped == mode \in {"trap", "signal", "sigstop", "exited"}
Gone == mode \in {"detached", "dead"}

\* The thread runs user code.  What it does before its first stop is of no
\* consequence (nothing is planted yet) and is not followed.
Running == Resumed /\ insys = NoSys

AtInt3 == pc \in Addr /\ text[pc] = "int3" /\ ~skew
Executes == Running /\ breakpoints_enabled = 1 /\ ~AtInt3

\* The thread executes an int3
Trap ==
  /\ Running /\ breakpoints_enabled = 1 /\ AtInt3
  /\ skew' = TRUE
  /\ mode' = "trap"
  /\ UNCHANGED <<bpVars, threadVars, exitVars, text, pc, real, sysVars, stopPending>>

\* One instruction, or a stretch of code without interest, was executed: a
\* single step ends in a stop
Executed ==
  /\ Executes
  /\ skew' = FALSE
  /\ mode' = IF mode = "step" THEN "trap" ELSE mode
  /\ UNCHANGED <<bpVars, threadVars, exitVars, text, sysVars, stopPending>>

Plain == Executed /\ pc' = Elsewhere /\ UNCHANGED real

Call(f, r) ==
  /\ Executed
  /\ Len(real) < MaxStack
  /\ pc' = f
  /\ real' = Append(real, [fn |-> f, ret |-> r, seen |-> FALSE])

Return ==
  /\ Executed
  /\ real # << >>
  /\ pc' = real[Len(real)].ret
  /\ real' = SubSeq(real, 1, Len(real) - 1)

\* A function ends in a jump to another one, which returns in its stead
TailCall(f) ==
  /\ "tailcall" \in Env
  /\ Executed
  /\ real # << >>
  /\ pc' = f
  /\ real' = [real EXCEPT ![Len(real)] = [fn |-> f, ret |-> @.ret, seen |-> FALSE]]

\* longjmp (or a C++ throw) drops all calls above the first k
LongJmp(k) ==
  /\ "longjmp" \in Env
  /\ Executed
  /\ k < Len(real)
  /\ pc' = Elsewhere
  /\ real' = SubSeq(real, 1, k)

\* A function without a symbol, called from the site r, returns
UntracedReturn(r) ==
  /\ "untraced" \in Env
  /\ Executed
  /\ pc' = r
  /\ UNCHANGED real

SysEnter(n) ==
  /\ mode = "cont" /\ Executes
  /\ n = SigReturn => "sigreturn" \in Env
  /\ insys' = n /\ orig_eax' = n
  /\ pc' = Elsewhere /\ skew' = FALSE
  /\ mode' = "trap"
  /\ UNCHANGED <<bpVars, threadVars, exitVars, text, real, stopPending>>

\* sigreturn restores the registers with orig_eax = -1
SysLeave ==
  /\ mode = "cont" /\ insys # NoSys
  /\ insys' = NoSys
  /\ orig_eax' = IF insys = SigReturn THEN NoSys ELSE insys
  /\ mode' = "trap"
  /\ UNCHANGED <<bpVars, threadVars, exitVars, text, cpuVars, stopPending>>

\* A signal is dequeued on the way to user mode, before a single step is made
TakeSignal ==
  /\ "signal" \in Env
  /\ Running
  /\ mode' = "signal"
  /\ UNCHANGED <<bpVars, threadVars, exitVars, text, cpuVars, sysVars, stopPending>>

TakeStop ==
  /\ Running /\ stopPending
  /\ stopPending' = FALSE
  /\ mode' = "sigstop"
  /\ UNCHANGED <<bpVars, threadVars, exitVars, text, cpuVars, sysVars>>

\* exit() or a fatal signal
Die ==
  /\ Resumed
  /\ mode' = "exited"
  /\ UNCHANGED <<bpVars, threadVars, exitVars, text, cpuVars, sysVars, stopPending>>

Step ==
  \/ Trap
  \/ Plain
  \/ \E f \in Entry, r \in Site : Call(f, r)
  \/ Return
  \/ \E f \in Entry : TailCall(f)
  \/ \E k \in 0..MaxStack : LongJmp(k)
  \/ \E r \in Site : UntracedReturn(r)

Program ==
  \/ Step
  \/ \E n \in Sys \cup {SigReturn} : SysEnter(n)
  \/ SysLeave
  \/ TakeSignal
  \/ TakeStop
  \/ Die

----
(* ltrace.c: SIGINT or SIGTERM, and the alarm it sets.  A SIGSTOP that is   *)
(* already pending absorbs another one.                                    *)

\* signal_exit stops the processes of -p; it ignores later interrupts
SignalExit ==
  /\ ~exiting /\ ~Gone
  /\ exiting' = TRUE
  /\ alarm' = TRUE
  /\ stopPending' = (stopPending \/ attached)
  /\ UNCHANGED <<bpVars, threadVars, attached, text, cpuVars, sysVars, mode>>

\* signal_alarm stops the processes that are not of -p
SignalAlarm ==
  /\ alarm /\ ~Gone
  /\ alarm' = FALSE
  /\ stopPending' = (stopPending \/ ~attached)
  /\ UNCHANGED <<bpVars, threadVars, exiting, attached, text, cpuVars, sysVars, mode>>

----
(* wait_for_something: the classification of a stop.                       *)

Tracing == breakpoints_enabled # -1

\* syscall_p returns 2, 1, 0
Sysret == Tracing /\ mode = "trap" /\ TopIsSyscall(orig_eax)
Syscall == Tracing /\ mode = "trap" /\ ~TopIsSyscall(orig_eax) /\ orig_eax >= 0
Breakpoint == Tracing /\ mode = "trap" /\ ~TopIsSyscall(orig_eax) /\ orig_eax < 0

\* instruction_pointer - DECR_PC_AFTER_BREAK
brk_addr == IF skew THEN pc ELSE Elsewhere

\* The first event of the process, whatever it is: LT_EV_NONE
FirstEvent ==
  /\ Stopped /\ breakpoints_enabled = -1
  /\ EnableAll
  /\ mode' = IF mode = "exited" THEN "dead" ELSE "cont"
  /\ UNCHANGED <<enabled, threadVars, exitVars, cpuVars, sysVars, stopPending>>

----
(* process_event.c: one handler per event.                                 *)

\* continue_process; the register is not looked at again before a next trap
Continue == mode' = "cont" /\ orig_eax' = NoSys /\ UNCHANGED <<insys, stopPending>>

\* Mutant: the process is resumed, not let go
Detach_Resumes ==
  /\ Tracing /\ mode = "sigstop" /\ exiting
  /\ Continue
  /\ UNCHANGED <<bpVars, threadVars, exitVars, text, cpuVars>>

\* process_signal, the branch that lets the process go.  The thread record
\* is read after it was freed: the tracer crashes or goes on, and in both
\* cases it does nothing more to a process it has detached from.
Detach ==
  /\ Tracing /\ mode = "sigstop" /\ exiting
  /\ IF breakpoints_enabled # 0 THEN DisableAll ELSE UNCHANGED <<breakpoints_enabled, text>>
  /\ mode' = "detached"
  /\ UNCHANGED <<enabled, orig_value, threadVars, exitVars, cpuVars, sysVars, stopPending>>

ProcessSignal ==
  /\ Tracing
  /\ mode = "signal" \/ (mode = "sigstop" /\ ~exiting)
  /\ Continue
  /\ UNCHANGED <<bpVars, threadVars, exitVars, text, cpuVars>>

ProcessExit ==
  /\ Tracing /\ mode = "exited"
  /\ mode' = "dead"
  /\ UNCHANGED <<bpVars, threadVars, exitVars, text, cpuVars, sysVars, stopPending>>

\* Mutant: off by one
Full_Late == Len(callstack) = MaxDepth + 1

\* callstack_push_syscall and callstack_push_symfunc refuse a frame here
Full == Len(callstack) = MaxDepth

ProcessSyscall ==
  /\ Syscall
  /\ IF breakpoints_enabled = 0
     THEN EnableAll
     ELSE UNCHANGED <<breakpoints_enabled, text, orig_value>>
  /\ callstack' = IF Full THEN callstack ELSE Append(callstack, SyscallFrame(orig_eax))
  /\ tooDeep' = (tooDeep \/ Full)
  /\ Continue
  /\ UNCHANGED <<enabled, breakpoint_being_enabled, exitVars, cpuVars>>

\* Mutant: the frame stays
ProcessSysret_NoPop ==
  /\ Sysret
  /\ Continue
  /\ UNCHANGED <<bpVars, threadVars, exitVars, text, cpuVars>>

ProcessSysret ==
  /\ Sysret
  /\ callstack' = SubSeq(callstack, 1, Len(callstack) - 1)
  /\ Continue
  /\ UNCHANGED <<bpVars, breakpoint_being_enabled, tooDeep, exitVars, text, cpuVars>>

\* Mutant: only forgets the lifted breakpoint
Reinsert_NotPlanted ==
  /\ Breakpoint
  /\ breakpoint_being_enabled # NULL
  /\ breakpoint_being_enabled' = NULL
  /\ Continue
  /\ UNCHANGED <<bpVars, callstack, tooDeep, exitVars, text, cpuVars>>

\* Mutant: plants the lifted breakpoint and still holds it for lifted
Reinsert_NotCleared ==
  /\ Breakpoint
  /\ breakpoint_being_enabled # NULL
  /\ text' = Planted(text, {breakpoint_being_enabled})
  /\ orig_value' = Saved(orig_value, text, {breakpoint_being_enabled})
  /\ Continue
  /\ UNCHANGED <<breakpoints_enabled, enabled, threadVars, exitVars, cpuVars>>

\* The stop is taken for the end of the single step
Reinsert ==
  /\ Breakpoint
  /\ breakpoint_being_enabled # NULL
  /\ text' = Planted(text, {breakpoint_being_enabled})
  /\ orig_value' = Saved(orig_value, text, {breakpoint_being_enabled})
  /\ breakpoint_being_enabled' = NULL
  /\ Continue
  /\ UNCHANGED <<breakpoints_enabled, enabled, callstack, tooDeep, exitVars, cpuVars>>

\* Mutant: breakpoint_being_enabled is not set
ContinueAfterBreakpoint_Forgets(a, cnt, t, o) ==
  /\ pc' = a /\ skew' = FALSE
  /\ text' = IF cnt[a] # 0 THEN Restored(t, o, {a}) ELSE t
  /\ mode' = IF cnt[a] # 0 THEN "step" ELSE "cont"
  /\ UNCHANGED <<breakpoint_being_enabled, stopPending>>

\* Mutant: the instruction pointer is not set back
ContinueAfterBreakpoint_NoRewind(a, cnt, t, o) ==
  /\ text' = IF cnt[a] # 0 THEN Restored(t, o, {a}) ELSE t
  /\ breakpoint_being_enabled' = IF cnt[a] # 0 THEN a ELSE breakpoint_being_enabled
  /\ mode' = IF cnt[a] # 0 THEN "step" ELSE "cont"
  /\ UNCHANGED <<pc, skew, stopPending>>

\* With the counts cnt, bytes t and saved bytes o: step over a breakpoint
\* that stays in use, else just go on from its address
ContinueAfterBreakpoint(a, cnt, t, o) ==
  /\ pc' = a /\ skew' = FALSE
  /\ text' = IF cnt[a] # 0 THEN Restored(t, o, {a}) ELSE t
  /\ breakpoint_being_enabled' = IF cnt[a] # 0 THEN a ELSE breakpoint_being_enabled
  /\ mode' = IF cnt[a] # 0 THEN "step" ELSE "cont"
  /\ UNCHANGED stopPending

\* Mutant: the frames are searched from the outermost one
Returning_Outermost(i) ==
  /\ callstack[i].return_addr = brk_addr
  /\ \A k \in 1..(i - 1) : callstack[k].return_addr # brk_addr

\* The frame i is the top-most one that returns to brk_addr
Returning(i) ==
  /\ callstack[i].return_addr = brk_addr
  /\ \A k \in (i + 1)..Len(callstack) : callstack[k].return_addr # brk_addr

\* Mutant: the frames above the returning one keep their references
Released_OneFrame(i) == [enabled EXCEPT ![brk_addr] = @ - 1]

\* The counts after callstack_pop of all frames from i on; delete_breakpoint
\* disables a breakpoint whose count comes to 0
Released(i) == [a \in Addr |-> enabled[a] - Cardinality(Holding(a, i))]

ReturnHit(i) ==
  /\ Breakpoint /\ breakpoint_being_enabled = NULL
  /\ Returning(i)
  /\ LET cnt == Released(i)
         freed == {a \in Addr : cnt[a] = 0 /\ enabled[a] # 0}
     IN /\ enabled' = cnt
        /\ ContinueAfterBreakpoint(brk_addr, cnt, Restored(text, orig_value, freed), orig_value)
  /\ callstack' = Pop(i)
  /\ UNCHANGED <<breakpoints_enabled, orig_value, tooDeep, exitVars, real, sysVars>>

\* get_return_addr: the word at the stack pointer
StackTop == IF real = << >> THEN Site ELSE {real[Len(real)].ret}

NoReturn == \A i \in 1..Len(callstack) : callstack[i].return_addr # brk_addr

Noted == IF real = << >> THEN real ELSE [real EXCEPT ![Len(real)] = [@ EXCEPT !.seen = TRUE]]

EntryHit(r) ==
  /\ Breakpoint /\ breakpoint_being_enabled = NULL
  /\ NoReturn /\ brk_addr \in Entry
  /\ LET cnt == IF Full THEN enabled ELSE [enabled EXCEPT ![r] = @ + 1]
         fresh == IF ~Full /\ cnt[r] = 1 THEN {r} ELSE {}
         o == Saved(orig_value, text, fresh)
     IN /\ enabled' = cnt
        /\ orig_value' = o
        /\ ContinueAfterBreakpoint(brk_addr, cnt, Planted(text, fresh), o)
  /\ callstack' = IF Full THEN callstack ELSE Append(callstack, SymFrame(brk_addr, r))
  /\ tooDeep' = (tooDeep \/ Full)
  /\ real' = IF Full THEN real ELSE Noted
  /\ UNCHANGED <<breakpoints_enabled, exitVars, sysVars>>

\* "breakpointed at %p (?)"
UnknownHit ==
  /\ Breakpoint /\ breakpoint_being_enabled = NULL
  /\ NoReturn /\ brk_addr \notin Entry
  /\ Continue
  /\ UNCHANGED <<bpVars, threadVars, exitVars, text, cpuVars>>

Tracer ==
  \/ FirstEvent
  \/ Detach
  \/ ProcessSignal
  \/ ProcessExit
  \/ ProcessSyscall
  \/ ProcessSysret
  \/ Reinsert
  \/ \E i \in 1..Len(callstack) : ReturnHit(i)
  \/ \E r \in StackTop : EntryHit(r)
  \/ UnknownHit

\* list_of_processes is empty: the tracer exits
Finished == Gone /\ UNCHANGED vars

----
(* The specification.                                                      *)

\* open_pid and open_program: symbols counted, nothing planted (with the pid
\* still 0 insert_breakpoint only counts).  A process of -p runs until the
\* SIGSTOP of PTRACE_ATTACH; a command waits at its exec.
Init ==
  /\ breakpoints_enabled = -1
  /\ enabled = SymCount
  /\ orig_value = [a \in Addr |-> "unset"]
  /\ callstack = << >> /\ breakpoint_being_enabled = NULL /\ tooDeep = FALSE
  /\ exiting = FALSE /\ alarm = FALSE
  /\ text = [a \in Addr |-> "code"]
  /\ pc = Elsewhere /\ skew = FALSE /\ real = << >>
  /\ insys = NoSys /\ orig_eax = NoSys
  /\ attached \in BOOLEAN
  /\ stopPending = attached
  /\ mode = IF attached THEN "cont" ELSE "trap"

Next == Program \/ SignalExit \/ SignalAlarm \/ Tracer \/ Finished

Spec == Init /\ [][Next]_vars

\* The tracer handles a stop, a single step is made, a pending SIGSTOP is
\* taken on the way to user mode, and it interrupts a system call
Fairness ==
  /\ WF_vars(Tracer)
  /\ WF_vars(mode = "step" /\ Step)
  /\ SF_vars(TakeStop)
  /\ WF_vars(stopPending /\ SysLeave)
  /\ WF_vars(SignalAlarm)

FairSpec == Spec /\ Fairness

----
(* Properties.                                                             *)

TypeOK ==
  /\ breakpoints_enabled \in {-1, 0, 1}
  /\ enabled \in [Addr -> Nat]
  /\ orig_value \in [Addr -> Byte]
  /\ callstack \in Seq(Frames) /\ Len(callstack) <= MaxDepth
  /\ breakpoint_being_enabled \in Addr \cup {NULL}
  /\ exiting \in BOOLEAN /\ alarm \in BOOLEAN /\ attached \in BOOLEAN
  /\ tooDeep \in BOOLEAN
  /\ text \in [Addr -> Byte]
  /\ pc \in Addr \cup {Elsewhere} /\ skew \in BOOLEAN
  /\ real \in Seq([fn : Entry, ret : Site, seen : BOOLEAN])
  /\ insys \in Sys \cup {SigReturn, NoSys} /\ orig_eax \in Sys \cup {SigReturn, NoSys}
  /\ mode \in {"cont", "step", "trap", "signal", "sigstop", "exited", "detached", "dead"}
  /\ stopPending \in BOOLEAN

\* The count of a breakpoint is the number of symbols at its address plus the
\* number of frames that return there, whatever the program does: both
\* assertions of delete_breakpoint hold, and address2bpstruct never returns
\* NULL to continue_after_breakpoint.
RefCount ==
  \A a \in Addr : enabled[a] = SymCount[a] + Cardinality(Holding(a, 1))

\* While the breakpoints are enabled, an int3 is in memory exactly where a
\* count is positive, the lifted breakpoint excepted, and the byte it hides
\* is the program's own.
PlantedIff ==
  breakpoints_enabled = 1 =>
    \A a \in Addr :
      /\ text[a] = IF enabled[a] > 0 /\ breakpoint_being_enabled # a THEN "int3" ELSE "code"
      /\ enabled[a] > 0 => orig_value[a] = "code"

\* disable_all_breakpoints leaves a process that utrace detaches from without
\* one int3, whatever was planted or lifted when the SIGSTOP came.
CleanDetach == mode = "detached" => \A a \in Addr : text[a] = "code"

\* The thread is never resumed behind an int3 whose own instruction it has
\* not executed.
NeverDerailed == skew => mode = "trap"

\* No traced function runs unseen: a call that is not on record has not gone
\* past its entry (calls beyond MAX_CALLDEPTH excepted).
CallsSeen ==
  ~tooDeep =>
    \A i \in 1..Len(real) : ~real[i].seen => i = Len(real) /\ pc = real[i].fn

\* Whatever longjmp and tail calls leave on the tracer's call stack, the calls
\* in progress are on it, in order: popping from the top never takes a live
\* call away.
LiveCallsKept ==
  ~tooDeep =>
    LET live == {i \in 1..Len(real) : real[i].seen}
    IN \E e \in [live -> 1..Len(callstack)] :
         /\ \A i \in live : callstack[e[i]] = SymFrame(real[i].fn, real[i].ret)
         /\ \A i, j \in live : i < j => e[i] < e[j]

\* syscall_p tells the entry of a system call from its exit by the top frame:
\* that frame is a system call exactly while the thread is in that call, and
\* no system call is ever buried.
SyscallFramesMatchKernel ==
  /\ \A i \in 1..Len(callstack) : callstack[i].is_syscall => i = Len(callstack)
  /\ mode = "cont" /\ ~tooDeep =>
       \A n \in Sys : TopIsSyscall(n) <=> insys = n

\* The lifted breakpoint is planted again, or the thread is gone
LiftedIsReplanted == breakpoint_being_enabled # NULL ~> (breakpoint_being_enabled = NULL \/ Gone)

\* A SIGSTOP sent for Ctrl-C once the process is traced ends in its release,
\* even in the middle of a single step or of a system call
InterruptReleases == (exiting /\ stopPending /\ breakpoints_enabled = 1) ~> Gone

----
(* The calls in progress and the calls on display, for the refinement of   *)
(* CallFlow.                                                               *)

Live == [i \in 1..Len(real) |-> [fn |-> real[i].fn, ret |-> real[i].ret]]

SymDepth ==
  IF callstack # << >> /\ callstack[Len(callstack)].is_syscall
  THEN Len(callstack) - 1
  ELSE Len(callstack)

Shown ==
  [i \in 1..SymDepth |-> [fn |-> callstack[i].c_un, ret |-> callstack[i].return_addr]]

Flow == INSTANCE CallFlow WITH live <- Live, shown <- Shown

\* With plain calls and returns only, the tracer displays the program's own
\* call tree: each call when it is made, each return before the next step.
ImplementsCallFlow == Flow!Spec
====
