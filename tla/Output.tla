---- MODULE Output ----
(***************************************************************************)
(* output.c: how the left and right halves of calls share lines.  All the  *)
(* traced threads print through one pair of statics, current_pid and       *)
(* current_depth, which remember whose left half the last line ends with.  *)
(* Each action is one event of one thread, with what process_event.c does  *)
(* to the call stack of that thread before and after it prints.  Without   *)
(* -c, which replaces these lines by a table.                              *)
(***************************************************************************)
EXTENDS Integers, Sequences

CONSTANTS
  Thread,    \* tids of the traced threads
  NoThread,  \* the 0 of current_pid
  MaxDepth,  \* MAX_CALLDEPTH - 1: the frames a thread can have
  MaxCalls   \* bound of the model: calls displayed

ASSUME ThreadAssumption == NoThread \notin Thread
ASSUME BoundAssumption == MaxDepth \in Nat /\ MaxCalls \in Nat

VARIABLES
  opt_S,          \* the option: whether system calls are displayed
  current_pid, current_depth, \* the statics
  callstack,      \* [Thread -> sequence of frames]
  calls,          \* history: calls displayed so far; it numbers them
  lines, partial  \* the output: lines that ended, and the one that did not

vars == <<opt_S, current_pid, current_depth, callstack, calls, lines, partial>>

NoCall == 0
NoLine == [left |-> NoCall, right |-> NoCall, depth |-> 0, tid |-> NoThread]

----
(* output.c.                                                               *)

\* " <unfinished ...>\n", if a left half is pending
Cut == IF current_pid # NoThread THEN lines \cup {partial} ELSE lines

\* output_left, with the depth d before the frame is pushed
OutputLeft(t, c, d) ==
  /\ lines' = Cut
  /\ partial' = [left |-> c, right |-> NoCall, depth |-> d, tid |-> t]
  /\ current_pid' = t
  /\ current_depth' = d
  /\ UNCHANGED opt_S

\* A right half after the pending left half, or on a line of its own, where
\* add_prefix_space prints current_pid, which is 0 by then
Joined(c) == lines \cup {[partial EXCEPT !.right = c]}
Resumed(c, d) ==
  Cut \cup {[left |-> NoCall, right |-> c, depth |-> d, tid |-> NoThread]}

\* Mutant: compares the threads and not the depths
OutputRight_AnyDepth(t, c, d) ==
  /\ lines' = IF current_pid = t THEN Joined(c) ELSE Resumed(c, d)
  /\ partial' = NoLine
  /\ current_pid' = NoThread
  /\ UNCHANGED <<opt_S, current_depth>>

\* output_right, with the depth d after the frame was popped
OutputRight(t, c, d) ==
  /\ lines' = IF current_pid = t /\ current_depth = d THEN Joined(c) ELSE Resumed(c, d)
  /\ partial' = NoLine
  /\ current_pid' = NoThread
  /\ UNCHANGED <<opt_S, current_depth>>

\* output_line
OutputLine ==
  /\ lines' = Cut
  /\ partial' = NoLine
  /\ current_pid' = NoThread
  /\ UNCHANGED <<opt_S, current_depth>>

Silent == UNCHANGED <<opt_S, lines, partial, current_pid, current_depth>>

----
(* process_event.c: what prints, and when the call stack changes.          *)

Frame(sys, c) == [is_syscall |-> sys, call |-> c]
Depth(t) == Len(callstack[t])

\* Mutant: no limit
Push_NoLimit(t, fr) == callstack' = [callstack EXCEPT ![t] = Append(@, fr)]

\* callstack_push_*, which refuses a frame beyond the limit
Push(t, fr) ==
  callstack' = IF Depth(t) = MaxDepth THEN callstack
               ELSE [callstack EXCEPT ![t] = Append(@, fr)]

\* The frames of t from index i on are popped
PopFrom(t, i) == callstack' = [callstack EXCEPT ![t] = SubSeq(@, 1, i - 1)]

ProcessSyscall(t) ==
  IF opt_S
  THEN /\ calls < MaxCalls
       /\ calls' = calls + 1
       /\ OutputLeft(t, calls + 1, Depth(t))
       /\ Push(t, Frame(TRUE, calls + 1))
  ELSE Silent /\ Push(t, Frame(TRUE, NoCall)) /\ UNCHANGED calls

ProcessSysret(t) ==
  LET d == Depth(t)
  IN /\ d > 0 /\ callstack[t][d].is_syscall
     /\ PopFrom(t, d)
     /\ IF opt_S THEN OutputRight(t, callstack[t][d].call, d - 1) ELSE Silent
     /\ UNCHANGED calls

EntryHit(t) ==
  /\ calls < MaxCalls
  /\ calls' = calls + 1
  /\ OutputLeft(t, calls + 1, Depth(t))
  /\ Push(t, Frame(FALSE, calls + 1))

\* A return address on the stack is hit: the frames above it go with it
ReturnHit(t, i) ==
  /\ ~callstack[t][i].is_syscall
  /\ PopFrom(t, i)
  /\ OutputRight(t, callstack[t][i].call, i - 1)
  /\ UNCHANGED calls

\* process_signal, a breakpoint nobody knows, and normal_exit, which only
\* ends a pending line
OtherLine == OutputLine /\ UNCHANGED <<callstack, calls>>

\* process_exit and process_exit_signal; another process may get the tid
Exit(t) == OutputLine /\ PopFrom(t, 1) /\ UNCHANGED calls

\* process_signal, detaching: the process goes without a word
Detach(t) == Silent /\ PopFrom(t, 1) /\ UNCHANGED calls

Init ==
  /\ opt_S \in BOOLEAN
  /\ current_pid = NoThread /\ current_depth = 0
  /\ callstack = [t \in Thread |-> << >>]
  /\ calls = 0
  /\ lines = {} /\ partial = NoLine

ThreadEvent(t) ==
  \/ ProcessSyscall(t)
  \/ ProcessSysret(t)
  \/ EntryHit(t)
  \/ \E i \in 1..Depth(t) : ReturnHit(t, i)
  \/ Exit(t)
  \/ Detach(t)

Next == OtherLine \/ \E t \in Thread : ThreadEvent(t)

Spec == Init /\ [][Next]_vars

----
(* Properties.                                                             *)

Frames == [is_syscall : BOOLEAN, call : Nat]
Line == [left : Nat, right : Nat, depth : 0..MaxDepth, tid : Thread \cup {NoThread}]

TypeOK ==
  /\ opt_S \in BOOLEAN
  /\ current_pid \in Thread \cup {NoThread}
  /\ current_depth \in 0..MaxDepth
  /\ callstack \in [Thread -> Seq(Frames)]
  /\ \A t \in Thread : Depth(t) <= MaxDepth
  /\ calls \in Nat
  /\ lines \subseteq Line
  /\ partial \in Line

Display == INSTANCE LineDisplay

\* The thread and the depth are enough to tell whose left half is pending: a
\* result is never printed behind the arguments of another call, every
\* "resumed>" line has its "<unfinished ...>" one at the same depth, no call
\* returns twice, and no two halves run into one line, whatever longjmp, the
\* nesting limit, thread switches, signals, exits and reused tids do.
ImplementsLineDisplay == Display!Spec
====
