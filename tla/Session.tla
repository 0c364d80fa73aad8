---- MODULE Session ----
(***************************************************************************)
(* utrace as a whole: the list of traced processes, the main loop that     *)
(* takes their events, Ctrl-C and the alarm it sets, and the three ways a  *)
(* process leaves the list.  What an event does inside a process is in     *)
(* CallTracer; here it is "Other".  Without -f.  Init has everybody opened *)
(* already; Startup has how that came about.                               *)
(*                                                                         *)
(* A signal handler of utrace may run between any two steps of its main    *)
(* loop, so letting a process go is four steps.                            *)
(***************************************************************************)
EXTENDS Integers, Sequences, FiniteSets

CONSTANTS
  Proc,     \* the processes
  Command,  \* the one utrace starts, if it is given a command
  NoProc,
  CacheSize \* PID2TGID_CACHE_SIZE; EventLookup has what comes beyond it

ASSUME ProcAssumption == IsFiniteSet(Proc) /\ Command \in Proc /\ NoProc \notin Proc

ASSUME CacheAssumption == CacheSize \in Nat /\ Cardinality(Proc) <= CacheSize

VARIABLES
  opt_p,     \* the processes given with -p, the last one first
  list_of_processes,  \* sequence of processes
  enabled,   \* [Proc -> -1, 0, 1]: proc->breakpoints_enabled
  exiting, alarm,
  missed,    \* history: the interrupt came before the first event of one of -p
  unnamed,   \* history: processes attached to that are not on the list
  at,        \* where utrace is: "loop", or a step of letting cur go, or gone
  cur,
  state,     \* [Proc -> the state of the process, seen by the kernel]
  sigstop    \* [Proc -> whether a SIGSTOP is pending]

tracerVars == <<opt_p, list_of_processes, enabled, exiting, alarm, missed, unnamed, at, cur>>
vars == <<tracerVars, state, sigstop>>

OptP == {opt_p[i] : i \in 1..Len(opt_p)}
Listed == {list_of_processes[i] : i \in 1..Len(list_of_processes)}

\* In the hands of utrace, alive or reporting its end
Living == {"run", "stop", "other"}
Traced == {p \in Proc : state[p] \in Living \cup {"zombie"}}
\* Let go, or not attached to yet
Detached == {"free", "halted"}
\* Whose end waitpid waits for: the command stays a child of utrace's
Children == {p \in Proc : p \in Traced \/ (p = Command /\ state[p] \in Detached)}
Planted(p) == enabled[p] = 1

\* exit(0) or an exit of the start; exit(1) of a wrong tid; a signal
UtraceGone == at \in {"exited", "failed", "crashed"}
InLoop == at \in {"loop", "disabled", "untraced", "removed"}

----
(* The processes and the kernel (external).                                *)

Becomes(p, s) == state' = [state EXCEPT ![p] = s]

TakeStop(p) ==
  /\ state[p] = "run" /\ sigstop[p]
  /\ Becomes(p, "stop")
  /\ sigstop' = [sigstop EXCEPT ![p] = FALSE]
  /\ UNCHANGED tracerVars

\* A breakpoint, a system call, another signal
Other(p) ==
  /\ state[p] = "run" /\ ~UtraceGone
  /\ Becomes(p, "other")
  /\ UNCHANGED <<tracerVars, sigstop>>

\* Also a stopped one, by SIGKILL: what it has stopped for is never reported
Die(p) ==
  /\ ~UtraceGone
  /\ \/ p \in Children \ {q \in Proc : state[q] = "zombie"} /\ Becomes(p, "zombie")
     \/ p \notin Children /\ state[p] \in Detached /\ Becomes(p, "dead")
  /\ UNCHANGED <<tracerVars, sigstop>>

\* Without its tracer a process runs into an int3: SIGTRAP
Killed(p) ==
  /\ UtraceGone /\ Planted(p) /\ state[p] \in Living
  /\ Becomes(p, "killed")
  /\ UNCHANGED <<tracerVars, sigstop>>

\* kill(p, SIGSTOP) for all of S: it is pending for a traced process, and
\* stops one that is not traced any more
Stopped(S) ==
  /\ sigstop' = [p \in Proc |-> sigstop[p] \/ (p \in S /\ state[p] \in Living)]
  /\ state' = [p \in Proc |-> IF p \in S /\ state[p] = "free" THEN "halted" ELSE state[p]]

----
(* ltrace.c: the signal handlers.                                          *)

\* The SIGSTOP of the interrupt would be swallowed: it is merged with that of
\* PTRACE_ATTACH, or comes before it
TooEarly == ~InLoop \/ \E p \in OptP \cap Traced : enabled[p] = -1

\* Mutant: no alarm(1)
SignalExit_NoAlarm ==
  /\ ~exiting /\ ~UtraceGone
  /\ exiting' = TRUE /\ alarm' = FALSE
  /\ missed' = TooEarly
  /\ Stopped(OptP)
  /\ UNCHANGED <<opt_p, list_of_processes, enabled, unnamed, at, cur>>

\* signal_exit
SignalExit ==
  /\ ~exiting /\ ~UtraceGone
  /\ exiting' = TRUE /\ alarm' = TRUE
  /\ missed' = TooEarly
  /\ Stopped(OptP)
  /\ UNCHANGED <<opt_p, list_of_processes, enabled, unnamed, at, cur>>

\* Mutant: a process of -p ends the walk
AlarmTargets_Ends(L) ==
  LET W[i \in 1..(Len(L) + 1)] ==
        IF i > Len(L) \/ L[i] \in OptP THEN {} ELSE {L[i]} \cup W[i + 1]
  IN W[1]

\* The processes of the list L that signal_alarm sends a SIGSTOP to: behind
\* one of -p the next one is not compared with opt_p
AlarmTargets(L) ==
  LET Hit(i) == IF L[i] \in OptP THEN i + 1 ELSE i
      W[i \in 1..(Len(L) + 2)] ==
        IF i > Len(L) \/ Hit(i) > Len(L) THEN {} ELSE {L[Hit(i)]} \cup W[Hit(i) + 1]
  IN W[1]

\* The second that passes is enough for the start
SignalAlarm ==
  /\ alarm /\ InLoop
  /\ alarm' = FALSE
  /\ Stopped(AlarmTargets(list_of_processes))
  /\ UNCHANGED <<opt_p, list_of_processes, enabled, exiting, missed, unnamed, at, cur>>

----
(* The main loop: wait_for_something and process_event.                    *)

\* The tids that pid2tgid has read from /proc
Stale == {p \in Proc : enabled[p] # -1}

\* pid2tgid: from its cache, else from /proc.  Nothing is there of a command
\* that waitpid has just reaped, nor of one of -p that its own parent has:
\* then the buffer it parses is not initialized and may have an earlier text.
Lookup(p) ==
  IF p \in Stale \/ state[p] # "zombie" THEN {p}
  ELSE Stale \cup {NoProc} \cup ({p} \ {Command})

\* waitpid reports p, whose process is said to be g
Waits(p, g) ==
  /\ at = "loop"
  /\ state[p] \in {"stop", "other", "zombie"}
  /\ g \in Lookup(p)

\* Mutant: unlinks what follows the process, too
Without_Tail(p) ==
  SubSeq(list_of_processes, 1,
         CHOOSE i \in 0..(Len(list_of_processes) - 1) : list_of_processes[i + 1] = p)

\* remove_proc: the entry of the process is unlinked
Without(p) ==
  LET i == CHOOSE i \in 1..Len(list_of_processes) : list_of_processes[i] = p
  IN SubSeq(list_of_processes, 1, i - 1)
     \o SubSeq(list_of_processes, i + 1, Len(list_of_processes))

\* Mutant: opens the process once more
FirstEvent_Reopens(p, g) ==
  /\ Waits(p, g) /\ g \in Listed /\ enabled[g] = -1
  /\ enabled' = [enabled EXCEPT ![g] = 1]
  /\ Becomes(p, IF state[p] = "zombie" THEN "dead" ELSE "run")
  /\ list_of_processes' = <<g>> \o list_of_processes
  /\ UNCHANGED <<opt_p, exiting, alarm, missed, unnamed, at, cur, sigstop>>

\* enable_all_breakpoints and continue_process, which a process that is
\* already dead does not notice
FirstEvent(p, g) ==
  /\ Waits(p, g) /\ g \in Listed /\ enabled[g] = -1
  /\ enabled' = [enabled EXCEPT ![g] = 1]
  /\ Becomes(p, IF state[p] = "zombie" THEN "dead" ELSE "run")
  /\ UNCHANGED <<opt_p, list_of_processes, exiting, alarm, missed, unnamed, at, cur, sigstop>>

Opened(p, g) == Waits(p, g) /\ g \in Listed /\ enabled[g] # -1

\* Any event after which the process is resumed
Resume(p, g) ==
  /\ Opened(p, g)
  /\ state[p] = "other" \/ (state[p] = "stop" /\ ~exiting)
  /\ Becomes(p, "run")
  /\ UNCHANGED <<tracerVars, sigstop>>

\* process_exit and process_exit_signal: the entry of g goes, whoever ended
ProcessExit(p, g) ==
  /\ Opened(p, g) /\ state[p] = "zombie"
  /\ list_of_processes' = Without(g)
  /\ Becomes(p, "dead")
  /\ UNCHANGED <<opt_p, enabled, exiting, alarm, missed, unnamed, at, cur, sigstop>>

\* Mutant: the breakpoints stay
DisableAll_Skipped(p, g) ==
  /\ Opened(p, g) /\ state[p] = "stop" /\ exiting
  /\ at' = "disabled" /\ cur' = g
  /\ UNCHANGED <<opt_p, list_of_processes, enabled, exiting, alarm, missed, unnamed, state, sigstop>>

\* process_signal lets a process go: disable_all_breakpoints ...
DisableAll(p, g) ==
  /\ Opened(p, g) /\ state[p] = "stop" /\ exiting
  /\ enabled' = [enabled EXCEPT ![g] = 0]
  /\ at' = "disabled" /\ cur' = g
  /\ UNCHANGED <<opt_p, list_of_processes, exiting, alarm, missed, unnamed, state, sigstop>>

\* ... untrace_pid: it runs again; a SIGSTOP sent meanwhile stops it.  The
\* PTRACE_DETACH of one that was killed meanwhile fails ...
Untrace ==
  /\ at = "disabled"
  /\ at' = "untraced"
  /\ Becomes(cur, IF state[cur] = "zombie" THEN "zombie"
                  ELSE IF sigstop[cur] THEN "halted" ELSE "free")
  /\ sigstop' = [sigstop EXCEPT ![cur] = FALSE]
  /\ UNCHANGED <<opt_p, list_of_processes, enabled, exiting, alarm, missed, unnamed, cur>>

\* ... remove_proc, which frees the struct process and its threads ...
RemoveProc ==
  /\ at = "untraced"
  /\ at' = "removed"
  /\ list_of_processes' = Without(cur)
  /\ UNCHANGED <<opt_p, enabled, exiting, alarm, missed, unnamed, cur, state, sigstop>>

\* ... and continue_after_signal(event->thr->tid, ...), where event->thr is in
\* the freed memory.  A block of this size is unmapped by free(), unless an
\* earlier free() raised the allocator's threshold: utrace dies, or the
\* request fails.
UseAfterFree ==
  /\ at = "removed"
  /\ at' \in {"loop", "crashed"}
  /\ cur' = NoProc
  /\ UNCHANGED <<opt_p, list_of_processes, enabled, exiting, alarm, missed, unnamed, state, sigstop>>

\* "No more children": an empty list, or ECHILD
Exit ==
  /\ at = "loop"
  /\ list_of_processes = << >> \/ Children = {}
  /\ at' = "exited"
  /\ UNCHANGED <<opt_p, list_of_processes, enabled, exiting, alarm, missed, unnamed, cur, state, sigstop>>

\* "signal from wrong tid": exit(1), whatever is planted in the others
WrongTid(p, g) ==
  /\ Waits(p, g) /\ g \notin Listed
  /\ list_of_processes # << >>
  /\ at' = "failed"
  /\ Becomes(p, IF state[p] = "zombie" THEN "dead" ELSE state[p])
  /\ UNCHANGED <<opt_p, list_of_processes, enabled, exiting, alarm, missed, unnamed, cur, sigstop>>

Handle(p) ==
  \E g \in Proc \cup {NoProc} :
    WrongTid(p, g) \/ FirstEvent(p, g) \/ Resume(p, g) \/ ProcessExit(p, g) \/ DisableAll(p, g)
LetGo == Untrace \/ RemoveProc \/ UseAfterFree

Terminated == UtraceGone /\ UNCHANGED vars

----
(* The specification.                                                      *)

\* The states of the variables that every start has
Fresh ==
  /\ enabled = [p \in Proc |-> -1]
  /\ exiting = FALSE /\ alarm = FALSE
  /\ missed = FALSE /\ unnamed = {}
  /\ cur = NoProc

Reversed(L) == [i \in 1..Len(L) |-> L[Len(L) + 1 - i]]

\* Everybody is opened: the command, then the processes of -p, each at the
\* head of the list.  A process of -p gets the SIGSTOP of PTRACE_ATTACH; the
\* command waits at its exec.
Init ==
  /\ Fresh
  /\ opt_p \in [1..Cardinality(Proc \ {Command}) -> Proc \ {Command}]
  /\ OptP = Proc \ {Command}
  /\ list_of_processes = Reversed(opt_p) \o <<Command>>
  /\ at = "loop"
  /\ state = [p \in Proc |-> IF p \in OptP THEN "run" ELSE "other"]
  /\ sigstop = [p \in Proc |-> p \in OptP]

Environment == \E p \in Proc : TakeStop(p) \/ Other(p) \/ Die(p) \/ Killed(p)

Next ==
  \/ Environment
  \/ \E p \in Proc : Handle(p)
  \/ SignalExit
  \/ SignalAlarm
  \/ LetGo
  \/ Exit
  \/ Terminated

Spec == Init /\ [][Next]_vars

\* waitpid overlooks no process for ever, a pending SIGSTOP is taken on the
\* way to user mode, and an alarm goes off
Fairness ==
  /\ \A p \in Proc : WF_vars(Handle(p)) /\ SF_vars(TakeStop(p))
  /\ WF_vars(LetGo)
  /\ WF_vars(Exit)
  /\ WF_vars(SignalAlarm)

FairSpec == Spec /\ Fairness

----
(* Properties.                                                             *)

TypeOK ==
  /\ opt_p \in Seq(Proc)
  /\ list_of_processes \in Seq(Proc) /\ Len(list_of_processes) <= Cardinality(Proc)
  /\ enabled \in [Proc -> {-1, 0, 1}]
  /\ {exiting, alarm, missed} \subseteq BOOLEAN
  /\ unnamed \subseteq Proc
  /\ InLoop \/ UtraceGone \/ at \in {"options", "open", "fork", "attach", "name"}
  /\ cur \in Proc \cup {NoProc}
  /\ state \in [Proc -> Living \cup Detached \cup {"unborn", "zombie", "dead", "killed"}]
  /\ sigstop \in [Proc -> BOOLEAN]

Entries(p) == Cardinality({i \in 1..Len(list_of_processes) : list_of_processes[i] = p})

\* p ended before its first event and went for another, whose entry was
\* removed instead of its own
Displacer(p) == p \in Listed \cup unnamed /\ state[p] = "dead" /\ enabled[p] = -1

\* Whoever can still send an event is on the list, once.  Else the tracer
\* exits at "signal from wrong tid", which leaves everybody with his
\* breakpoints (wait_for_something.c 69, proc.c 37-69).  That takes one that
\* died between PTRACE_ATTACH and pid2name; or one that was let go, a command
\* or one killed before its PTRACE_DETACH; or one whose death was its first
\* event and that went for another.
EventsHaveProcess ==
  InLoop =>
    /\ \A p \in Proc : Entries(p) <= 1
    /\ \A p \in Children :
         \/ Entries(p) = 1
         \/ p \in unnamed
         \/ enabled[p] = 0 /\ state[p] \notin Living
         \/ \E q \in Proc : Displacer(q)

\* A process that outlives utrace's ordinary exit has no breakpoint left,
\* however early the interrupt came, and whoever was killed at any point;
\* unless one that never was on the list has taken an entry off it.
LeavesNoInt3 ==
  at = "exited" /\ ~(\E q \in unnamed : Displacer(q)) =>
    \A p \in Proc : state[p] \in Living \cup Detached => ~Planted(p)

\* signal_alarm does stop every process that is not of -p, wherever it is on
\* the list: the entry it skips is always one of -p.
AlarmStopsCommands ==
  [][alarm /\ ~alarm' => \A p \in Listed \ OptP : state[p] \in Living => sigstop'[p]]_vars

\* waitpid blocks for as long as somebody who is not listed lives and is silent:
\* a command that was let go, or one whose entry another has taken
OnlyDeadListed == Listed # {} /\ \A p \in Listed : state[p] = "dead"

\* After Ctrl-C utrace ends, whatever the processes of -p, the command and
\* the alarm do in between, unless it came too early for one of -p; or it has
\* only entries left of processes that ended at their first event.
InterruptEnds == exiting /\ ~missed ~> UtraceGone \/ OnlyDeadListed

\* README.md: "Press Ctrl+c will detach utrace from the process you are
\* tracing."  Of an interrupt that does not come too early, where nobody dies.
CtrlCDetaches ==
  [](\A p \in Proc : state[p] \notin {"zombie", "dead"})
    => (exiting /\ ~missed ~> \A p \in Proc : state[p] \in Detached)

====
