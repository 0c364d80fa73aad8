---- MODULE EventLookup ----
(***************************************************************************)
(* Whose event is it?  waitpid() gives a tid; utrace looks for its thread  *)
(* group in a small cache or in /proc, for the process of that group on    *)
(* its list, and for the record of the thread in the process, which it     *)
(* makes on the thread's first event.                                      *)
(*                                                                         *)
(* Left out because they have no effect: ref_count (the search for the     *)
(* least used entry never lowers its minimum, so it takes the last one),   *)
(* hot_tid_idx (always the index behind the last record) and child_idx.    *)
(***************************************************************************)
EXTENDS Integers, Sequences, FiniteSets

CONSTANTS
  Tid,         \* threads utrace is attached to
  Tgid,        \* [Tid -> Tid]: the thread group, as /proc/tid/status has it
  Opened,      \* processes registered with their tid by open_pid (-p)
  NoTgid,      \* the 0 of a tgid
  CacheSize,   \* PID2TGID_CACHE_SIZE
  MaxThreads   \* MAX_THREADS_TRACED

ASSUME TidAssumption == IsFiniteSet(Tid) /\ NoTgid \notin Tid
ASSUME TgidAssumption == Tgid \in [Tid -> Tid] /\ Opened \subseteq Tid
ASSUME SizeAssumption == CacheSize \in Nat \ {0} /\ MaxThreads \in Nat \ {0}

VARIABLES
  cache,    \* g_pid2tgid_cache: the entries in use
  stack,    \* the tgids whose "Tgid:" line may still be in the dead stack
            \* frame that proc_status_output reuses
  list,     \* the pids on list_of_processes
  enabled,  \* the pids whose breakpoints_enabled is not -1 any more
  threads,  \* [Tid -> SUBSET Tid]: the tids registered in a process
  utrace,   \* "loop", or "failed" after one of its exit(1)
  kernel    \* [Tid -> "run", "stop", "zombie", "dead"]

tables == <<cache, stack, list, enabled, threads, utrace>>
vars == <<tables, kernel>>

Entry == [pid : Tid, tgid : Tid]

----
(* The kernel (external): events are awaited one by one.                   *)

Stop(t) ==
  /\ kernel[t] = "run"
  /\ kernel' = [kernel EXCEPT ![t] = "stop"]
  /\ UNCHANGED tables

Exit(t) ==
  /\ kernel[t] = "run"
  /\ kernel' = [kernel EXCEPT ![t] = "zombie"]
  /\ UNCHANGED tables

----
(* sysdeps/linux-gnu/proc.c.                                               *)

Cached(t) == {cache[i].tgid : i \in {k \in 1..Len(cache) : cache[k].pid = t}}

\* Mutant: off by one
Put_OneLess(t, g) ==
  IF Len(cache) < CacheSize - 1
  THEN Append(cache, [pid |-> t, tgid |-> g])
  ELSE [cache EXCEPT ![CacheSize - 1] = [pid |-> t, tgid |-> g]]

\* pid2tgid_cache_put, for a pid that is not cached
Put(t, g) ==
  IF Len(cache) < CacheSize
  THEN Append(cache, [pid |-> t, tgid |-> g])
  ELSE [cache EXCEPT ![CacheSize] = [pid |-> t, tgid |-> g]]

\* Mutant: caches what was found in the cache once more
Pid2tgid_PutsAgain(t, g) ==
  /\ IF Cached(t) # {} THEN g \in Cached(t)
     ELSE IF kernel[t] = "stop" THEN g = Tgid[t] ELSE g \in stack \cup {NoTgid}
  /\ stack' = IF kernel[t] = "stop" THEN stack \cup {g} ELSE stack
  /\ cache' = IF g = NoTgid THEN cache ELSE Put(t, g)

\* pid2tgid.  A thread whose end waitpid() has just reported is gone from
\* /proc: kill(pid, 0) fails and an uninitialised buffer is parsed.
Pid2tgid(t, g) ==
  IF Cached(t) # {}
  THEN g \in Cached(t) /\ UNCHANGED <<cache, stack>>
  ELSE /\ IF kernel[t] = "stop" THEN g = Tgid[t] ELSE g \in stack \cup {NoTgid}
       /\ stack' = IF kernel[t] = "stop" THEN stack \cup {g} ELSE stack
       /\ cache' = IF g = NoTgid THEN cache ELSE Put(t, g)

----
(* wait_for_something and proc.c.                                          *)

\* "signal from wrong tid", or no room for another thread: exit(1)
Fails(t, g) == g \notin list \/ (t \notin threads[g] /\ Cardinality(threads[g]) = MaxThreads)

\* Mutants: the slot is taken but its tid not written; no slot is taken
Register_Unset(t, g) ==
  threads' = [threads EXCEPT ![g] = IF t \in @ THEN @ ELSE @ \cup {NoTgid}]
Register_Never(t, g) == UNCHANGED threads

\* tid2thread, else reg_tid
Register(t, g) == threads' = [threads EXCEPT ![g] = @ \cup {t}]

\* reg_tid returns the record behind the last one, whose tid is 0: requests
\* made through it reach no thread
Ghost(t, g) == t \notin threads[g]

Becomes(t, s) == kernel' = [kernel EXCEPT ![t] = s]
Reaped(t) == IF kernel[t] = "zombie" THEN "dead" ELSE "run"

\* The first event of a process: the thread is resumed by its own tid
FirstEvent(t, g) ==
  /\ g \notin enabled
  /\ enabled' = enabled \cup {g}
  /\ Register(t, g)
  /\ Becomes(t, Reaped(t))
  /\ UNCHANGED <<list, utrace>>

\* Any other event that resumes the thread, through its record
StopEvent(t, g) ==
  /\ g \in enabled /\ kernel[t] = "stop"
  /\ Register(t, g)
  /\ Becomes(t, IF Ghost(t, g) THEN "lost" ELSE "run")
  /\ UNCHANGED <<list, enabled, utrace>>

\* process_exit: remove_proc drops the process with all its threads
ExitEvent(t, g) ==
  /\ g \in enabled /\ kernel[t] = "zombie"
  /\ list' = list \ {g}
  /\ threads' = [threads EXCEPT ![g] = {}]
  /\ Becomes(t, "dead")
  /\ UNCHANGED <<enabled, utrace>>

GiveUp(t) ==
  /\ utrace' = "failed"
  /\ Becomes(t, IF kernel[t] = "zombie" THEN "dead" ELSE "stop")
  /\ UNCHANGED <<list, enabled, threads>>

\* One turn of the main loop
Handle(t) ==
  /\ utrace = "loop" /\ kernel[t] \in {"stop", "zombie"}
  /\ \E g \in Tid \cup {NoTgid} :
       /\ Pid2tgid(t, g)
       /\ IF Fails(t, g) THEN GiveUp(t)
          ELSE FirstEvent(t, g) \/ StopEvent(t, g) \/ ExitEvent(t, g)

----
(* The specification.                                                      *)

\* Every process waits in its first stop, of PTRACE_ATTACH or of its exec.  (A
\* process killed before that stop is not modelled.)  open_pid registers the
\* tid of a process, execute_program does not.
Init ==
  /\ cache = << >> /\ stack = {}
  /\ list = Tid /\ enabled = {}
  /\ threads = [t \in Tid |-> IF t \in Opened THEN {t} ELSE {}]
  /\ utrace = "loop"
  /\ kernel = [t \in Tid |-> "stop"]

Finished == (utrace = "failed" \/ \A t \in Tid : kernel[t] = "dead") /\ UNCHANGED vars

Next ==
  \/ \E t \in Tid : Stop(t) \/ Exit(t) \/ Handle(t)
  \/ Finished

Spec == Init /\ [][Next]_vars

\* waitpid overlooks no thread for ever
FairSpec == Spec /\ \A t \in Tid : WF_vars(Handle(t))

----
(* Properties.                                                             *)

TypeOK ==
  /\ cache \in Seq(Entry) /\ Len(cache) <= CacheSize
  /\ stack \subseteq Tid
  /\ list \subseteq Tid /\ enabled \subseteq Tid
  /\ threads \in [Tid -> SUBSET Tid]
  /\ utrace \in {"loop", "failed"}
  /\ kernel \in [Tid -> {"run", "stop", "zombie", "dead", "lost"}]

\* While the threads fit in the cache, it never holds two entries for a tid,
\* nor a group the tid is not in.
CacheTrue ==
  \A i, j \in 1..Len(cache) :
    /\ cache[i].tgid = Tgid[cache[i].pid]
    /\ cache[i].pid = cache[j].pid => i = j

\* While they fit, every event finds its owner: a living process is on the list, its threads
\* are resumed through records of their own, and utrace goes on.
OwnersFound ==
  /\ utrace = "loop"
  /\ \A t \in Tid : kernel[t] # "dead" => Tgid[t] \in list /\ kernel[t] # "lost"

\* Every stopped thread is resumed.
StopHandled == \A t \in Tid : kernel[t] = "stop" ~> kernel[t] \in {"run", "zombie", "dead"}

\* ltrace.1: utrace "simply runs the specified command until it exits. It
\* intercepts and records the dynamic library calls": it does not end while
\* a process still runs, whatever becomes of the others.
RunsUntilExit == utrace = "failed" => \A t \in Tid : kernel[t] = "dead"
====
