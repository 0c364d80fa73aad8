# A verification of utrace in TLA+

utrace traces the function calls of running programs (Linux, i386). It is an ltrace with a call stack
per thread: it plants an `int3` at the entry of every symbol of the executable and at the return
address of every call in progress, and prints a line for each call and each return. Paths below are
relative to `src/utrace-0.1/`, and the model follows the i386 code.

## Inventory

| part | state | operations | what is hard | what makes it correct |
|---|---|---|---|---|
| call tracer: `process_event.c`, `breakpoints.c`, `wait_for_something.c`, `sysdeps/linux-gnu/{breakpoint,trace}.c`, `sysdeps/linux-gnu/i386/{trace,regs}.c` | per process: the dictionary of breakpoints (count, saved byte), `breakpoints_enabled`; per thread: `callstack`, `breakpoint_being_enabled`; `exiting` | classification of a stop, one handler per event, planting and lifting | stops in an order the handlers do not expect (a signal or a SIGSTOP in a single step), stale frames, the nesting limit | the text of the program is right at any time, every call is seen, a detached program is clean |
| event lookup: `sysdeps/linux-gnu/proc.c`, `proc.c`, `wait_for_something.c` | a cache of 10 pid-tgid pairs, the list of processes, 256 thread records per process | `pid2tgid`, `pid2proc`, `tid2thread`, `reg_tid` | eviction, the record behind the array, a stale buffer, events of a dead thread | every event finds its owner |
| session: `ltrace.c`, `process_event.c`, `proc.c`, `wait_for_something.c` | `list_of_processes`, `opt_p`, `exiting`, the alarm | first event, SIGINT/SIGTERM, SIGALRM, exit of a process, detach | signal handlers between any two steps of the main loop; memory freed too early; processes that die while they are stopped or after they were let go | Ctrl-C lets all processes go and ends utrace; whoever sends an event is on the list |
| options and start: `options.c`, `execute_program.c`, `proc.c`, `ltrace.c` | the options, `opt_p`, the command | parse the options, search the command, fork, attach | attaches that fail, processes that die meanwhile, Ctrl-C in between, a PATH that is searched twice | the file that is analysed is the one that runs; whoever is traced is listed |
| output: `output.c` | `current_pid`, `current_depth` (statics shared by all threads) | `output_left`, `output_right`, `output_line` | threads take turns on one line | results are printed behind their own calls |
| fork, clone, exec with -f: `process_event.c`, `proc.c`, `trace.c` | the same records | `process_sysret`, `breakpoints_init` | inherited int3s, a wrong pointer type, children that are never attached | a child is traced as its parent is |
| call times and summary: `process_event.c`, `output.c`, `summary.c` | a time per frame, `current_time_spent`, the table of -c, the time of the last line | `calc_time_spent`, the table of -c, `begin_of_line`, `show_summary` | borrow, carry, division by zero, an overflow | times add up |
| table of breakpoints: `dict.c`, `breakpoints.c` | buckets of entries, list of symbols | filter and insert the symbols; enter, find, apply to all; count up and down | collisions, shared addresses, unlinking from the list that is walked | it is a function from addresses to breakpoints, and the counts are right |
| symbols: `elf.c`, with -e, -L and -l of `options.c` | the loaded sections, list of symbols | check a file, load its sections, walk its symbols | functions among symbols of all kinds; files that are refused | exactly the chosen functions of the program get breakpoints |
| prototypes: `read_config_file.c` | `list_of_functions` | parse a line, look a name up | malformed lines, boundaries, several files | the last line that mentions a function holds; the counts index arrays safely |
| display of arguments: `display_args.c`, `output.c`, `sysdeps/linux-gnu/{,i386/}trace.c` | `stack_pointer` of the thread | both halves of a call, `gimme_arg`, `umovestr`, texts and formats | a stack pointer that nested calls overwrite, limits, buffers | each argument is shown once, read from its own call |
| demangling, debug output, other architectures, build | | | | |

The parts call each other in one thread: `main` loops over `process_event(wait_for_something())`, and
only the handlers of SIGINT, SIGTERM and SIGALRM interrupt it. The other actors are the traced threads
and the kernel, which deliver stops through `waitpid` and are resumed by `ptrace` requests. While a
thread is stopped nothing else runs in it, so a handler of one event is atomic for that thread (not for
utrace's own signal handlers, see `Session`).

## Modules

| module | what it is |
|---|---|
| `CallFlow` | abstract: the calls on display follow the calls in progress, at most one step behind |
| `CallTracer` | one traced thread and the tracer: all handlers, memory bytes, registers, signals, Ctrl-C |
| `MCCallTracer` | its instances |
| `CallTracerProofs` | type correctness, reference counts, text of the program, detaching, no derailing |
| `CallsProofs` | extends it: system calls, the calls in progress, and `CallTracer` implements `CallFlow` |
| `Breakpoints` | abstract: a count and a saved byte per address, and what is in memory |
| `BreakpointTable` | the dictionary under `breakpoints.c`, and how `breakpoints_init` fills it |
| `BreakpointTableProofs` | types, counts, and `BreakpointTable` implements `Breakpoints` |
| `ElfSymbols` | extends `BreakpointTable`: -e, -L, -l and `read_elf`, which gives the table its list |
| `MCElfSymbols` | its instance: two addresses share a bucket, a third does not |
| `ElfSymbolsProofs` | the same for the whole, and that the chosen functions are traced |
| `LineDisplay` | abstract: how halves of calls may share lines |
| `Output` | `output.c` with the call stacks of several threads |
| `OutputProofs` | type correctness, and `Output` implements `LineDisplay` |
| `Session` | processes, the list, the signal handlers, detaching step by step |
| `Startup` | extends `Session`: options, the search for the command, fork, the attaches |
| `StartupProofs` | types, the list, no int3 left, the file that is analysed |
| `EventLookup` | from a tid to a process and a thread record |
| `MCEventLookup` | its instance |
| `EventLookupProofs` | types; with few enough processes every event finds its owner |
| `Prototypes` | the parser of the configuration files, and `name2func` |
| `Arguments` | pure operators: what each half of a call shows, texts, formats |
| `CallTimes` | the clock of -T, -c and -r, and the summary |
| `Report` | composes these three for one thread: what is said of each call |
| `MCReport` | its instance: the lines of the files, the pieces of texts |
| `ReportProofs` | prototypes, times, the table of -c, and which call an argument is of |

The modules cut the program along its own seams. `CallTracer` has one process and no list; `Session`
has the list and takes everything inside a process as one event, "Other"; `Output` has the call stacks
and nothing of the memory; `EventLookup` stands between `waitpid` and the handlers; `BreakpointTable` is
the table that `CallTracer` takes for a function of addresses, and `ElfSymbols` is where its list comes
from; `Report` has what `Output` takes for the text of a half. They share no other state variable in the
code except the call stack (`CallTracer`, `Output` and `Report` push and pop it at the same events), the
statics of a pending line (`Output` has them for all threads; the `pending` of `Report` is what is left
of them with one), and the list (`Session` and `EventLookup` remove from it at the same event). `main`
runs the parts in this order: `Startup` (options), `Prototypes` (the configuration files), `Startup`
(the processes), `Session` and the rest; `ElfSymbols` runs once for each process, inside of
`open_program`, and plants nothing before the first event of the process.

### CallTracer

| code | model |
|---|---|
| `struct breakpoint.enabled`, `.orig_value` | `enabled`, `orig_value`: functions on `Addr`; 0 stands for "no entry", too |
| `proc->breakpoints_enabled`, `thr->callstack`, `thr->breakpoint_being_enabled` | the variables of these names |
| words written by `enable_breakpoint`, `disable_breakpoint` | `text`, one byte class per address: "code", "int3", "unset" |
| EIP, ORIG_EAX | `pc` with `skew` (one byte behind an int3), `orig_eax` |
| how the thread was resumed, what stop it is in | `mode` |
| `syscall_p` and the rest of `wait_for_something` | `Sysret`, `Syscall`, `Breakpoint`, guards of the handlers |
| `process_signal`, `process_exit`, `process_syscall`, `process_sysret`, the four ends of `process_breakpoint` | `Detach`/`ProcessSignal`, `ProcessExit`, `ProcessSyscall`, `ProcessSysret`, `Reinsert`/`ReturnHit`/`EntryHit`/`UnknownHit` |
| `continue_after_breakpoint` | `ContinueAfterBreakpoint`, given counts, text and saved bytes as the calls before it leave them |
| `signal_exit`, `signal_alarm` | `SignalExit`, `SignalAlarm` for one process |

The traced program is external: it calls, returns, makes system calls, and, where `Env` says so, leaves
functions by longjmp or tail calls, returns through a site from a function without a symbol, receives
signals and returns from their handlers by sigreturn. `real` is its true stack of calls of traced
functions, `seen` whether the tracer has recorded the call; `tooDeep` remembers a refused push. They
are history: no handler reads them except to know the word at the stack pointer (`StackTop`).

Assumptions: the thread is the process's first (slot 0, so `get_proc` is right); no -f and no exec; an
EIP that is no int3's maps to `Elsewhere` (it may be any address: `brk_addr` is then no breakpoint's);
what the program does before its first stop is not followed, since nothing is planted. After `Detach`
the model does not care whether utrace survives; `Session` does.

### BreakpointTable

| code | model |
|---|---|
| `struct dict_entry` with its `struct breakpoint`, `d->buckets[]` | an `Entry`; `buckets`, a sequence of entries per bucket |
| `dict_find_entry`, `dict_enter` | `Matching`, `Place`, `Find`; `Entered` |
| `insert_breakpoint`, `delete_breakpoint` | `InsertBreakpoint` (`live`: is `proc->pid` known), `DeleteBreakpoint` |
| `dict_apply_to_all` with `enable_bp_cb`, `disable_bp_cb` | `EnableAll`, `DisableAll`; `Used` are the entries the callbacks act on |
| the loops of `breakpoints_init` | `Filter`, `Filtered`, `InsertSymbol`, `Inserted`: one turn is one step, `pos` is `tmp1` or `sym` |
| `callstack_push_symfunc`, `callstack_pop` | `Push`, `Pop`: their call into `breakpoints.c` |

`read` is what `read_elf` returned and `held` the references of the frames; both are history. `dict_clear`
is left out: a second `breakpoints_init` would
come at the exit stop of an exec, which `syscall_p` takes for another entry, because `process_syscall`
pushes no frame for an exec. `CallTracer` has the single step, for which one breakpoint is lifted.

### ElfSymbols

| code | model |
|---|---|
| the cases of -e, -l and -L in `process_options` | `OptionE`, `OptionLibrary`, `OptionL` |
| `breakpoints_init`, which calls `read_elf` unless -L was given | `BreakpointsInit`, then `ReadElf` or nothing; `stage` is how far it is |
| `do_init_elf`: open, fstat, mmap, the magic number, class, type, machine | `InitElf` over the kinds of `File` |
| `do_load_elf_symtab` | `LoadElfSymtab` |
| `do_init_load_libraries`, the loop over the dynamic symbols | `LoadLibrary`, `DynamicSymbols`: they read and change nothing |
| the loop over the local symbols, with its six conditions; `add_local_symbol` | `LocalSymbol`, `Eligible`, `AddLocalSymbol` |
| the filter and the insertion | `Next` of `BreakpointTable` |

What a linker writes of each kind of symbol (`Kind`, `ElfSym`) is external. A file's contents are chosen
when the code comes to them: the kind of file when it is opened, a symbol when the loop reaches it.
`defined` keeps the global functions of the file, as its author would list them, whatever the loop does.
The -l of `ltrace.1:71`, "Display only the symbols included in the library", has no such effect: a
library is opened and checked, a bad one ends utrace, and its symbols are compared with the dynamic ones
of the program without a consequence. `TracesFunctions` speaks of what happens without -l.

### Output

Each action is one event of one thread, in the order of the handler: `output_left` before the push,
`output_right` after the pops, with the depth as it is then. A line is a record of the call whose left
half it has, the call whose right half it has, the depth and the tid that is printed. Calls are numbered
so that a line can be traced to its call. Columns are left out, and arguments, times and -c are in
`Report`; -S is chosen in the initial state because it decides whether a system call's frame has a line.

### Session

`list_of_processes` is the linked list as a sequence. `at` says where the main loop is while it lets a
process go: `disable_all_breakpoints`, `untrace_pid`, `remove_proc` and the use of the freed record are
four steps, so that both signal handlers can come in between. `AlarmTargets` is the walk of
`signal_alarm` with the entry it skips. Reading freed memory has two outcomes, a crash or a request that
fails: the block, `struct process` with 256 thread records, is some 500 KB, so `free` unmaps it unless
an earlier `free` raised the allocator's threshold. When utrace is gone, a process that meets one of its
int3s is killed.

| `state` of a process | |
|---|---|
| "run", "stop", "other" | traced: running, stopped by a SIGSTOP, stopped by anything else |
| "free", "halted" | not attached to yet or let go: running, stopped |
| "zombie", "dead" | its end is to be reported; it is reported, or was its parent's to hear of |
| "unborn", "killed" | the command before the fork; ended by an int3 of a utrace that is gone |

`Die` may come in each of them: a process that is stopped may be killed before utrace lets it go, and then
PTRACE_DETACH fails and its end is reported when it is off the list. The command stays a child of utrace
(`Children`) when it is let go, so its end is reported, too, and until then `waitpid` has no ECHILD for
`Exit`. An event is of a process p, and `Lookup` says which processes g `pid2tgid` may take it for: p
itself when its tid is in the cache or in `/proc`; of one that is reported dead as its first event, what an
uninitialised buffer holds: nothing, or a process looked up before; or p, of one whose own parent has yet to
wait for it. The handlers take p and g: breakpoints are enabled and entries removed for g, p is resumed
or gone. `Proc` has no more processes than the cache has entries (`CacheAssumption`), so that a tid looked
up once is found from then on; `EventLookup` has what comes with more.

`WrongTid` is the exit(1) for an event of nobody on the list. `EventsHaveProcess` names what it takes: a
process that died between PTRACE_ATTACH and `pid2name` (`unnamed`), which is traced and not listed; one
that was let go; or one whose entry was removed for another (`Displacer`). It leaves int3s in whoever is
still traced; `LeavesNoInt3` is about exit(0).

The first event of a process is its SIGSTOP of PTRACE_ATTACH, or the stop at the exec. An interrupt that
comes before it sends a SIGSTOP that is merged with that one, and the handler of a first event does not
look at `exiting`; `missed` records that. `missed` and `unnamed` are history: no action looks at them, the
properties that do say so. -f is left out.

### Startup

| code | model |
|---|---|
| `process_options`: the loop over the words, and what follows it | `ReadOption` with an operator per option, `EndOptions` |
| `search_for_command` | `SearchForCommand` over `path` and the directories `found` to have the file |
| `open_program`, `execute_program` with `fork`, `trace_me`, `change_uid`, `execvp` | `OpenCommand`, `Fork`; `Executed` is the search of `execvp` (external) |
| the loop over `opt_p` in `main`, `open_pid` | `Attach`, `OpenPid`, one step for each call another process can overtake |
| every `exit` on the way | `Quit` |

`StartNext` interleaves these steps with those of the processes and the handlers of `Session`. Whoever is
attached when utrace exits goes back to the kernel; no breakpoint is planted before the loop. What
only the options look at is reset when they are parsed, which keeps the states few. The child reaches its
exec, or exits first, while the parent goes on to its first `waitpid`: nothing in between looks at it.
`AnalysedIsExecuted` excludes an unset PATH: then `search_for_command` looks nowhere and `execvp` in a
default of the C library, and the two may take different files.

### EventLookup

`cache` is the used part of `g_pid2tgid_cache`: entries are never removed, so it is a sequence. The
search for the least used entry never lowers its minimum and takes the last entry; that is what `Put`
does, and why `ref_count` is left out. A tid that `waitpid` has just reported dead is not in `/proc`, so
`pid2tgid` parses an uninitialised buffer: the result is 0 or a group of an earlier lookup, whose text
may still be on the stack (`stack`). `reg_tid` returns the record behind the array (`Ghost`); a thread
resumed through it stays where it is ("lost"). Tids are not reused and no process dies before its first
stop; `Session` has one that does.

### Report

| code | model |
|---|---|
| `read_config_file`, `process_line` | `ReadLine`; `ReadArg` is one iteration of its loop; `AddFunction` follows it |
| `eat_spaces`, `str2type`, `start_of_arg_sig` | `EatSpaces`, `Str2Type`, `StartOfArgSig`, on tokens |
| `name2func` | `Name2Func` |
| the loops over the arguments in `output_left` and `output_right` | `LeftArgs`, `RightArgs`, as sets; `Half` shows them in order |
| `thr->stack_pointer`, `gimme_arg` | `stack_pointer`: the call at whose entry it was read; `from` of an argument |
| `umovestr`, `display_string`, `display_stringN`, `display_format` | `Umovestr`, `DisplayString`, `What`, `DisplayFormat` |
| `calc_time_spent`, `current_time_spent` | `TimeSpent`, the variable of this name |
| `dict_opt_c`, its update in `output_right`; `show_summary` | `dict_opt_c`, `CountCall`; `ShowSummary` with `Row`, `Sorted`, `TotUsecs` |
| `begin_of_line` with -r | `BeginOfLine`, `Since` |

A line of a configuration file is a sequence of tokens (words, spaces, punctuation), a text a sequence of
characters. `Stated` are prototypes and `Text` the line that states one; `file`, the lines read, is
history, and `LastStatementHolds` compares the two ends. `shown` keeps for each call what was shown of
it. `calc_time_spent` adds a second where it should borrow one (`process_event.c:192`); `report_elapsed`
shows it, and `TimeShown` says what -T still gets right. The table and the summary of -c are compared with
the times that were found (`spent`), so that they say whether the sums are right. An argument shown on
return is read at the stack pointer of the last entry, which may be another call's; `OwnArgs` has the cases
in which it is not. Memory that PTRACE_PEEKTEXT cannot read is copied as `\377` (`Unread`), beyond every
limit, so a text that points or runs there is one that goes on with them; an address of 0 (`null`) shows
NULL. A call is entered and left with `TimedEntry` and `TimedReturn` of `CallTimes`, to which `Enter` and
`Return` add the arguments.

## Runs

Sizes are distinct states.

| run | instance | size | shows |
|---|---|---|---|
| `tracer_memory` | three addresses: a function with two names, a return site, and an address that is both; all of `Env`; 3 frames | 963135 | `TypeOK`, `RefCount`, `PlantedIff`, `CleanDetach` |
| `tracer_calls` | two functions, two sites, two nested calls, 3 frames, longjmp and tail calls | 851065 | `CallsSeen`, `LiveCallsKept`, `NeverDerailed`, `SyscallFramesMatchKernel` |
| `tracer_flow` | two functions, two sites, three nested calls, plain calls and returns, 4 frames | 27639 | `ImplementsCallFlow`, `LiftedIsReplanted`, `InterruptReleases` |
| `tracer_signals` | as `tracer_calls`, with signals | violation | `CallsSeen`: a call goes unseen |
| `table_dict` | a program with up to three functions of two names at three addresses and one other symbol, one library, every -e, -L and -l, one frame per address | 206492 | `TypeOK`, `CountsWanted`, `TracesFunctions`, `ImplementsBreakpoints` |
| `output_lines` | two threads, two frames each, four calls, -S on or off | 793902 | `TypeOK`, `ImplementsLineDisplay` |
| `session_ends` | two words on the command line, a command and two processes that may be given with -p, two directories | 223696 | `TypeOK`, `EventsHaveProcess`, `LeavesNoInt3`, `AnalysedIsExecuted`, `AlarmStopsCommands`, `InterruptEnds` |
| `session_detach` | one process of -p and a command | violation | `CtrlCDetaches`: utrace crashes after the first detach and the second process is killed |
| `lookup_owners` | a command and three processes of -p, a cache of four | 7889 | `TypeOK`, `CacheTrue`, `OwnersFound`, `StopHandled` |
| `lookup_many` | the same, a cache of three | violation | `RunsUntilExit`: the exit of an evicted process ends utrace |
| `report` | two lines of configuration out of nine, two functions, three calls in two frames, five ticks; or a text of two pieces out of nine, -s of 2 or 6, lengths from -4 to 3 | 401590 | `PrototypesSound`, `LastStatementHolds`, `TableAddsUp`, `RelativeTimesAddUp`, `SummaryRight`, `SummaryShown`, `EachArgOnce`, `OwnArgs`, `TextsShown`, `FormatsShown`, `TimeShown` |
| `report_elapsed` | one line of configuration, two calls | violation | `TimeIsElapsed`: a call is shown two seconds too long |

Why the bounds are enough. In `CallTracer` the interesting cases are: two users of one breakpoint (two
names, a name and a frame, two frames), a pop of more than one frame, a frame refused, and a breakpoint
lifted while something else happens; all are reached with three or four addresses and three frames, and
the mutants listed in `PROJECT.json` show that each property notices when one goes wrong. `MaxStack`
bounds the program, not the tracer: stale frames of longjmp fill the tracer's stack to its limit. The
limit, 99 frames in the code, is `MaxDepth`; what depends on it happens at the limit or below it. In
`BreakpointTable` three symbols let -e drop the first, the last, neighbours, or all, and share an address or
a bucket, and one symbol of each other kind may lie anywhere between them; it stops when a file is refused
or all breakpoints are disabled, which is why deadlock is not checked there. In
`Output` two threads and four calls are needed for a call to be cut, another to be cut inside it and both
to be resumed; the proof covers the rest. In `Session` three processes are needed for the alarm to walk
past an entry of -p on either side of another; in `Startup` two words are two processes, the same
one twice, or one and an option more. There the alarm goes off in the loop only: the start takes less than
its second. `session_detach` starts from `Init`, with everybody opened. In
`EventLookup` the cache is smaller, and its relation to the number of processes is what counts; the
proof covers the sizes.

`Report` takes apart what does not meet: the clock runs only with -T or -c, the files are read only
without, and a program with a text makes one call and has one line of configuration. A second has three
microseconds (`UsecPerSec`), so that a call can wrap them, carry exactly to the full second and take none
at all, and a word has 32 values (`WordSize`), an int 16 of each sign. In the run the times exceed an int
and not a word; a sum that wraps needs 4294 seconds of calls and is only described by `TotUsecs`. Three
calls in two frames are a nested call, a refused push, a longjmp out of an inner call and two calls of one
function. The nine lines have a + on the first, the second and no argument, a function stated twice,
`MaxArgs` exceeded, missing and doubled parentheses, and an argument without a type; the nine pieces each
way a conversion may end, and memory that cannot be read, and -s of 2 cuts inside them. `Report` stops when
the summary is printed and, at the bounds, when all calls have returned, so deadlock is not checked there.

`CallsSeen`, `LiveCallsKept` and `SyscallFramesMatchKernel` say nothing about calls beyond the nesting
limit (`tooDeep`), for which utrace prints an error. Signals are left out of `tracer_calls` because with
them `CallsSeen` and `NeverDerailed` do not hold; `tracer_signals` shows why. `tracer_memory` has
signals: whatever they do to the calls, the text stays right.

## Fairness

- `WF(Tracer)`, `WF(Handle(p))`, `WF(LetGo)`, `WF(Exit)`: utrace is a loop around a blocking `waitpid`,
  and no handler blocks. For several processes, `waitpid(-1)` overlooks no stopped child for ever.
- `WF` of a single step: a thread resumed with PTRACE_SINGLESTEP executes an instruction or stops.
- `SF(TakeStop)`: a pending SIGSTOP cannot be blocked and is dequeued on the way to user mode. It has to
  be strong fairness because the thread keeps stopping for other reasons.
- `WF(stopPending /\ SysLeave)`: a pending SIGSTOP interrupts a system call. Without it a thread may
  stay in a call for ever.
- `WF(SignalAlarm)`: `alarm(1)` goes off. `Startup` adds no fairness: the start may end in any way, and
  `InterruptEnds` speaks of interrupts in the loop, all others being `missed`.

Nothing is assumed of the program: it may loop without calls, or never end.

## Proofs

All for every set of addresses, threads or processes, every nesting limit and every environment, from
the `ASSUME`s of the modules (TLC evaluates them in the runs).

- **`RefCountCorrect`, `TypeCorrect`** (`Counts` = `TypeOK /\ RefCount`). That no count goes below 0,
  the assertion at `breakpoints.c:58`, needs `RefCount`: a pop may decrement only because the popped
  frames are among the users counted. Lemmas `RefsPush` and `RefsCut` say how the references held by a
  stack change when it grows by a frame and when it is cut.
- **`PlantedCorrect`, `DetachCorrect`** (`MemoryInv` adds `Memory` to `Counts`). `PlantedIff` alone is
  not inductive: one must know that nothing is planted or lifted before the first event, that breakpoints
  are disabled only in a process that has been let go, and that a lifted breakpoint is still in use, or
  its reinsertion would plant an int3 nobody counts.
- **`NeverDerailedWithoutSignals`** (`TrackInv` adds `OnTrack`), under the assumption that `Env` has no
  "signal". It relates the instruction pointer, the lifted breakpoint and the kind of stop: a single step
  starts at the lifted breakpoint, and a trap on an int3 happens only when none is lifted.
- **`SyscallFramesFollowKernel`** (`Pairing`), if `Env` has no "sigreturn", which restores the registers
  with ORIG_EAX = -1 and leaves a frame behind for good. The invariant says at each kind of stop what
  `insys`, ORIG_EAX and the top frame have to do with each other; a frame is missing only where a push was
  refused.
- **`NoCallMissed`, `NoLiveCallPopped`** (`CallsInv` = `TrackInv` with `Calls`), if `Env` has no "signal"
  (`tracer_signals` shows why) and no "untraced", and no return site is an entry: a return there is taken
  for a call, a call for a return. Longjmp, tail calls and sigreturn are allowed. `Seen` is kept because
  the int3 of an entry is in memory until the call is on record (`AllSeen`). `Kept` has a frame for each
  call on record, in order, and after a return one more above them all that returns to `pc`: the search from
  the top stops there or higher, so it pops none of theirs.
- **`TracerImplementsCallFlow`** (`FlowInv`), for plain calls and returns nested within the limit
  (`PlainCalls`: `MaxStack < MaxDepth`). `Matched` counts the frames: as many as calls, one more while a
  return waits for its handler, one less while a call does. The display is up to date exactly when
  neither waits (`CaughtIff`), and then only does the program go on (`UpToDate`).
- **`TableTypeCorrect`, `CountsAlwaysWanted`, `TableRefinesBreakpoints`** (`TableInv`), for every hash
  function, number of buckets, list and -e. `Filed` says that an entry is in the bucket of its key and the
  only one; then what a search finds does not depend on the order (`Searching`, `Finding`). `ListOK` and
  `CountsOK` say how far the two loops are. Dropping a symbol renumbers those behind it; the lemma
  `Dropping` gives the bijection that keeps the number of the wanted ones.
- **`OutputTypeCorrect`, `OutputRefinesDisplay`** (`DisplayInv`). A displayed frame's left half is either
  pending, at the thread and depth of the statics, or on a line of its own at the frame's depth; a call is
  in one frame at most; numbers are below `calls`. Then each event is a step of `LineDisplay` or none.
- **`LookupTypeCorrect`** needs no assumption on sizes. **`OwnersAlwaysFound`, `CacheAlwaysTrue`**
  (`LookupInv`) assume that the tids are no more than the cache entries and that each is its own group.
  A thread that was seen is in the cache for good (`Known`); the pigeonhole principle leaves room for one
  that was not (`Room`). The run `lookup_many` shows that the first assumption is needed.
- **`FileTypeCorrect`, `ChosenFunctionsTraced`, `CountsWantedOfFile`, `FileRefinesBreakpoints`**
  (`ElfInv`). While the file is read the table is as it began, and the list has the functions of `defined`
  backwards (`Eligible` accepts that one kind only), of which the second speaks when there is no -l; from
  then on `TableInv` holds. The lemma that carries
  it over counts the wanted functions of a list and of its reverse.
- **`SessionTypeCorrect`, `EventsHaveAProcess`, `NoInt3IsLeft`** (`Inv` of `StartupProofs`), for any
  number of processes up to the size of the cache, and any options and directories. What the first claims
  of events it claims with the exceptions above, and the last is about exit(0) only. That the list has
  nobody twice (`ListInv`) makes `Without` remove all of a process, and bounds its length. A process of -p
  may be given twice; `StartingInv` says that one who is listed before the loop cannot be attached to
  again. `EarlyInv` says who is there before the attaches, `NameInv` speaks of the one process between
  PTRACE_ATTACH and `pid2name`, `LetGoInv` of the one that is being let go, and `FreeInv` says that nobody
  who is free has a breakpoint. `Accounted` says why an event of a process finds its entry or does not:
  listed, never named, let go, or displaced.
- **`AnalysedFileIsExecuted`** (`SearchInv`): between `search_for_command` and the fork, `analysed` is its
  result. The first hit of both searches is the same when there is one; when there is none `execvp` fails.
- **`PrototypesAreSound`** (`ConfigInv`), for every set of lines. It needs that `params_right` is counted
  together with the arguments.
- **`TableOfTimesAddsUp`, `RelativeTimesAreRight`, `TimesAreShown`** (`TimesInv`), for every length of a
  second. What is proved of -T is that the microseconds are right, since an error of whole seconds leaves
  the remainder (`Remainder`), and all of the time where there is nothing to borrow. In the invariant each
  recorded time has microseconds below a second, the table agrees with the history, and so do the lines;
  the borrow and the carry are then lemmas of integer division.
- **`ArgumentsAreOwn`, `EachArgumentOnce`** (`ShownInv`, with `ConfigInv`). Frames refer to distinct calls
  that have not returned; such a call has shown its left half, one that returned both; and `stack_pointer`
  is the last call entered, which is the call itself when none was entered since. The list of prototypes
  does not change once a call is made.
- **`AlarmReachesCommands`**: an action property. The walk over the list is a recursive function; a
  least set of places closed under its step shows that it exists; then, of each process of the list, the
  walk either takes it or steps over it because it is of -p, so that what it skips needs no SIGSTOP.
- **`LastStatementIsUsed`** (`StatedInv` with `ConfigInv`), for every set of statements and of other lines.
  `Text(d)` is described token by token, which needs the length of what precedes each argument
  (`PiecedIs`); `Building` says that in the loop `fun` is the statement up to some argument and that
  the next place without a space is that of the next argument, so that no `SyntaxError` can drop the
  line; `Settled` says it of the lines that are done with. `StatedAssumption` says which prototypes a
  line can state: with a name of one word and no more arguments than MAX_ARGS.
- **`SummaryIsLostOnlySo`, `SummaryIsRight`** (`TimesInv` with `TallyInv`, `SummaryInv`), for every clock,
  number of calls and size of a word. `TallyInv`: no recorded time is negative, the table is finite, and
  who is in it has returned. `SummaryInv`: what was printed is what would be printed now, since nothing
  runs after it. Below them lie lemmas on sums over finite sets: the sum exists whatever `CHOOSE` takes
  first, does not depend on the order, and is 0 only when each part is; then each share loses less than
  one part, so all of them less than one part a line.
- **`TextsAreShown`** (`TextsInv` with `ShownInv`), for every text, -s up to INT_MAX and length: each
  argument shown is what its type makes of the one text, which has not changed since; a beginning of a
  beginning is a beginning (`BeginningOf`).
- **`FormatsAreShown`** (`TextsInv`), for every format made of characters and of the conversions
  `display_format` knows (`PieceAssumption`). What it shows from a place on is a recursive function, which
  exists because each of its values depends on earlier ones only (`CourseExists`); a piece adds its
  values to what is shown after it (`PieceIs`); so what is shown of the whole is the values of the
  first pieces and what is shown after those, up to the first real (`FormatIs`).

Only model-checked: liveness (out of this prover's reach): `StopHandled`, `InterruptEnds`,
`LiftedIsReplanted` and `InterruptReleases`.

## Findings

Four runs end in a violation; `PROJECT.json` quotes the documents they contradict.

1. `process_event.c:115`: a signal during the single step over a breakpoint loses the step, and a call.
2. `process_event.c:110`: use of freed memory on Ctrl-C; the remaining processes keep their int3s.
3. `sysdeps/linux-gnu/proc.c:202`: with more than ten processes, the exit of one ends the trace of all.
4. `process_event.c:192`: a call that needs a borrow of a second is shown two seconds too long, against
   `ltrace.1:120`, "the time difference between the beginning and the end of each call".

Others were met in the source while modelling. The models have them, and the properties are stated with the
exceptions they make necessary; they have no run of their own.

- `wait_for_something.c:69`: a command that Ctrl-C has let go is still a child of utrace. Its end is an
  event of nobody on the list, so utrace does exit(1), and a process of -p that has not been detached yet
  keeps its int3s. It is one of the exceptions in `EventsHaveProcess`.
- `process_event.c:292`, `output.c:286`: an argument that is a returned value is read at the stack pointer of
  the last call entered, so after a nested call it is shown of that one, where `etc/ltrace.conf:4` says of +
  "is a returned value". `OwnArgs` says when it is right.
- `elf.c:319`: -l selects nothing, where `ltrace.1:71` says "Display only the symbols included in the
  library". `TracesFunctions` has no claim when -l is given.
- `output.c:171`: a "resumed>" line prints 0 for the thread id, where `../README.md:48` shows it. The lines of
  `Output` have it in their `tid`.

## Plan

Done: `CallTracer` with `CallFlow`, `BreakpointTable` with `Breakpoints` and `ElfSymbols`, `Output` with
`LineDisplay`, `Session` with `Startup`, `EventLookup`, `Report` with `Prototypes`, `Arguments` and
`CallTimes`.

Next:

1. `Report` for several threads, over `Output`.

## Not modelled

- -f: fork, clone and exec following, and with it threads in slots beyond 0. `process_event.c:212` hands
  `enable_all_breakpoints` a `struct thread` that it takes for a `struct process`, and `proc.c:99` makes
  `get_proc` compute a wrong address for every slot but 0: what happens then is decided by the layout of
  two structs and by the contents of the call stack, which no abstraction of this size has. A second
  `breakpoints_init` after an exec, and the int3 bytes that a child saves as its own, belong to it.
- Malformed ELF files: `elf.c` follows offsets and section numbers of the file unchecked.
- Options that set one number or flag are constants, or are chosen in the initial state, where they
  matter. Lines of the configuration longer than the buffer of `fgets`, and absolute times of -t, are
  left out. So is `my_demangle`.
- Descriptors: `sysdeps/linux-gnu/proc.c:193` leaks one for each uncached lookup.
- The other architectures: the tool's changes to `struct thread` were made for i386 only, and most of
  `sysdeps` still has the signatures of ltrace.
- `demangle.c` (a call of libiberty), `debug.c` (logging), `configure` and the makefiles.
