---- MODULE Startup ----
(***************************************************************************)
(* From the command line to the main loop: process_options (options.c),    *)
(* main (ltrace.c), execute_program.c, and open_program and open_pid       *)
(* (proc.c), one process after the other, while the processes that are     *)
(* attached already run and Ctrl-C may come.  Then Session goes on.        *)
(*                                                                         *)
(* Each way out of the start is an exit(1), or exit(0) for -h and -V, that *)
(* leaves whoever is attached to the kernel.                               *)
(***************************************************************************)
EXTENDS Session

CONSTANTS
  Dir,         \* directories of the PATH; Cwd is one
  Cwd,
  Nowhere,     \* no file
  MaxLibrary,  \* MAX_LIBRARY
  MaxWords     \* bound of the model: words of the command line

ASSUME StartAssumption ==
  Cwd \in Dir /\ Nowhere \notin Dir /\ MaxLibrary \in Nat /\ MaxWords \in Nat

VARIABLES
  words,       \* how many words are parsed
  given,       \* which of -r and -t were given
  library_num, \* how many -l
  opt_p_tmp,   \* the entry of opt_p that main attaches to
  analysed,    \* where the file is that open_program reads
  path, found  \* the environment: the PATH, or Unset, and where the command is

startVars == <<words, given, library_num, opt_p_tmp, analysed, path, found>>
allVars == <<vars, startVars>>

Unset == << >>
Paths == {Unset} \cup [1..1 -> Dir] \cup [1..2 -> Dir]

----
(* options.c.                                                              *)

Quit == at' = "exited"

Parsing == at = "options"

\* -p: the process becomes the head of opt_p
OptionP(p) ==
  /\ opt_p' = <<p>> \o opt_p
  /\ UNCHANGED <<at, given, library_num>>

OptionL ==
  /\ IF library_num = MaxLibrary THEN Quit /\ UNCHANGED library_num
     ELSE library_num' = library_num + 1 /\ UNCHANGED at
  /\ UNCHANGED <<opt_p, given>>

\* -r or -t
OptionTime(o) ==
  /\ given' = given \cup {o}
  /\ UNCHANGED <<at, opt_p, library_num>>

\* -h and -V, an option that is none, a file of -o that cannot be opened
OptionExits == Quit /\ UNCHANGED <<opt_p, given, library_num>>

ReadOption ==
  /\ Parsing /\ words < MaxWords
  /\ words' = words + 1
  /\ \/ \E p \in Proc \ {Command} : OptionP(p)
     \/ OptionL
     \/ \E o \in {"r", "t"} : OptionTime(o)
     \/ OptionExits
  /\ UNCHANGED <<list_of_processes, enabled, exiting, alarm, missed, unnamed, cur, state, sigstop,
                 opt_p_tmp, analysed, path, found>>

\* Mutant: the last directory that has the file
SearchForCommand_Last(PATH, files) ==
  LET hits == {i \in DOMAIN PATH : PATH[i] \in files}
  IN IF hits = {} THEN Cwd ELSE PATH[CHOOSE i \in hits : \A j \in hits : i >= j]

\* search_for_command: the first directory of PATH that has the file; else the
\* name as it is, a file of the working directory
SearchForCommand(PATH, files) ==
  LET hits == {i \in DOMAIN PATH : PATH[i] \in files}
  IN IF hits = {} THEN Cwd ELSE PATH[CHOOSE i \in hits : \A j \in hits : i <= j]

\* The end of process_options: too few arguments, -r with -t, or the command
EndOptions(hasCommand) ==
  /\ Parsing
  /\ IF (opt_p = << >> /\ ~hasCommand) \/ given = {"r", "t"}
     THEN Quit /\ UNCHANGED <<path, found, analysed>>
     ELSE IF hasCommand
     THEN /\ at' = "open"
          /\ \E PATH \in Paths, files \in SUBSET Dir :
               path' = PATH /\ found' = files /\ analysed' = SearchForCommand(PATH, files)
     ELSE at' = "attach" /\ UNCHANGED <<path, found, analysed>>
  \* What only the options look at is forgotten
  /\ words' = 0 /\ given' = {} /\ library_num' = 0
  /\ UNCHANGED <<opt_p, list_of_processes, enabled, exiting, alarm, missed, unnamed, cur, state,
                 sigstop, opt_p_tmp>>

----
(* ltrace.c, execute_program.c and proc.c.                                 *)

Listing(p) == list_of_processes' = <<p>> \o list_of_processes

\* open_program of the command: do_init_elf may refuse the file
OpenCommand ==
  /\ at = "open"
  /\ \/ Quit /\ UNCHANGED list_of_processes
     \/ analysed \in found /\ at' = "fork" /\ Listing(Command)
  /\ UNCHANGED <<opt_p, enabled, exiting, alarm, missed, unnamed, cur, state, sigstop, startVars>>

\* What execvp runs (external).  A name with a slash is a file; a bare one,
\* of which Cwd is what open_program read, is searched once more, in a
\* default of its own when PATH is not set
Executed ==
  LET hits == {i \in DOMAIN path : path[i] \in found}
  IN IF analysed # Cwd THEN {analysed}
     ELSE IF path = Unset THEN {Nowhere} \cup (found \ {Cwd})
     ELSE IF hits = {} THEN {Nowhere}
     ELSE {path[CHOOSE i \in hits : \A j \in hits : i <= j]}

\* The child exits when change_uid, trace_me or execvp fail, with nobody but
\* its exit status to tell
ChildExits == Becomes(Command, "zombie")

\* execute_program: the child stops at its exec, or it exits
Fork ==
  /\ at = "fork"
  /\ \/ Quit /\ UNCHANGED state
     \/ /\ at' = "attach"
        /\ \/ ChildExits
           \/ Executed # {Nowhere} /\ Becomes(Command, "other")
  /\ path' = Unset /\ found' = {} /\ analysed' = Nowhere
  /\ UNCHANGED <<opt_p, list_of_processes, enabled, exiting, alarm, missed, unnamed, cur, sigstop,
                 words, given, library_num, opt_p_tmp>>

Opening == opt_p[opt_p_tmp]
NextOptP == opt_p_tmp' = opt_p_tmp + 1

\* Whom PTRACE_ATTACH may take: nobody it traces already
Attachable == Detached

\* trace_pid in open_pid; the kernel may refuse any process.  One that is
\* stopped reports that at once
Attach ==
  /\ at = "attach" /\ opt_p_tmp <= Len(opt_p)
  /\ \/ NextOptP /\ UNCHANGED <<at, state, sigstop>>
     \/ /\ state[Opening] \in Attachable
        /\ Becomes(Opening, "run")
        /\ sigstop' = [sigstop EXCEPT ![Opening] = TRUE]
        /\ at' = "name" /\ UNCHANGED opt_p_tmp
  /\ UNCHANGED <<opt_p, list_of_processes, enabled, exiting, alarm, missed, unnamed, cur,
                 words, given, library_num, analysed, path, found>>

\* pid2name finds no /proc/PID/exe
Nameless(p) == state[p] = "zombie"

\* The rest of open_pid.  pid2name fails for a process that was killed
\* meanwhile, which is then traced and not listed; do_init_elf may refuse it
OpenPid ==
  /\ at = "name"
  /\ IF Nameless(Opening)
     THEN /\ unnamed' = unnamed \cup {Opening}
          /\ at' = "attach" /\ NextOptP
          /\ UNCHANGED list_of_processes
     ELSE \/ Quit /\ UNCHANGED <<list_of_processes, unnamed, opt_p_tmp>>
          \/ at' = "attach" /\ NextOptP /\ Listing(Opening) /\ UNCHANGED unnamed
  /\ UNCHANGED <<opt_p, enabled, exiting, alarm, missed, cur, state, sigstop,
                 words, given, library_num, analysed, path, found>>

\* main enters its loop
EnterLoop ==
  /\ at = "attach" /\ opt_p_tmp > Len(opt_p)
  /\ at' = "loop"
  /\ opt_p_tmp' = 1
  /\ UNCHANGED <<opt_p, list_of_processes, enabled, exiting, alarm, missed, unnamed, cur, state,
                 sigstop, words, given, library_num, analysed, path, found>>

----

StartInit ==
  /\ Fresh
  /\ opt_p = << >> /\ list_of_processes = << >>
  /\ at = "options"
  /\ state \in {s \in [Proc -> {"unborn", "free", "dead"}] :
                  \A p \in Proc : s[p] = "unborn" <=> p = Command}
  /\ sigstop = [p \in Proc |-> FALSE]
  /\ words = 0 /\ given = {} /\ library_num = 0 /\ opt_p_tmp = 1
  /\ analysed = Nowhere /\ path = Unset /\ found = {}

StartNext ==
  \/ ReadOption
  \/ \E hasCommand \in BOOLEAN : EndOptions(hasCommand)
  \/ OpenCommand
  \/ Fork
  \/ Attach
  \/ OpenPid
  \/ EnterLoop
  \/ Next /\ UNCHANGED startVars

StartSpec == StartInit /\ [][StartNext]_allVars /\ Fairness

----
(* Properties.                                                             *)

\* The file whose symbols become breakpoints is the one the child executes,
\* if it executes any, as long as PATH is set (options.c 121-151,
\* execute_program.c 84, proc.c 17-35).
AnalysedIsExecuted ==
  at = "fork" /\ path # Unset => Executed \subseteq {analysed, Nowhere}

====
