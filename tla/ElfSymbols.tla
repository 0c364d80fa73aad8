---- MODULE ElfSymbols ----
(***************************************************************************)
(* Where the breakpoints come from: -e, -L and -l on the command line, and *)
(* read_elf (elf.c), which breakpoints_init calls for the file of the      *)
(* process.  The list it returns goes through BreakpointTable.             *)
(*                                                                         *)
(* What a file holds is chosen when it is read: the kind of file when it   *)
(* is opened, a symbol when the loop comes to it.                          *)
(***************************************************************************)
EXTENDS BreakpointTable

CONSTANTS
  MaxLibrary, \* MAX_LIBRARY
  MaxOthers   \* bound of the model: symbols that are no global functions

ASSUME ElfAssumption == MaxLibrary \in Nat /\ MaxOthers \in Nat

VARIABLES
  stage,         \* "options", "open", "sections", "libraries", "symbols", "read", "exited"
  opt_L,
  library_num,   \* how many -l
  opened,        \* how many of those are opened
  local_symtab,  \* whether read_elf has a symbol table to walk
  defined,       \* history: the global functions that the file defines
  others         \* history: how many symbols were something else

elfVars == <<stage, opt_L, library_num, opened, local_symtab, defined, others>>
tableVars == <<buckets, breakpoints_enabled, held, text>>
allVars == <<vars, elfVars>>

----
(* options.c.                                                              *)

\* -e: one ! turns every -e around, those before it, too
OptionE(bang, names) ==
  /\ opt_e' = opt_e \cup names
  /\ opt_e_enable' = (opt_e_enable /\ ~bang)
  /\ UNCHANGED <<opt_L, library_num, stage>>

\* -l
OptionLibrary ==
  /\ IF library_num = MaxLibrary THEN stage' = "exited" /\ UNCHANGED library_num
     ELSE library_num' = library_num + 1 /\ UNCHANGED stage
  /\ UNCHANGED <<opt_L, opt_e, opt_e_enable>>

\* -L
OptionL ==
  /\ opt_L' = FALSE
  /\ UNCHANGED <<library_num, stage, opt_e, opt_e_enable>>

ReadOption ==
  /\ stage = "options"
  /\ \/ \E bang \in BOOLEAN, names \in SUBSET Name : OptionE(bang, names)
     \/ OptionLibrary
     \/ OptionL
  /\ UNCHANGED <<read, list_of_symbols, pos, phase, tableVars, opened, local_symtab, defined,
                 others>>

\* breakpoints_init of the first process
BreakpointsInit ==
  /\ stage = "options"
  /\ stage' = IF opt_L THEN "open" ELSE "read"
  /\ UNCHANGED <<vars, opt_L, library_num, opened, local_symtab, defined, others>>

----
(* elf.c.                                                                  *)

\* What open, fstat, mmap and the first bytes say (external)
File == {"missing", "directory", "short", "foreign", "ELF"}

\* do_init_elf of a file: every check but the last one passed ends in exit(1)
InitElf(next) ==
  \E file \in File : stage' = IF file = "ELF" THEN next ELSE "exited"

OpenProgram ==
  /\ stage = "open"
  /\ InitElf("sections")
  /\ UNCHANGED <<vars, opt_L, library_num, opened, local_symtab, defined, others>>

\* do_load_elf_symtab.  A file has at most one section of each type, and a
\* stripped one has no SYMTAB; what is loaded of a DYNSYM is not used
LoadElfSymtab(load_local) ==
  \E types \in SUBSET {"DYNSYM", "SYMTAB"} :
    local_symtab' = IF load_local THEN "SYMTAB" \in types ELSE local_symtab

LoadProgram ==
  /\ stage = "sections"
  /\ LoadElfSymtab(TRUE)
  /\ stage' = "libraries"
  /\ UNCHANGED <<vars, opt_L, library_num, opened, defined, others>>

\* do_init_load_libraries
LoadLibrary ==
  /\ stage = "libraries" /\ opened < library_num
  /\ InitElf("libraries")
  /\ opened' = opened + 1
  /\ LoadElfSymtab(FALSE)
  /\ UNCHANGED <<vars, opt_L, library_num, defined, others>>

\* The loop over the dynamic symbols, which asks in_load_libraries of each and
\* adds none
DynamicSymbols ==
  /\ stage = "libraries" /\ opened = library_num
  /\ stage' = "symbols"
  /\ UNCHANGED <<vars, opt_L, library_num, opened, local_symtab, defined, others>>

\* What the linker writes of each kind of symbol (external)
Kind == {"function", "static function", "weak function", "variable", "label", "imported",
         "hidden function", "section"}

ElfSym(kind) ==
  [value   |-> kind # "section",
   size    |-> kind \notin {"label", "imported", "section"},
   other   |-> IF kind = "hidden function" THEN "HIDDEN" ELSE "DEFAULT",
   section |-> CASE kind = "variable" -> ".data" [] kind = "imported" -> "" [] OTHER -> ".text",
   type    |-> CASE kind = "variable" -> "OBJECT" [] kind \in {"label", "section"} -> "NOTYPE"
                 [] OTHER -> "FUNC",
   bind    |-> CASE kind \in {"static function", "section"} -> "LOCAL"
                 [] kind = "weak function" -> "WEAK" [] OTHER -> "GLOBAL"]

\* Mutant: weak symbols and static ones, too
Eligible_AnyBinding(s) ==
  s.value /\ s.size /\ s.other = "DEFAULT" /\ s.section = ".text" /\ s.type = "FUNC"

Eligible(s) ==
  s.value /\ s.size /\ s.other = "DEFAULT" /\ s.section = ".text" /\ s.type = "FUNC"
    /\ s.bind = "GLOBAL"

\* add_local_symbol: to the head of the list
AddLocalSymbol(symbol) == list_of_symbols' = <<symbol>> \o list_of_symbols

\* One turn of the loop over the local symbols
LocalSymbol(kind, symbol) ==
  /\ stage = "symbols" /\ local_symtab
  /\ IF kind = "function"
     THEN /\ Len(defined) < MaxSymbols
          /\ defined' = Append(defined, symbol) /\ UNCHANGED others
     ELSE /\ others < MaxOthers
          /\ others' = others + 1 /\ UNCHANGED defined
  /\ IF Eligible(ElfSym(kind)) THEN AddLocalSymbol(symbol) ELSE UNCHANGED list_of_symbols
  /\ UNCHANGED <<opt_e, opt_e_enable, read, pos, phase, tableVars, stage, opt_L, library_num,
                 opened, local_symtab>>

\* read_elf returns; lte is gone
EndReadElf ==
  /\ stage = "symbols"
  /\ stage' = "read"
  /\ read' = list_of_symbols
  /\ others' = 0 /\ opened' = 0 /\ local_symtab' = FALSE
  /\ UNCHANGED <<opt_e, opt_e_enable, list_of_symbols, pos, phase, tableVars, opt_L, library_num,
                 defined>>

----

ElfInit ==
  /\ opt_e = {} /\ opt_e_enable = TRUE
  /\ read = << >> /\ list_of_symbols = << >>
  /\ pos = 1 /\ phase = "filter"
  /\ buckets = [h \in 0..(TableSize - 1) |-> << >>]
  /\ breakpoints_enabled = -1
  /\ held = [a \in Addr |-> 0]
  /\ text = [a \in Addr |-> "code"]
  /\ stage = "options" /\ opt_L = TRUE /\ library_num = 0
  /\ opened = 0 /\ local_symtab = FALSE /\ defined = << >> /\ others = 0

ReadElf ==
  \/ OpenProgram \/ LoadProgram \/ LoadLibrary \/ DynamicSymbols
  \/ \E kind \in Kind, symbol \in Symbol : LocalSymbol(kind, symbol)
  \/ EndReadElf

ElfNext ==
  \/ ReadOption
  \/ BreakpointsInit
  \/ ReadElf
  \/ stage = "read" /\ Next /\ UNCHANGED elfVars

ElfSpec == ElfInit /\ [][ElfNext]_allVars

----
(* Properties.                                                             *)

\* ltrace.1 of -e and -L, of the functions of the program
Chosen(s) == opt_L /\ Wanted(s)

\* Without -l, the breakpoints that no frame holds are those of the functions
\* that the program defines for others and that the command line chooses, one
\* reference for each name: what elf.c reads reaches the table whole and nothing
\* else does, no data, in which an int3 would change a value
\* (elf.c 289-361, breakpoints.c 132-153).  With -l the breakpoints are the
\* same, where ltrace.1 71 promises those of the library only.
TracesFunctions ==
  phase = "trace" /\ library_num = 0 =>
    \A x \in Addr :
      Count(x) = held[x] +
        Cardinality({i \in 1..Len(defined) : defined[i].addr = x /\ Chosen(defined[i])})

====
