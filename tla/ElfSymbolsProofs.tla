---- MODULE ElfSymbolsProofs ----
(***************************************************************************)
(* From the file to the int3s: for every file that read_elf accepts, every *)
(* -e, -L and -l, every hash function and depth of the call stacks, the    *)
(* breakpoints are those of the functions asked for.                       *)
(***************************************************************************)
EXTENDS ElfSymbols, BreakpointTableProofs

----
(* The inductive invariant.                                                *)

Backwards(s) == [i \in 1..Len(s) |-> s[Len(s) + 1 - i]]

\* The table, before breakpoints_init has a list to insert
Untouched ==
  /\ opt_e \in SUBSET Name /\ opt_e_enable \in BOOLEAN
  /\ pos = 1 /\ phase = "filter"
  /\ buckets = [h \in 0..(TableSize - 1) |-> << >>]
  /\ breakpoints_enabled = -1
  /\ held = [a \in Addr |-> 0]
  /\ text = [a \in Addr |-> "code"]

Reading == Untouched /\ read = << >> /\ list_of_symbols = Backwards(defined)

DefinedOK ==
  /\ defined \in Seq(Symbol) /\ Len(defined) <= MaxSymbols
  /\ stage \in {"options", "open", "sections", "libraries", "symbols", "read", "exited"}
  /\ stage = "options" => defined = << >>
  /\ stage \in {"open", "sections", "libraries", "symbols"} => opt_L
  /\ stage = "read" /\ ~opt_L => defined = << >>

ElfInv ==
  /\ DefinedOK
  /\ IF stage = "read" THEN TableInv /\ read = Backwards(defined) ELSE Reading

----
(* Sequences built from the end.                                           *)

LEMMA BackwardsType ==
  ASSUME NEW s \in Seq(Symbol)
  PROVE  /\ Len(s) \in Nat
         /\ Backwards(s) \in [1..Len(s) -> Symbol]
         /\ Backwards(s) \in Seq(Symbol) /\ Len(Backwards(s)) = Len(s)
         /\ \A i \in 1..Len(s) : Backwards(s)[i] = s[Len(s) + 1 - i] /\ s[Len(s) + 1 - i] \in Symbol
<1>1. Len(s) \in Nat
  BY LenProperties
<1>2. ASSUME NEW i \in 1..Len(s)
      PROVE  s[Len(s) + 1 - i] \in Symbol
  <2>1. Len(s) + 1 - i \in 1..Len(s)
    BY <1>1
  <2> QED
    BY <2>1, ElementOfSeq
<1>3. Backwards(s) \in [1..Len(s) -> Symbol]
  BY <1>2 DEF Backwards
<1>4. Backwards(s) \in Seq(Symbol)
  BY <1>1, <1>3, SeqDef
<1>5. Len(Backwards(s)) = Len(s)
  BY <1>1, <1>3, <1>4, LenProperties
<1> QED
  BY <1>1, <1>2, <1>3, <1>4, <1>5 DEF Backwards

LEMMA BackwardsNone == Backwards(<< >>) = << >> /\ << >> \in Seq(Symbol) /\ Len(<< >>) = 0
<1>1. << >> \in Seq(Symbol) /\ Len(<< >>) = 0
  BY EmptySeq
<1>2. Backwards(<< >>) \in Seq(Symbol) /\ Len(Backwards(<< >>)) = 0
  BY <1>1, BackwardsType
<1> QED
  BY <1>1, <1>2, EmptySeq

\* What is put at the head of the list is the last of those defined.
LEMMA BackwardsOneMore ==
  ASSUME NEW s \in Seq(Symbol), NEW x \in Symbol
  PROVE  /\ Append(s, x) \in Seq(Symbol) /\ Len(Append(s, x)) = Len(s) + 1
         /\ Backwards(Append(s, x)) = <<x>> \o Backwards(s)
<1> DEFINE n == Len(s)
           t == Append(s, x)
<1>1. /\ n \in Nat
      /\ t \in Seq(Symbol) /\ Len(t) = n + 1 /\ t[n + 1] = x
      /\ \A i \in 1..n : t[i] = s[i]
  BY LenProperties, AppendProperties
<1>2. Backwards(s) \in Seq(Symbol) /\ Len(Backwards(s)) = n
  BY BackwardsType
<1>3. Backwards(t) \in Seq(Symbol) /\ Len(Backwards(t)) = n + 1
  BY <1>1, BackwardsType
<1>4. <<x>> \in Seq(Symbol) /\ Len(<<x>>) = 1 /\ <<x>>[1] = x
  OBVIOUS
<1>5. /\ <<x>> \o Backwards(s) \in Seq(Symbol) /\ Len(<<x>> \o Backwards(s)) = n + 1
      /\ \A i \in 1..(n + 1) :
           (<<x>> \o Backwards(s))[i] = IF i <= 1 THEN <<x>>[i] ELSE Backwards(s)[i - 1]
  BY <1>1, <1>2, <1>4, ConcatProperties
<1>6. ASSUME NEW i \in 1..(n + 1)
      PROVE  Backwards(t)[i] = (<<x>> \o Backwards(s))[i]
  <2>1. Backwards(t)[i] = t[n + 2 - i]
    BY <1>1 DEF Backwards
  <2>2. CASE i = 1
    <3>1. n + 2 - i = n + 1
      BY <1>1, <2>2
    <3> QED
      BY <1>1, <1>4, <1>5, <2>1, <2>2, <3>1
  <2>3. CASE i # 1
    <3>1. n + 2 - i \in 1..n /\ i - 1 \in 1..n /\ n + 1 - (i - 1) = n + 2 - i /\ ~(i <= 1)
      BY <1>1, <2>3
    <3>2. Backwards(s)[i - 1] = s[n + 2 - i]
      BY <3>1 DEF Backwards
    <3> QED
      BY <1>1, <1>5, <2>1, <3>1, <3>2
  <2> QED
    BY <2>2, <2>3
<1>7. Backwards(t) = <<x>> \o Backwards(s)
  BY <1>1, <1>3, <1>5, <1>6, SeqEqual
<1> QED
  BY <1>1, <1>7

\* A list has as many symbols at an address as it has backwards.
LEMMA BackwardsUses ==
  ASSUME NEW s \in Seq(Symbol), NEW a
  PROVE  Uses(Backwards(s), Len(s), a) = Uses(s, Len(s), a)
<1> DEFINE n == Len(s)
           U == Users(s, n, a)
           V == Users(Backwards(s), n, a)
           Turn == [i \in V |-> n + 1 - i]
<1>1. n \in Nat
  BY BackwardsType
<1>2. ASSUME NEW i \in 1..n
      PROVE  Backwards(s)[i] = s[n + 1 - i] /\ n + 1 - i \in 1..n /\ n + 1 - (n + 1 - i) = i
  BY <1>1 DEF Backwards
<1>3. ASSUME NEW i \in V
      PROVE  i \in 1..n /\ n + 1 - i \in U
  <2>1. i \in 1..n /\ Backwards(s)[i].addr = a /\ Wanted(Backwards(s)[i])
    BY DEF Users
  <2> QED
    BY <1>2, <2>1 DEF Users
<1>4. ASSUME NEW j \in U
      PROVE  n + 1 - j \in V /\ Turn[n + 1 - j] = j
  <2>1. j \in 1..n /\ s[j].addr = a /\ Wanted(s[j])
    BY DEF Users
  <2>2. n + 1 - j \in 1..n /\ n + 1 - (n + 1 - j) = j
    BY <1>2, <2>1
  <2>3. Backwards(s)[n + 1 - j] = s[j]
    BY <1>2, <2>2
  <2>4. n + 1 - j \in V
    BY <2>1, <2>2, <2>3 DEF Users
  <2> QED
    BY <2>2, <2>4
<1>5. Turn \in Injection(V, U)
  <2>1. Turn \in [V -> U]
    BY <1>3
  <2>2. ASSUME NEW i \in V, NEW j \in V, Turn[i] = Turn[j]
        PROVE  i = j
    <3>1. i \in 1..n /\ j \in 1..n /\ n + 1 - i = n + 1 - j
      BY <1>3, <2>2
    <3> QED
      BY <1>1, <3>1
  <2> QED
    BY <2>1, <2>2, Fun_IsInj
<1>6. Turn \in Surjection(V, U)
  <2>1. Turn \in [V -> U]
    BY <1>3
  <2>2. \A j \in U : \E i \in V : Turn[i] = j
    BY <1>4
  <2> QED
    BY <2>1, <2>2, Fun_IsSurj
<1>7. ExistsBijection(V, U)
  BY <1>5, <1>6 DEF ExistsBijection, Bijection
<1>8. IsFiniteSet(V)
  BY <1>1, UsesType
<1>9. Cardinality(U) = Cardinality(V)
  BY <1>7, <1>8, FS_Bijection
<1> QED
  BY <1>9 DEF Uses

----
(* The steps before the table is filled.                                   *)

\* A list to insert is an initial state of the table.
LEMMA ReadingFills ==
  ASSUME Untouched, read = list_of_symbols, read = Backwards(defined),
         defined \in Seq(Symbol), Len(defined) <= MaxSymbols
  PROVE  TableInv /\ Table!Init
<1>1. Len(defined) \in 0..MaxSymbols /\ read \in [1..Len(defined) -> Symbol]
  BY BackwardsType, BoundAssumption
<1>2. Init
  BY <1>1 DEF Init, Untouched
<1> QED
  BY <1>2, TableInit

\* The same after a step.
LEMMA ReadingFillsNext ==
  (Untouched /\ read = list_of_symbols /\ read = Backwards(defined)
     /\ defined \in Seq(Symbol) /\ Len(defined) <= MaxSymbols)'
  => TableInv'
<1>1. Untouched /\ read = list_of_symbols /\ read = Backwards(defined)
        /\ defined \in Seq(Symbol) /\ Len(defined) <= MaxSymbols => TableInv
  BY ReadingFills
<1> QED
  BY <1>1, PTL

\* Nothing that the table shows depends on anything but the buckets.
LEMMA TableUntouched == UNCHANGED tableVars => UNCHANGED Table!vars
<1> SUFFICES ASSUME UNCHANGED tableVars
             PROVE  UNCHANGED Table!vars
  OBVIOUS
<1>1. UNCHANGED <<buckets, breakpoints_enabled, held, text>>
  BY DEF tableVars
<1>2. \A a \in Addr : Count(a)' = Count(a) /\ Saved(a)' = Saved(a)
  BY <1>1, BucketsKept
<1> QED
  BY <1>1, <1>2 DEF Table!vars

LEMMA ElfInitially == ElfInit => ElfInv /\ Table!Init
<1> SUFFICES ASSUME ElfInit
             PROVE  ElfInv /\ Table!Init
  OBVIOUS
<1>1. DefinedOK
  BY BackwardsNone, BoundAssumption DEF ElfInit, DefinedOK
<1>2. Untouched
  BY DEF ElfInit, Untouched
<1>3. Reading /\ stage = "options" /\ read = list_of_symbols
  BY <1>2, BackwardsNone DEF ElfInit, Reading
<1>4. Table!Init
  BY <1>1, <1>2, <1>3, BackwardsNone, ReadingFills DEF ElfInit, DefinedOK
<1> QED
  BY <1>1, <1>3, <1>4 DEF ElfInv

LEMMA OptionStep ==
  ASSUME ElfInv, ReadOption
  PROVE  ElfInv' /\ UNCHANGED Table!vars
<1>1. DefinedOK /\ Reading /\ stage = "options"
  BY DEF ReadOption, ElfInv
<1>2. /\ UNCHANGED <<read, list_of_symbols, pos, phase, tableVars, defined>>
      /\ stage' \in {"options", "exited"}
      /\ opt_e' \in SUBSET Name /\ opt_e_enable' \in BOOLEAN
  <2>1. UNCHANGED <<read, list_of_symbols, pos, phase, tableVars, defined>>
    BY DEF ReadOption
  <2>2. opt_e \in SUBSET Name /\ opt_e_enable \in BOOLEAN
    BY <1>1 DEF Reading, Untouched
  <2>3. ASSUME NEW bang \in BOOLEAN, NEW names \in SUBSET Name, OptionE(bang, names)
        PROVE  /\ stage' \in {"options", "exited"}
               /\ opt_e' \in SUBSET Name /\ opt_e_enable' \in BOOLEAN
    BY <1>1, <2>2, <2>3 DEF OptionE
  <2>4. CASE OptionLibrary
    BY <1>1, <2>1, <2>2, <2>4 DEF OptionLibrary
  <2>5. CASE OptionL
    BY <1>1, <2>1, <2>2, <2>5 DEF OptionL
  <2> QED
    BY <2>1, <2>3, <2>4, <2>5 DEF ReadOption
<1>3. DefinedOK'
  BY <1>1, <1>2 DEF DefinedOK
<1>4. Reading'
  BY <1>1, <1>2 DEF Reading, Untouched, tableVars, Backwards
<1>5. stage' # "read"
  BY <1>2
<1> QED
  BY <1>2, <1>3, <1>4, <1>5, TableUntouched DEF ElfInv

\* The stages that only lead to the next one.
LEMMA StageStep ==
  ASSUME ElfInv, OpenProgram \/ LoadProgram \/ LoadLibrary \/ DynamicSymbols
  PROVE  ElfInv' /\ UNCHANGED Table!vars
<1>1. /\ stage \in {"open", "sections", "libraries"}
      /\ stage' \in {"sections", "libraries", "symbols", "exited"}
      /\ UNCHANGED vars /\ opt_L' = opt_L /\ defined' = defined
  <2>1. CASE OpenProgram
    BY <2>1 DEF OpenProgram, InitElf
  <2>2. CASE LoadProgram
    BY <2>2 DEF LoadProgram
  <2>3. CASE LoadLibrary
    BY <2>3 DEF LoadLibrary, InitElf
  <2>4. CASE DynamicSymbols
    BY <2>4 DEF DynamicSymbols
  <2> QED
    BY <2>1, <2>2, <2>3, <2>4
<1>2. DefinedOK /\ Reading
  BY <1>1 DEF ElfInv
<1>3. DefinedOK'
  BY <1>1, <1>2 DEF DefinedOK
<1>4. Reading' /\ UNCHANGED tableVars
  BY <1>1, <1>2 DEF Reading, Untouched, vars, listVars, tableVars, Backwards
<1>5. stage' # "read"
  BY <1>1
<1> QED
  BY <1>3, <1>4, <1>5, TableUntouched DEF ElfInv

\* With -L nothing is read.
LEMMA BreakpointsInitStep ==
  ASSUME ElfInv, BreakpointsInit
  PROVE  ElfInv' /\ UNCHANGED Table!vars
<1>1. /\ stage = "options" /\ stage' = (IF opt_L THEN "open" ELSE "read")
      /\ UNCHANGED vars /\ opt_L' = opt_L /\ defined' = defined
  BY DEF BreakpointsInit
<1>2. DefinedOK /\ Reading /\ defined = << >>
  BY <1>1 DEF ElfInv, DefinedOK
<1>3. DefinedOK'
  BY <1>1, <1>2 DEF DefinedOK
<1>4. Reading' /\ UNCHANGED tableVars
  BY <1>1, <1>2 DEF Reading, Untouched, vars, listVars, tableVars, Backwards
<1>5. TableInv' /\ (read = Backwards(defined))'
  <2>1. (read = << >> /\ list_of_symbols = Backwards(defined) /\ defined = << >>)'
    BY <1>1, <1>2, <1>4 DEF Reading
  <2>2. (read = list_of_symbols /\ read = Backwards(defined))'
    BY <2>1, BackwardsNone DEF Backwards
  <2> QED
    BY <1>3, <1>4, <2>2, ReadingFillsNext DEF Reading, DefinedOK
<1> QED
  BY <1>3, <1>4, <1>5, TableUntouched DEF ElfInv

\* Only a function that others may see passes all the tests.
LEMMA OnlyFunctions ==
  ASSUME NEW kind \in Kind
  PROVE  Eligible(ElfSym(kind)) <=> kind = "function"
BY DEF Kind, Eligible, ElfSym

LEMMA LocalSymbolStep ==
  ASSUME ElfInv, NEW kind \in Kind, NEW symbol \in Symbol, LocalSymbol(kind, symbol)
  PROVE  ElfInv' /\ UNCHANGED Table!vars
<1>1. /\ stage = "symbols"
      /\ UNCHANGED <<opt_e, opt_e_enable, read, pos, phase, tableVars, stage, opt_L>>
  BY DEF LocalSymbol
<1>2. DefinedOK /\ Reading
  BY <1>1 DEF ElfInv
<1>3. /\ defined' \in Seq(Symbol) /\ Len(defined') <= MaxSymbols
      /\ list_of_symbols' = Backwards(defined')
  <2>1. CASE kind = "function"
    <3>1. /\ Len(defined) < MaxSymbols /\ defined' = Append(defined, symbol)
          /\ list_of_symbols' = <<symbol>> \o list_of_symbols
      BY <2>1, OnlyFunctions DEF LocalSymbol, AddLocalSymbol
    <3>2. defined \in Seq(Symbol) /\ Len(defined) \in Nat /\ MaxSymbols \in Nat
      BY <1>2, LenProperties, BoundAssumption DEF DefinedOK
    <3>3. /\ Append(defined, symbol) \in Seq(Symbol)
          /\ Len(Append(defined, symbol)) = Len(defined) + 1
          /\ Backwards(Append(defined, symbol)) = <<symbol>> \o Backwards(defined)
      BY <3>2, BackwardsOneMore
    <3>4. Len(defined') <= MaxSymbols
      BY <3>1, <3>2, <3>3
    <3> QED
      BY <1>2, <3>1, <3>3, <3>4 DEF Reading
  <2>2. CASE kind # "function"
    <3>1. defined' = defined /\ list_of_symbols' = list_of_symbols
      BY <2>2, OnlyFunctions DEF LocalSymbol
    <3> QED
      BY <1>2, <3>1 DEF DefinedOK, Reading
  <2> QED
    BY <2>1, <2>2
<1>4. DefinedOK'
  BY <1>1, <1>2, <1>3 DEF DefinedOK
<1>5. Reading'
  <2>1. (list_of_symbols = Backwards(defined))'
    BY <1>3 DEF Backwards
  <2> QED
    BY <1>1, <1>2, <2>1 DEF Reading, Untouched, tableVars
<1> QED
  BY <1>1, <1>4, <1>5, TableUntouched DEF ElfInv

LEMMA EndStep ==
  ASSUME ElfInv, EndReadElf
  PROVE  ElfInv' /\ UNCHANGED Table!vars
<1>1. /\ stage = "symbols" /\ stage' = "read" /\ read' = list_of_symbols
      /\ UNCHANGED <<opt_e, opt_e_enable, list_of_symbols, pos, phase, tableVars, opt_L, defined>>
  BY DEF EndReadElf
<1>2. DefinedOK /\ Reading
  BY <1>1 DEF ElfInv
<1>3. DefinedOK'
  BY <1>1, <1>2 DEF DefinedOK
<1>4. Untouched' /\ (read = list_of_symbols)' /\ (read = Backwards(defined))'
  BY <1>1, <1>2 DEF Reading, Untouched, tableVars, Backwards
<1>5. TableInv'
  BY <1>3, <1>4, ReadingFillsNext DEF DefinedOK
<1> QED
  BY <1>1, <1>3, <1>4, <1>5, TableUntouched DEF ElfInv

----
(* All steps.                                                              *)

\* The table keeps what was read.
LEMMA ReadKept == Next => read' = read
<1> SUFFICES ASSUME Next
             PROVE  read' = read
  OBVIOUS
<1>1. CASE Filter
  BY <1>1 DEF Filter
<1>2. CASE Filtered
  BY <1>2 DEF Filtered
<1>3. CASE InsertSymbol
  BY <1>3 DEF InsertSymbol
<1>4. CASE Inserted
  BY <1>4 DEF Inserted
<1>5. CASE EnableAll
  BY <1>5 DEF EnableAll, listVars
<1>6. CASE DisableAll
  BY <1>6 DEF DisableAll, listVars
<1>7. ASSUME NEW a \in Addr, Push(a) \/ Pop(a)
      PROVE  read' = read
  BY <1>7 DEF Push, Pop, listVars
<1> QED
  BY <1>1, <1>2, <1>3, <1>4, <1>5, <1>6, <1>7 DEF Next

LEMMA TablePart ==
  ASSUME ElfInv, stage = "read" /\ Next /\ UNCHANGED elfVars
  PROVE  ElfInv' /\ [Table!Next]_(Table!vars)
<1>1. TableInv' /\ [Table!Next]_(Table!vars)
  BY TableStep DEF ElfInv
<1>2. UNCHANGED <<stage, opt_L, defined>> /\ read' = read
  BY ReadKept DEF elfVars
<1>3. (read = Backwards(defined))'
  BY <1>2 DEF ElfInv, Backwards
<1>4. DefinedOK'
  BY <1>2 DEF ElfInv, DefinedOK
<1> QED
  BY <1>1, <1>2, <1>3, <1>4 DEF ElfInv

LEMMA ElfStutter ==
  ASSUME ElfInv, UNCHANGED allVars
  PROVE  ElfInv' /\ UNCHANGED Table!vars
<1>1. UNCHANGED vars /\ UNCHANGED <<stage, opt_L, defined>>
  BY DEF allVars, elfVars
<1>2. UNCHANGED <<listVars, tableVars>>
  BY <1>1 DEF vars, tableVars
<1>3. DefinedOK'
  BY <1>1 DEF ElfInv, DefinedOK
<1>4. CASE stage = "read"
  <2>1. TableInv'
    BY <1>1, <1>4, TableStep DEF ElfInv
  <2> QED
    BY <1>1, <1>2, <1>3, <1>4, <2>1, TableUntouched DEF ElfInv, listVars, Backwards
<1>5. CASE stage # "read"
  BY <1>1, <1>2, <1>3, <1>5, TableUntouched DEF ElfInv, Reading, Untouched, listVars, tableVars, Backwards
<1> QED
  BY <1>4, <1>5

LEMMA ElfStep ==
  ElfInv /\ [ElfNext]_allVars => ElfInv' /\ [Table!Next]_(Table!vars)
<1> SUFFICES ASSUME ElfInv, [ElfNext]_allVars
             PROVE  ElfInv' /\ [Table!Next]_(Table!vars)
  OBVIOUS
<1>1. CASE ReadOption
  BY <1>1, OptionStep
<1>2. CASE BreakpointsInit
  BY <1>2, BreakpointsInitStep
<1>3. CASE OpenProgram \/ LoadProgram \/ LoadLibrary \/ DynamicSymbols
  BY <1>3, StageStep
<1>4. ASSUME NEW kind \in Kind, NEW symbol \in Symbol, LocalSymbol(kind, symbol)
      PROVE  ElfInv' /\ UNCHANGED Table!vars
  BY <1>4, LocalSymbolStep
<1>5. CASE EndReadElf
  BY <1>5, EndStep
<1>6. CASE stage = "read" /\ Next /\ UNCHANGED elfVars
  BY <1>6, TablePart
<1>7. CASE UNCHANGED allVars
  BY <1>7, ElfStutter
<1> QED
  BY <1>1, <1>2, <1>3, <1>4, <1>5, <1>6, <1>7 DEF ElfNext, ReadElf

----
(* The theorems.                                                           *)

\* The invariant says what the breakpoints are.
LEMMA TracedFromInv == ElfInv => TracesFunctions /\ CountsWanted
<1> SUFFICES ASSUME ElfInv, phase = "trace"
             PROVE  TracesFunctions /\ CountsWanted
  BY DEF TracesFunctions, CountsWanted
<1>1. DefinedOK /\ stage = "read" /\ TableInv /\ read = Backwards(defined)
  BY DEF ElfInv, Reading, Untouched
<1>2. /\ defined \in Seq(Symbol) /\ Len(read) = Len(defined)
      /\ Inserting = Len(list_of_symbols)
  BY <1>1, BackwardsType DEF DefinedOK, Inserting
<1>3. ASSUME NEW x \in Addr
      PROVE  /\ Count(x) = held[x] + Uses(read, Len(read), x)
             /\ Uses(read, Len(read), x) = Uses(defined, Len(defined), x)
  <2>1. Count(x) = held[x] + Uses(read, Len(read), x)
    BY <1>1, <1>2 DEF TableInv, ListOK, CountsOK
  <2> QED
    BY <1>1, <1>2, <2>1, BackwardsUses
<1>4. CountsWanted
  BY <1>3 DEF CountsWanted, Uses, Users
<1>5. ASSUME NEW x \in Addr
      PROVE  {i \in 1..Len(defined) : defined[i].addr = x /\ Chosen(defined[i])}
               = Users(defined, Len(defined), x)
  <2>1. CASE opt_L
    BY <2>1 DEF Chosen, Users
  <2>2. CASE ~opt_L
    <3>1. 1..Len(defined) = {}
      BY <1>1, <2>2, BackwardsNone DEF DefinedOK
    <3> QED
      BY <3>1 DEF Users
  <2> QED
    BY <2>1, <2>2
<1>6. TracesFunctions
  BY <1>3, <1>5 DEF TracesFunctions, Uses
<1> QED
  BY <1>4, <1>6

\* The types of the table, while the file is read, too.
THEOREM FileTypeCorrect == ElfSpec => []TypeOK
<1>1. ElfInv => TypeOK
  <2> SUFFICES ASSUME ElfInv
               PROVE  TypeOK
    OBVIOUS
  <2>1. CASE stage = "read"
    BY <2>1 DEF ElfInv, TableInv
  <2>2. CASE stage # "read"
    <3>1. Reading /\ defined \in Seq(Symbol)
      BY <2>2 DEF ElfInv, DefinedOK
    <3>2. read \in Seq(Symbol) /\ list_of_symbols \in Seq(Symbol) /\ << >> \in Seq(Entry)
      BY <3>1, BackwardsType, BackwardsNone, EmptySeq DEF Reading
    <3> QED
      BY <3>1, <3>2 DEF Reading, Untouched, TypeOK, Byte
  <2> QED
    BY <2>1, <2>2
<1> QED
  BY <1>1, ElfInitially, ElfStep, PTL DEF ElfSpec

\* From the file and the command line to the counts: without -l, exactly the
\* functions that the program defines for others and that -e and -L choose are
\* counted, whatever else the file holds (elf.c 289-361, breakpoints.c 132-153).
THEOREM ChosenFunctionsTraced == ElfSpec => []TracesFunctions
<1>1. ElfInv => TracesFunctions
  BY TracedFromInv
<1> QED
  BY <1>1, ElfInitially, ElfStep, PTL DEF ElfSpec

\* The list that read_elf returns is counted as any other.
THEOREM CountsWantedOfFile == ElfSpec => []CountsWanted
<1>1. ElfInv => CountsWanted
  BY TracedFromInv
<1> QED
  BY <1>1, ElfInitially, ElfStep, PTL DEF ElfSpec

\* Reading the file does not touch the table, and filling it from the file is
\* counting symbols: the whole implements Breakpoints.
THEOREM FileRefinesBreakpoints == ElfSpec => ImplementsBreakpoints
BY ElfInitially, ElfStep, PTL DEF ElfSpec, ImplementsBreakpoints, Table!Spec
====
