---- MODULE BreakpointTable ----
(***************************************************************************)
(* breakpoints.c on top of dict.c: the hash table of the breakpoints of a  *)
(* process, filled by breakpoints_init with the symbols that -e leaves,    *)
(* then used for return addresses.                                         *)
(*                                                                         *)
(* A second breakpoints_init, with dict_clear, would follow the exit stop  *)
(* of an exec; but no frame is pushed at its entry, so trace.c:37 takes    *)
(* its exit for another entry.  A breakpoint that is lifted for a single   *)
(* step is in CallTracer.                                                  *)
(***************************************************************************)
EXTENDS Integers, Sequences, FiniteSets

CONSTANTS
  Addr,
  Hash,       \* [Addr -> Nat]: dict_key2hash_int
  TableSize,  \* DICTTABLESIZE
  Name,       \* names of symbols
  MaxSymbols, \* bound of the model: symbols read from the executable
  MaxHeld     \* bound of the model: references held by frames

ASSUME HashAssumption == Hash \in [Addr -> Nat] /\ TableSize \in Nat \ {0}
ASSUME BoundAssumption == MaxSymbols \in Nat /\ MaxHeld \in Nat

VARIABLES
  opt_e, opt_e_enable, \* names given with -e, and whether without "!"
  read,                \* history: the symbols that read_elf returned
  list_of_symbols,     \* sequence of symbols: those not filtered out yet
  pos,                 \* where the loops of breakpoints_init are in it
  phase,               \* "filter", "insert", "trace"
  buckets,             \* [0..TableSize-1 -> sequence of entries]
  breakpoints_enabled,
  held,                \* history: [Addr -> references held by frames]
  text                 \* [Addr -> the byte in memory]

listVars == <<opt_e, opt_e_enable, read, list_of_symbols, pos, phase>>
vars == <<listVars, buckets, breakpoints_enabled, held, text>>

Symbol == [name : Name, addr : Addr]
Byte == {"code", "int3", "unset"}

----
(* dict.c, with the struct breakpoint of an entry in the entry.            *)

Entry == [hash : Nat, key : Addr, enabled : Nat, orig_value : Byte]

Bucket(a) == Hash[a] % TableSize

\* Mutant: whatever is in the bucket
Matches_AnyKey(e, a) == TRUE

Matches(e, a) == e.hash = Hash[a] /\ e.key = a

\* dict_find_entry: the first entry of the bucket that matches
Matching(a) == {i \in 1..Len(buckets[Bucket(a)]) : Matches(buckets[Bucket(a)][i], a)}
Found(a) == Matching(a) # {}
Place(a) == CHOOSE i \in Matching(a) : \A j \in Matching(a) : i <= j
Find(a) == buckets[Bucket(a)][Place(a)]

\* dict_enter of a new struct breakpoint, counted once
NewEntry(a, byte) == [hash |-> Hash[a], key |-> a, enabled |-> 1, orig_value |-> byte]
Entered(a, byte) == [buckets EXCEPT ![Bucket(a)] = Append(@, NewEntry(a, byte))]

Changed(a, n, byte) ==
  [buckets EXCEPT ![Bucket(a)][Place(a)] = [@ EXCEPT !.enabled = n, !.orig_value = byte]]

----
(* breakpoints.c.                                                          *)

\* insert_breakpoint; live says whether proc->pid is known
InsertBreakpoint(a, live) ==
  LET n == IF Found(a) THEN Find(a).enabled ELSE 0
      old == IF Found(a) THEN Find(a).orig_value ELSE "unset"
      plants == n = 0 /\ live
      byte == IF plants THEN text[a] ELSE old
  IN /\ buckets' = IF Found(a) THEN Changed(a, n + 1, byte) ELSE Entered(a, byte)
     /\ text' = IF plants THEN [text EXCEPT ![a] = "int3"] ELSE text

\* Mutant: the count goes down twice
DeleteBreakpoint_Twice(a) ==
  LET n == Find(a).enabled
  IN /\ buckets' = Changed(a, n - 2, Find(a).orig_value)
     /\ text' = IF n = 1 THEN [text EXCEPT ![a] = Find(a).orig_value] ELSE text

\* delete_breakpoint; its first assertion
DeleteBreakpoint(a) ==
  LET n == Find(a).enabled
  IN /\ Found(a)
     /\ buckets' = Changed(a, n - 1, Find(a).orig_value)
     /\ text' = IF n = 1 THEN [text EXCEPT ![a] = Find(a).orig_value] ELSE text

\* The entries that enable_bp_cb and disable_bp_cb act on
Used(a) == {e \in {buckets[Bucket(a)][i] : i \in 1..Len(buckets[Bucket(a)])} :
              e.key = a /\ e.enabled # 0}

EnableAll ==
  /\ phase = "trace" /\ breakpoints_enabled = -1
  /\ breakpoints_enabled' = 1
  /\ buckets' = [h \in 0..(TableSize - 1) |-> [i \in 1..Len(buckets[h]) |->
                   IF buckets[h][i].enabled # 0
                   THEN [buckets[h][i] EXCEPT !.orig_value = text[buckets[h][i].key]]
                   ELSE buckets[h][i]]]
  /\ text' = [a \in Addr |-> IF Used(a) # {} THEN "int3" ELSE text[a]]
  /\ UNCHANGED <<listVars, held>>

DisableAll ==
  /\ breakpoints_enabled = 1
  /\ breakpoints_enabled' = 0
  /\ text' = [a \in Addr |-> IF Used(a) # {} THEN (CHOOSE e \in Used(a) : TRUE).orig_value
                             ELSE text[a]]
  /\ UNCHANGED <<listVars, buckets, held>>

----
(* breakpoints_init.                                                       *)

\* Keeping a symbol, with -e
Keep(s) == IF s.name \in opt_e THEN opt_e_enable ELSE ~opt_e_enable

\* Mutant: goes on behind the symbol that follows a dropped one
Filter_Skips ==
  /\ phase = "filter" /\ pos <= Len(list_of_symbols)
  /\ list_of_symbols' =
       IF opt_e = {} \/ Keep(list_of_symbols[pos]) THEN list_of_symbols
       ELSE SubSeq(list_of_symbols, 1, pos - 1)
              \o SubSeq(list_of_symbols, pos + 1, Len(list_of_symbols))
  /\ pos' = pos + 1
  /\ UNCHANGED <<opt_e, opt_e_enable, read, phase, buckets, breakpoints_enabled, held, text>>

\* One turn of the loop over the links of the list
Filter ==
  /\ phase = "filter" /\ pos <= Len(list_of_symbols)
  /\ IF opt_e = {} \/ Keep(list_of_symbols[pos])
     THEN pos' = pos + 1 /\ UNCHANGED list_of_symbols
     ELSE /\ list_of_symbols' =
               SubSeq(list_of_symbols, 1, pos - 1)
                 \o SubSeq(list_of_symbols, pos + 1, Len(list_of_symbols))
          /\ UNCHANGED pos
  /\ UNCHANGED <<opt_e, opt_e_enable, read, phase, buckets, breakpoints_enabled, held, text>>

Filtered ==
  /\ phase = "filter" /\ pos > Len(list_of_symbols)
  /\ phase' = "insert" /\ pos' = 1
  /\ UNCHANGED <<opt_e, opt_e_enable, read, list_of_symbols, buckets, breakpoints_enabled,
                 held, text>>

\* One turn of the loop over the symbols; proc->pid is still 0
InsertSymbol ==
  /\ phase = "insert" /\ pos <= Len(list_of_symbols)
  /\ InsertBreakpoint(list_of_symbols[pos].addr, FALSE)
  /\ pos' = pos + 1
  /\ UNCHANGED <<opt_e, opt_e_enable, read, list_of_symbols, phase, breakpoints_enabled, held>>

Inserted ==
  /\ phase = "insert" /\ pos > Len(list_of_symbols)
  /\ phase' = "trace"
  /\ UNCHANGED <<opt_e, opt_e_enable, read, list_of_symbols, pos, buckets,
                 breakpoints_enabled, held, text>>

----
(* process_event.c.                                                        *)

\* callstack_push_symfunc
Push(a) ==
  /\ breakpoints_enabled = 1 /\ held[a] < MaxHeld
  /\ InsertBreakpoint(a, TRUE)
  /\ held' = [held EXCEPT ![a] = @ + 1]
  /\ UNCHANGED <<listVars, breakpoints_enabled>>

\* callstack_pop
Pop(a) ==
  /\ breakpoints_enabled = 1 /\ held[a] > 0
  /\ DeleteBreakpoint(a)
  /\ held' = [held EXCEPT ![a] = @ - 1]
  /\ UNCHANGED <<listVars, breakpoints_enabled>>

----
(* The specification.                                                      *)

Init ==
  /\ opt_e \in SUBSET Name /\ opt_e_enable \in BOOLEAN
  /\ \E n \in 0..MaxSymbols : read \in [1..n -> Symbol]
  /\ list_of_symbols = read
  /\ pos = 1 /\ phase = "filter"
  /\ buckets = [h \in 0..(TableSize - 1) |-> << >>]
  /\ breakpoints_enabled = -1
  /\ held = [a \in Addr |-> 0]
  /\ text = [a \in Addr |-> "code"]

Next ==
  \/ Filter \/ Filtered \/ InsertSymbol \/ Inserted
  \/ EnableAll \/ DisableAll
  \/ \E a \in Addr : Push(a) \/ Pop(a)

Spec == Init /\ [][Next]_vars

----
(* Properties.                                                             *)

TypeOK ==
  /\ opt_e \subseteq Name /\ opt_e_enable \in BOOLEAN
  /\ read \in Seq(Symbol) /\ list_of_symbols \in Seq(Symbol)
  /\ pos \in Nat \ {0} /\ phase \in {"filter", "insert", "trace"}
  /\ buckets \in [0..(TableSize - 1) -> Seq(Entry)]
  /\ breakpoints_enabled \in {-1, 0, 1}
  /\ held \in [Addr -> Nat]
  /\ text \in [Addr -> Byte]

\* The counts and bytes that the callers of breakpoints.c find
Count(a) == IF Found(a) THEN Find(a).enabled ELSE 0
Saved(a) == IF Found(a) THEN Find(a).orig_value ELSE "unset"

\* ltrace.1: "-e printf means to trace only the printf library call",
\* "-e !printf means to trace every library call except printf".
Wanted(s) == opt_e = {} \/ (s.name \in opt_e <=> opt_e_enable)

\* The references to an address are those of the wanted symbols there, names
\* that share it counted each, and of the frames: the loop that drops the
\* others from the linked list neither misses nor loses one.
CountsWanted ==
  phase = "trace" =>
    \A a \in Addr :
      Count(a) = held[a] + Cardinality({i \in 1..Len(read) : read[i].addr = a /\ Wanted(read[i])})

Table == INSTANCE Breakpoints WITH enabled <- [a \in Addr |-> Count(a)],
                                   orig_value <- [a \in Addr |-> Saved(a)]

\* The hash table is a function from addresses to counts and saved bytes,
\* whatever shares a bucket and in whatever order entries come: no two
\* entries for one address, none found for another, none lost.
ImplementsBreakpoints == Table!Spec
====
