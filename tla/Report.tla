---- MODULE Report ----
(***************************************************************************)
(* What is said of each call: its arguments, shown by the prototypes of    *)
(* the configuration files, its time, or with -c a line of the summary.    *)
(* Composes Prototypes, Arguments and CallTimes for one traced thread: the *)
(* files are read (main), then the breakpoints of the calls are hit        *)
(* (process_breakpoint), then the tracer ends (normal_exit).               *)
(***************************************************************************)
EXTENDS Prototypes, Arguments, CallTimes

CONSTANTS
  Pieces,     \* what texts consist of: [chars, values] each
  MaxPieces,  \* bound of the model: pieces of the text of the traced program
  Limits,     \* the values of -s
  Lengths     \* what arguments are worth as the length of a stringN

\* -s is given a number of at most INT_MAX, a length is an int
ASSUME ReportAssumption ==
  /\ MaxPieces \in Nat
  /\ Limits \subseteq 0..Unlimited /\ Lengths \subseteq Int
  /\ \A p \in Pieces : p.chars \in Seq(STRING) /\ p.values \in Seq(STRING)

VARIABLES
  opt_s,          \* the option
  pieces,         \* the text in the memory of the traced program
  null,           \* the calls pass no address of it, but 0
  stack_pointer,  \* the call at whose entry thr->stack_pointer was read
  shown           \* history: for each call, its prototype, the arguments shown
                  \* and the last call entered when it returned, or 0

reportVars == <<opt_s, pieces, null, stack_pointer, shown>>
vars == <<timesVars, configVars, reportVars>>

----
(* Texts and what a printf of them would take.                             *)

\* A character; a conversion from its % to the first letter display_format
\* knows, with what printf takes for it when that is the letter it ends at
Literal(p) == Len(p.chars) = 1 /\ p.chars[1] # Percent /\ p.values = << >>
Conversion(p) ==
  LET last == Len(p.chars)
      letter == p.chars[last]
  IN /\ last > 1 /\ p.chars[1] = Percent /\ letter \in EndLetter
     /\ \A j \in 2..(last - 1) : p.chars[j] \notin EndLetter
     /\ p.values = StarsIn(SubSeq(p.chars, 2, last - 1))
                     \o (IF letter \in RealLetter THEN <<Real>>
                         ELSE IF letter = Percent THEN << >> ELSE <<letter>>)

\* The values of any other piece are Beyond
ASSUME PieceAssumption ==
  \A p \in Pieces : p.values # Beyond => Literal(p) \/ Conversion(p)

EndsInReal(values) == values # << >> /\ values[Len(values)] = Real

Joined(part(_), n) ==
  LET upTo[k \in 0..n] == IF k = 0 THEN << >> ELSE upTo[k - 1] \o part(k)
  IN upTo[n]

theText == Joined(LAMBDA k : pieces[k].chars, Len(pieces))

\* The pieces up to the first real, which display_format shows no more of
UpToReal ==
  LET reals == {k \in DOMAIN pieces : EndsInReal(pieces[k].values)}
  IN IF reals = {} THEN Len(pieces) ELSE CHOOSE k \in reals : \A m \in reals : k <= m
expectedValues == Joined(LAMBDA k : pieces[k].values, UpToReal)

----
(* display_arg and gimme_arg.                                              *)

TextType == {"string", "string0", "string1", "string2", "string3", "format"}
LengthType == TextType \ {"string", "format"}

\* display_arg of the text types; the other ones show the value alone.
\* display_stringN has read its length, n, from another argument
Displayed(at, n) ==
  CASE at = "string" -> DisplayString(theText, opt_s, Unlimited)
    [] at \in LengthType -> DisplayString(theText, opt_s, n)
    [] at = "format" -> DisplayFormat(theText, opt_s)
    [] OTHER -> [why |-> "value"]
What(at, n) == IF null /\ at \in TextType THEN Null ELSE Displayed(at, n)

Known(func) == func # NoFunction

\* The lengths that matter: one, when none of the arguments is a stringN
LengthsOf(func, args) ==
  IF Known(func) /\ \E k \in args : func.arg_types[k + 1] \in LengthType
  THEN Lengths ELSE {Unlimited}

\* The arguments of half of a call, each read at the stack pointer sp
Half(func, args, sp, n) ==
  LET first == CHOOSE k \in args : \A j \in args : k <= j
      at(k) == IF Known(func) THEN func.arg_types[k + 1] ELSE "unknown"
  IN IF args = {} THEN << >>
     ELSE [i \in 1..Cardinality(args) |->
             [arg |-> first + i - 1, at |-> at(first + i - 1), from |-> sp, length |-> n,
              what |-> What(at(first + i - 1), n)]]

\* Mutant: the stack pointer of an outer call is kept
ReadStackPointer_Once ==
  stack_pointer' = IF callstack = << >> THEN calls + 1 ELSE stack_pointer

\* thr->stack_pointer is read at an entry, and at no return
ReadStackPointer == stack_pointer' = calls + 1

----
(* Actions.                                                                *)

\* An entry breakpoint is hit: the stack pointer, the left half, the frame.
\* Bound of the model: a program with a text makes one call
Enter(name) ==
  LET func == Name2Func(name)
      args == LeftArgs(Known(func), num_params(func), func.params_right)
  IN /\ reading = "closed"
     /\ pieces # << >> => calls = 0
     /\ TimedEntry(name)
     /\ ReadStackPointer
     /\ \E n \in LengthsOf(func, args) :
          shown' = Append(shown,
            [func |-> func, ended |-> 0,
             args |-> IF opt_c THEN << >> ELSE Half(func, args, stack_pointer', n)])
     /\ UNCHANGED <<opt_s, pieces, null, configVars>>

\* A return breakpoint is hit: the frame, and those above it, then the right
\* half
Return(i) ==
  LET func == Name2Func(callstack[i].name)
      args == RightArgs(Known(func), num_params(func), func.params_right)
      c == callstack[i].call
  IN /\ TimedReturn(i)
     /\ \E n \in LengthsOf(func, args) :
          shown' = [shown EXCEPT
            ![c].ended = calls,
            ![c].args = IF opt_c THEN @ ELSE @ \o Half(func, args, stack_pointer, n)]
     /\ UNCHANGED <<opt_s, pieces, null, stack_pointer, configVars>>

Init ==
  /\ TimesInit /\ ConfigInit
  /\ opt_s \in Limits
  /\ pieces \in UNION {[1..n -> Pieces] : n \in 0..MaxPieces}
  /\ null \in BOOLEAN
  /\ stack_pointer = 0
  /\ shown = << >>
  \* Bound of the model: what is read or shown does not depend on the clock,
  \* and where no text is shown it is empty
  /\ opt_c \/ opt_T => pieces = << >> /\ ~null
  /\ null => pieces = << >>
  /\ ~opt_c /\ ~opt_T => now = 1

\* Bound of the model: the files are only read where arguments are looked at,
\* and one line of them where texts are
ReadConfig ==
  /\ ConfigNext
  /\ opt_c \/ opt_T => CloseConfig
  /\ pieces # << >> => Len(file') <= 1
  /\ UNCHANGED <<timesVars, reportVars>>

\* normal_exit
Finish == reading = "closed" /\ ShowSummary /\ UNCHANGED <<configVars, reportVars>>

Next ==
  \/ ReadConfig
  \/ reading = "closed" /\ Tick /\ UNCHANGED <<configVars, reportVars>>
  \/ \E n \in Name : Enter(n)
  \/ \E i \in DOMAIN callstack : Return(i)
  \/ Finish

Spec == Init /\ [][Next]_vars

----
(* Properties.                                                             *)

\* Between them, the halves of a call show its arguments in order, each once,
\* however + divides them (output.c 199-222, 278-291)
EachArgOnce ==
  \A c \in DOMAIN shown :
    LET call == shown[c]
    IN ~opt_c =>
         /\ \A i \in DOMAIN call.args : call.args[i].arg = i - 1
         /\ call.ended > 0 /\ Known(call.func) => Len(call.args) = num_params(call.func)

\* An argument shown at the entry of a call is of that call, and so is one
\* shown on return when no other call was entered in between.  When one was,
\* it is read in that one's frame, and is not the returned value of its own
\* call that etc/ltrace.conf 4 speaks of (process_event.c 292, output.c
\* 215-220, 285-290)
OwnArgs ==
  \A c \in DOMAIN shown : \A i \in DOMAIN shown[c].args :
    LET call == shown[c]
        onReturn == Known(call.func) /\ i > num_params(call.func) - call.func.params_right
    IN ~onReturn \/ call.ended = c => call.args[i].from = c

\* A text is shown up to -s and up to its length, and the dots say that there
\* is more of it (display_args.c 85-127, sysdeps/linux-gnu/trace.c 175-195)
TextsShown ==
  \A c \in DOMAIN shown : \A i \in DOMAIN shown[c].args :
    LET arg == shown[c].args[i]
        limit == IF arg.at = "string" THEN opt_s ELSE Smaller(opt_s, arg.length)
        text == arg.what.chars
    IN arg.what.why = "text" =>
         /\ text = SubSeq(theText, 1, Len(text))
         /\ \/ Len(text) = Len(theText)
            \/ Len(text) = limit
            \/ limit < 0 /\ text = << >>
         /\ arg.at = "string" => (arg.what.dots <=> Len(theText) > opt_s)

\* As long as umovestr reads all of a format and each conversion is of a
\* letter display_format knows, an argument is shown for each one that printf
\* takes, up to the first real (display_args.c 170-207)
FormatsShown ==
  \A c \in DOMAIN shown : \A i \in DOMAIN shown[c].args :
    LET what == shown[c].args[i].what
    IN /\ what.why = "format"
       /\ Len(theText) <= opt_s + 1
       /\ \A k \in DOMAIN pieces : pieces[k].values # Beyond
       => what.values = expectedValues

====
