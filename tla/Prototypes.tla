---- MODULE Prototypes ----
(***************************************************************************)
(* read_config_file.c: the lines of /etc/ltrace.conf and ~/.ltrace.conf    *)
(* become list_of_functions, the prototypes that decide how arguments are  *)
(* shown (name2func of output.c).  A line is a sequence of tokens: words,  *)
(* spaces and punctuation.  Each action is one call of process_line up to  *)
(* its loop, one iteration of the loop, or what follows it.                *)
(***************************************************************************)
EXTENDS Integers, Sequences, FiniteSets

CONSTANTS
  Type,      \* the words of list_of_pt
  Stated,    \* prototypes that lines of the files may state
  OtherLine, \* other lines they may have
  MaxArgs,   \* MAX_ARGS
  MaxLines   \* bound of the model: lines in the files

\* The tokens that are no words; "NUL" is what ends a line
Space == " "
Open == "("
Close == ")"
Comma == ","
Plus == "+"
Hash == "#"

ASSUME TypeAssumption ==
  {Space, Open, Close, Comma, Plus, Hash, "NUL", "unknown"} \cap Type = {}
\* Stated are prototypes that a line can state
ASSUME StatedAssumption ==
  \A d \in Stated :
    /\ d = [return_type |-> d.return_type, name |-> <<d.name[1]>>,
             arg_types |-> d.arg_types, params_right |-> d.params_right]
    /\ d.return_type \in Type
    /\ d.name[1] \notin {Space, Open, Close}
    /\ d.arg_types \in Seq(Type) /\ Len(d.arg_types) <= MaxArgs
    /\ d.params_right \in 0..Len(d.arg_types)
ASSUME LineAssumption == OtherLine \subseteq Seq(STRING)
ASSUME MaxAssumption == MaxArgs \in Nat /\ MaxLines \in Nat

VARIABLES
  list_of_functions, \* sequence of prototypes, the head of the list first
  file,              \* history: the lines read so far
  buf, str,          \* the line being read and the place reached in it
  fun,               \* the prototype being built
  reading            \* "line": between lines, "args": in the loop, "closed"

configVars == <<list_of_functions, file, buf, str, fun, reading>>

----
(* What a line means, from its writer's side.                              *)

\* The tokens of argument i of d, with the comma and the space before it
ArgText(d, i) ==
  (IF i > 1 THEN <<Comma, Space>> ELSE << >>)
  \o (IF i = Len(d.arg_types) - d.params_right + 1 THEN <<Plus>> ELSE << >>)
  \o <<d.arg_types[i]>>

ArgsText(d) ==
  LET upTo[n \in 0..Len(d.arg_types)] ==
        IF n = 0 THEN << >> ELSE upTo[n - 1] \o ArgText(d, n)
  IN upTo[Len(d.arg_types)]

\* The line that states d
Text(d) == <<d.return_type, Space>> \o d.name \o <<Open>> \o ArgsText(d) \o <<Close>>

Line == {Text(d) : d \in Stated} \cup OtherLine

----
(* Helpers of the parser.                                                  *)

\* The token at p of line s, whose end is a NUL
At(s, p) == IF p \in 1..Len(s) THEN s[p] ELSE "NUL"

\* eat_spaces: the first place from p on that is no space
EatSpaces(s, p) ==
  CHOOSE q \in p..(Len(s) + 1) :
    /\ At(s, q) # Space
    /\ \A r \in p..(q - 1) : At(s, r) = Space

\* str2type finds a type at p when one of its delimiters follows the word;
\* index() also finds the NUL
TypeAt(s, p) ==
  IF At(s, p) \in Type /\ At(s, p + 1) \in {Space, Comma, Close, Hash, "NUL"}
  THEN At(s, p) ELSE "unknown"

\* str2type: the type, and where the string goes on
Str2Type(s, p) ==
  [pt |-> TypeAt(s, p), next |-> IF TypeAt(s, p) = "unknown" THEN p ELSE p + 1]

\* How many more ) than ( there are from p on
Stacked(s, p) ==
  Cardinality({q \in p..Len(s) : s[q] = Close}) - Cardinality({q \in p..Len(s) : s[q] = Open})

\* start_of_arg_sig: the ( that matches the last ), or 0 when there is none
StartOfArgSig(s, p) ==
  LET parens == {q \in p..Len(s) : s[q] \in {Open, Close}}
      stop == {q \in parens : Stacked(s, q) <= 0}
      last == CHOOSE q \in stop : \A r \in stop : r <= q
  IN IF stop = {} \/ Stacked(s, last) < 0 THEN 0 ELSE last

----
(* process_line and read_config_file.                                      *)

NoFunction ==
  [return_type |-> "unknown", name |-> << >>, arg_types |-> << >>, params_right |-> 0]
num_params(f) == Len(f.arg_types)

ConfigInit ==
  /\ list_of_functions = << >>
  /\ file = << >>
  /\ buf = << >> /\ str = 1
  /\ fun = NoFunction
  /\ reading = "line"

\* process_line up to its loop, at a line whose return type is read at ret
BeginLine(s, ret, sig) ==
  /\ buf' = s
  /\ str' = sig + 1
  /\ fun' = [return_type |-> ret.pt, name |-> SubSeq(s, EatSpaces(s, ret.next), sig - 1),
             arg_types |-> << >>, params_right |-> 0]
  /\ reading' = "args"

\* fgets, and process_line until it skips the line or enters the loop
ReadLine ==
  /\ reading = "line"
  /\ Len(file) < MaxLines
  /\ \E s \in Line :
       LET ret == Str2Type(s, EatSpaces(s, 1))
           sig == StartOfArgSig(s, EatSpaces(s, ret.next))
       IN /\ file' = Append(file, s)
          /\ IF ret.pt = "unknown" \/ sig = 0
             THEN UNCHANGED <<buf, str, fun, reading>>
             ELSE BeginLine(s, ret, sig)
  /\ UNCHANGED list_of_functions

\* The place the loop looks at, and the mark of an argument shown on return
Here == EatSpaces(buf, str)
Marked == At(buf, Here) = Plus
ArgsEnd == num_params(fun) = MaxArgs \/ At(buf, Here) = Close

\* Mutant: without the else of line 134, the mark counts twice
NewParamsRight_NoElse ==
  fun.params_right + (IF Marked THEN 2 ELSE IF fun.params_right > 0 THEN 1 ELSE 0)

\* The mark holds for the argument and those after it
NewParamsRight ==
  fun.params_right + (IF Marked \/ fun.params_right > 0 THEN 1 ELSE 0)

\* The line is dropped
SyntaxError == reading' = "line"

\* An iteration of the loop.  The type may be unknown: line 138 tests the
\* return type once more
ReadArg ==
  LET arg == Str2Type(buf, IF Marked THEN Here + 1 ELSE Here)
      after == EatSpaces(buf, arg.next)
  IN /\ reading = "args" /\ ~ArgsEnd
     /\ fun' = [fun EXCEPT !.arg_types = Append(@, arg.pt), !.params_right = NewParamsRight]
     /\ CASE At(buf, after) = Comma -> str' = after + 1 /\ UNCHANGED reading
          [] At(buf, after) = Close -> str' = after /\ UNCHANGED reading
          [] OTHER -> SyntaxError /\ UNCHANGED str
     /\ UNCHANGED <<list_of_functions, file, buf>>

\* Mutant: the new prototype goes behind the old ones
AddFunction_Behind ==
  /\ reading = "args" /\ ArgsEnd
  /\ list_of_functions' = Append(list_of_functions, fun)
  /\ reading' = "line"
  /\ UNCHANGED <<file, buf, str, fun>>

\* After the loop: the new prototype becomes the head of the list
AddFunction ==
  /\ reading = "args" /\ ArgsEnd
  /\ list_of_functions' = <<fun>> \o list_of_functions
  /\ reading' = "line"
  /\ UNCHANGED <<file, buf, str, fun>>

\* The end of the last file
CloseConfig ==
  /\ reading = "line"
  /\ reading' = "closed"
  /\ UNCHANGED <<list_of_functions, file, buf, str, fun>>

ConfigNext == ReadLine \/ ReadArg \/ AddFunction \/ CloseConfig

ConfigSpec == ConfigInit /\ [][ConfigNext]_configVars

----
(* name2func of output.c.                                                  *)

\* The places of the list with a prototype of the name
Named(name) == {i \in DOMAIN list_of_functions : list_of_functions[i].name = <<name>>}

\* name2func: the first of them, or NoFunction for its NULL
Name2Func(name) ==
  IF Named(name) = {} THEN NoFunction
  ELSE list_of_functions[CHOOSE i \in Named(name) : \A j \in Named(name) : i <= j]

----
(* Properties.                                                             *)

\* A prototype shows at most the arguments it has, and it fits arg_types
\* (read_config_file.c 125-153)
SoundPrototype(f) ==
  /\ num_params(f) \in 0..MaxArgs
  /\ f.params_right \in 0..num_params(f)

\* The prototypes of the list, and the one being built, keep their counts
\* consistent, whatever the lines say: output_left and output_right index
\* arg_types with them (output.c 210-290)
PrototypesSound ==
  /\ SoundPrototype(fun)
  /\ \A i \in DOMAIN list_of_functions : SoundPrototype(list_of_functions[i])

\* When the files are read, a function shows its arguments as the last line
\* that mentions it states, the arguments after a + on return
\* (read_config_file.c 98-183, output.c 103-124)
LastStatementHolds ==
  reading = "closed" =>
    \A d \in Stated, k \in DOMAIN file :
      /\ Text(d) = file[k]
      /\ \A j \in (k + 1)..Len(file) : \A i \in DOMAIN file[j] : file[j][i] # d.name[1]
      => Name2Func(d.name[1]) = d

====
