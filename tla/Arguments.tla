---- MODULE Arguments ----
(***************************************************************************)
(* display_args.c, with umovestr (sysdeps/linux-gnu/trace.c): which        *)
(* arguments each half of a call shows, and how much of a text in the      *)
(* memory of the traced program.  Pure operators: a text is the sequence   *)
(* of its characters up to the NUL.                                        *)
(***************************************************************************)
EXTENDS Integers, Sequences, FiniteSets

\* The characters of a conversion that are no letters
Percent == "%"
Star == "*"

\* The letters at which display_format ends a conversion
IntegerLetter == {"d", "i", "u", "o", "x", "X", "c"}
RealLetter == {"e", "E", "f", "g"}
EndLetter == IntegerLetter \cup RealLetter \cup {"s", Percent}

\* INT_MAX, the string_maxlength of a text whose prototype limits it not
Unlimited == 10000
Smaller(m, n) == IF m < n THEN m ELSE n

----
(* output.c: the arguments, counted from 0, that each half shows.          *)

\* output_left: of a function without a prototype, the first five
LeftArgs(known, params, right) ==
  IF known THEN 0..(params - right - 1) ELSE 0..4

\* Mutant: without what follows the loop of output_right
RightArgs_Loop(known, params, right) ==
  IF known THEN (params - right)..(params - 2) ELSE {}

\* output_right: the loop and the last argument after it
RightArgs(known, params, right) ==
  IF known THEN (params - right)..(params - 1) ELSE {}

----
(* Texts.                                                                  *)

\* Mutant: reads as many characters as are shown, and not one more
Umovestr_Exact(text, len) == SubSeq(text, 1, Smaller(Len(text), len - 1))

\* What umovestr copies for each character it cannot read: a PTRACE_PEEKTEXT
\* that fails returns -1.  A text that runs into such memory, or points there,
\* goes on with Unread beyond every limit
Unread == "\\377"

\* umovestr: the characters before the NUL that ends laddr
Umovestr(text, len) == SubSeq(text, 1, Smaller(Len(text), len))

\* The limit on a text: -s, and the length of a stringN
Limit(opt_s, maxlength) == Smaller(opt_s, maxlength)

\* What malloc refuses: a negative size is a huge one
Refused(limit) == limit + 3 < 0
NotShown == [chars |-> << >>, dots |-> FALSE, why |-> "???"]

\* display_string and display_format without an address
Null == [why |-> "NULL"]

\* display_string.  With a limit of at most 0 umovestr only writes a NUL
DisplayString(text, opt_s, maxlength) ==
  LET limit == Limit(opt_s, maxlength)
      str1 == IF limit < 0 THEN << >> ELSE Umovestr(text, limit + 1)
      i == IF limit < 0 THEN 0 ELSE Smaller(Len(str1), limit)
  IN IF Refused(limit) THEN NotShown
     ELSE [chars |-> SubSeq(str1, 1, i),
           dots |-> i < Len(str1) /\ opt_s <= maxlength, why |-> "text"]

\* display_char: the characters on the line that one of the text takes
WidthOf(c) ==
  CASE c = "\n" -> 2
    [] c = Unread -> 4
    [] OTHER -> 1
Width(text) ==
  LET upTo[n \in 0..Len(text)] == IF n = 0 THEN 0 ELSE upTo[n - 1] + WidthOf(text[n])
  IN upTo[Len(text)]

\* display_format, the first loop: characters until they take the limit
FormatShown(str1, limit) ==
  CHOOSE i \in 0..Len(str1) :
    /\ i = Len(str1) \/ Width(SubSeq(str1, 1, i)) >= limit
    /\ \A j \in 0..(i - 1) : Width(SubSeq(str1, 1, j)) < limit

\* Where the conversion that the % at i begins ends: at a letter, or past the
\* last character
ConversionEnd(str1, i) ==
  CHOOSE q \in (i + 1)..(Len(str1) + 1) :
    /\ q = Len(str1) + 1 \/ str1[q] \in EndLetter
    /\ \A r \in (i + 1)..(q - 1) : str1[r] \notin EndLetter

\* Mutant: a * takes no argument
Stars_None(str1, i, q) == << >>

\* One * for each of those that some characters have
StarsIn(chars) ==
  [j \in 1..Cardinality({r \in DOMAIN chars : chars[r] = Star}) |-> Star]

\* The widths and precisions of a conversion that are arguments
Stars(str1, i, q) == StarsIn(SubSeq(str1, i + 1, q - 1))

\* The loop has gone past the NUL and reads what nobody wrote
Beyond == <<"beyond">>

\* It shows ... for a real, and no argument after it
Real == "..."

\* display_format, the second loop: a letter for each argument it shows after
\* the text.  from[k] is what it shows from k places before the end on; a
\* real ends the scan, and a conversion that the NUL ends steps over the NUL
FormatValues(str1) ==
  LET from[k \in 0..(Len(str1) + 1)] ==
        LET i == Len(str1) + 2 - k
            q == ConversionEnd(str1, i)
        IN CASE k = 0 -> Beyond
             [] k = 1 -> << >>
             [] k > 1 /\ str1[i] # Percent -> from[k - 1]
             [] OTHER ->
                  Stars(str1, i, q) \o
                  IF q > Len(str1) THEN from[0]
                  ELSE IF str1[q] \in RealLetter THEN <<Real>>
                  ELSE (IF str1[q] = Percent THEN << >> ELSE <<str1[q]>>)
                       \o from[Len(str1) + 1 - q]
  IN from[Len(str1) + 1]

\* display_format: the text, and the arguments its conversions take
DisplayFormat(text, opt_s) ==
  LET str1 == Umovestr(text, opt_s + 1)
      i == FormatShown(str1, opt_s)
  IN [chars |-> SubSeq(str1, 1, i), dots |-> i < Len(str1), why |-> "format",
      values |-> FormatValues(str1)]

====
