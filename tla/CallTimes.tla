---- MODULE CallTimes ----
(***************************************************************************)
(* The clock of -T, -c and -r: when the calls of a thread begin and end    *)
(* (process_event.c), the table of output_right and the lines of           *)
(* begin_of_line (output.c), and the table show_summary prints             *)
(* (summary.c).  A call is of a function, or with -S of the kernel; now is *)
(* the clock in microseconds, of which a second has UsecPerSec.            *)
(***************************************************************************)
EXTENDS Integers, Sequences, FiniteSets

CONSTANTS
  Name,       \* what is called
  UsecPerSec, \* 1000000
  WordSize,   \* 2^32: the values of an unsigned long
  MaxDepth,   \* MAX_CALLDEPTH - 1: the frames a thread can have
  MaxNow,     \* bound of the model: the clock
  MaxCalls    \* bound of the model: calls that begin

ASSUME ClockAssumption == UsecPerSec \in Nat /\ UsecPerSec > 1
ASSUME WordAssumption == WordSize \in Nat /\ WordSize > 1
ASSUME TimesBoundAssumption == MaxDepth \in Nat /\ MaxNow \in Nat /\ MaxCalls \in Nat

VARIABLES
  opt_c, opt_T,       \* the options
  now,                \* the clock, seen with -T and -c only
  callstack,          \* sequence of frames [name, time_spent, call]
  calls,              \* history: calls that began; it numbers them
  current_time_spent, \* the static of process_event.c
  dict_opt_c,         \* for each name, its [count, tv]
  pending,            \* the call whose left half the last line ends with, or 0
  old_tv, clock_r,    \* -r: the time of the last line; history: the time of
                      \* the first with all that was shown added
  returns, spent,     \* history: for each name, returns and the time that was
                      \* found for them
  summary             \* what show_summary did: [state, rows, total]

timesVars == <<opt_c, opt_T, now, callstack, calls, current_time_spent, dict_opt_c,
               pending, old_tv, clock_r, returns, spent, summary>>

\* struct timeval
Timeval(sec, usec) == [tv_sec |-> sec, tv_usec |-> usec]
Gettimeofday == Timeval(now \div UsecPerSec, now % UsecPerSec)
Zero == Timeval(0, 0)

\* The microseconds of a timeval
Usecs(tv) == tv.tv_sec * UsecPerSec + tv.tv_usec

----
(* process_event.c and output.c.                                           *)

\* calc_time_spent, for the call that began at since: where it should borrow
\* a second it adds one
Borrows(since) == Gettimeofday.tv_usec < since.tv_usec
TimeSpent(since) ==
  LET sec == Gettimeofday.tv_sec - since.tv_sec
      usec == Gettimeofday.tv_usec - since.tv_usec
  IN IF Borrows(since) THEN Timeval(sec + 1, UsecPerSec + usec) ELSE Timeval(sec, usec)

\* Mutant: a carry of the seconds is forgotten
AddTime_NoCarry(st, tv) ==
  [count |-> st.count + 1,
   tv |-> Timeval(st.tv.tv_sec + tv.tv_sec, (st.tv.tv_usec + tv.tv_usec) % UsecPerSec)]

\* output_right with -c: an entry of the table with one call more
AddTime(st, tv) ==
  LET carry == st.tv.tv_usec + tv.tv_usec > UsecPerSec
      usec == st.tv.tv_usec + tv.tv_usec
  IN [count |-> st.count + 1,
      tv |-> Timeval(st.tv.tv_sec + tv.tv_sec + (IF carry THEN 1 ELSE 0),
                     IF carry THEN usec - UsecPerSec ELSE usec)]

\* The entry of a name, entered with zeros when there is none
Entry(name) ==
  IF name \in DOMAIN dict_opt_c THEN dict_opt_c[name] ELSE [count |-> 0, tv |-> Zero]

CountCall(name, tv) ==
  dict_opt_c' = [n \in DOMAIN dict_opt_c \cup {name} |->
                   IF n = name THEN AddTime(Entry(name), tv) ELSE dict_opt_c[n]]

\* Mutant: borrows as calc_time_spent does
Since_AddsSecond(old) == TimeSpent(old)

\* begin_of_line with -r: the time since the last line, whose borrow is right
Since(old) ==
  LET sec == Gettimeofday.tv_sec - old.tv_sec
      usec == Gettimeofday.tv_usec - old.tv_usec
  IN IF usec >= 0 THEN Timeval(sec, usec) ELSE Timeval(sec - 1, UsecPerSec + usec)

BeginOfLine ==
  /\ clock_r' = IF old_tv = Zero THEN now ELSE clock_r + Usecs(Since(old_tv))
  /\ old_tv' = Gettimeofday

\* callstack_push_*: a frame beyond the limit is refused
PushFrame(name) ==
  callstack' =
    IF Len(callstack) = MaxDepth THEN callstack
    ELSE Append(callstack, [name |-> name, time_spent |-> Gettimeofday, call |-> calls + 1])

\* A call begins: output_left, which prints nothing with -c, then the push
TimedEntry(name) ==
  /\ calls < MaxCalls /\ summary.state = "none"
  /\ calls' = calls + 1
  /\ PushFrame(name)
  /\ IF opt_c THEN UNCHANGED <<pending, old_tv, clock_r>>
     ELSE BeginOfLine /\ pending' = calls + 1
  /\ UNCHANGED <<opt_c, opt_T, now, current_time_spent, dict_opt_c, returns, spent, summary>>

\* Mutant: the time of the innermost call
Ended_Innermost(i) == callstack[Len(callstack)]

\* The call whose time calc_time_spent takes: the frames above it are gone
Ended(i) == callstack[i]

\* The microseconds calc_time_spent finds for a call; what is wrong with them
\* is in TimeIsElapsed
Took(frame) == Usecs(TimeSpent(frame.time_spent))

\* The call of frame i ends: calc_time_spent, the pop and output_right
TimedReturn(i) ==
  LET name == callstack[i].name
      tv == TimeSpent(Ended(i).time_spent)
  IN /\ summary.state = "none"
     /\ callstack' = SubSeq(callstack, 1, i - 1)
     /\ current_time_spent' = IF opt_T \/ opt_c THEN tv ELSE current_time_spent
     /\ IF opt_c THEN CountCall(name, tv) ELSE UNCHANGED dict_opt_c
     /\ IF opt_c \/ pending = callstack[i].call THEN UNCHANGED <<old_tv, clock_r>>
        ELSE BeginOfLine
     /\ pending' = 0
     /\ returns' = [returns EXCEPT ![name] = @ + 1]
     /\ spent' = [spent EXCEPT ![name] = @ + Took(callstack[i])]
     /\ UNCHANGED <<opt_c, opt_T, now, calls, summary>>

Tick ==
  /\ (opt_T \/ opt_c) /\ now < MaxNow /\ summary.state = "none"
  /\ now' = now + 1
  /\ UNCHANGED <<opt_c, opt_T, callstack, calls, current_time_spent, dict_opt_c, pending,
                 old_tv, clock_r, returns, spent, summary>>

----
(* summary.c.                                                              *)

\* tot_usecs, which wraps
SumUsecs(S) ==
  LET sum[T \in SUBSET S] ==
        IF T = {} THEN 0
        ELSE LET n == CHOOSE n \in T : TRUE IN Usecs(dict_opt_c[n].tv) + sum[T \ {n}]
  IN sum[S]

\* Mutant: adds up the microseconds and not the seconds
TotUsecs_NoSeconds ==
  LET usecs == {n \in DOMAIN dict_opt_c : dict_opt_c[n].tv.tv_usec > 0}
  IN SumUsecs(usecs) % UsecPerSec

TotUsecs == SumUsecs(DOMAIN dict_opt_c) % WordSize

\* An int of the same bits
AsInt(x) == LET w == x % WordSize IN IF w < WordSize \div 2 THEN w ELSE w - WordSize

\* compar: the longer time first
Before(n, m) ==
  \/ dict_opt_c[n].tv.tv_sec > dict_opt_c[m].tv.tv_sec
  \/ /\ dict_opt_c[n].tv.tv_sec = dict_opt_c[m].tv.tv_sec
     /\ dict_opt_c[n].tv.tv_usec >= dict_opt_c[m].tv.tv_usec

\* Mutant: in the order of the table
Sorted_Unsorted ==
  {order \in [1..Cardinality(DOMAIN dict_opt_c) -> DOMAIN dict_opt_c] :
     \A i, j \in DOMAIN order : i < j => order[i] # order[j]}

\* qsort: entries that compare equal come in any order
Sorted ==
  {order \in [1..Cardinality(DOMAIN dict_opt_c) -> DOMAIN dict_opt_c] :
     \A i, j \in DOMAIN order : i < j => order[i] # order[j] /\ Before(order[i], order[j])}

\* A row: the name, its calls, its seconds, and its share in thousandths of
\* a percent; p is 5 more, which rounds the two decimals shown.  A negative c
\* becomes a huge unsigned number, and no share
Row(n) ==
  LET c == AsInt(Usecs(dict_opt_c[n].tv))
  IN [name |-> n, count |-> dict_opt_c[n].count, tv |-> dict_opt_c[n].tv,
      share |-> IF c < 0 THEN -1 ELSE (100000 * c) \div TotUsecs]

\* show_summary, which divides by tot_usecs in each row
ShowSummary ==
  /\ opt_c /\ summary.state = "none"
  /\ IF TotUsecs = 0 /\ DOMAIN dict_opt_c # {}
     THEN summary' = [summary EXCEPT !.state = "crashed"]
     ELSE \E order \in Sorted :
            summary' = [state |-> "shown", rows |-> [i \in DOMAIN order |-> Row(order[i])],
                        total |-> TotUsecs]
  /\ UNCHANGED <<opt_c, opt_T, now, callstack, calls, current_time_spent, dict_opt_c,
                 pending, old_tv, clock_r, returns, spent>>

----

TimesInit ==
  /\ opt_c \in BOOLEAN /\ opt_T \in BOOLEAN
  /\ now \in 1..UsecPerSec
  /\ callstack = << >> /\ calls = 0
  /\ current_time_spent = Zero
  /\ dict_opt_c = << >>
  /\ pending = 0 /\ old_tv = Zero /\ clock_r = 0
  /\ returns = [n \in Name |-> 0] /\ spent = [n \in Name |-> 0]
  /\ summary = [state |-> "none", rows |-> << >>, total |-> 0]

TimesNext ==
  \/ Tick
  \/ \E n \in Name : TimedEntry(n)
  \/ \E i \in DOMAIN callstack : TimedReturn(i)
  \/ ShowSummary

TimesSpec == TimesInit /\ [][TimesNext]_timesVars

----
(* Properties.                                                             *)

\* The microseconds since the call of frame i began
Elapsed(i) == now - Usecs(callstack[i].time_spent)

\* -T shows the time inside the call that returned, after a longjmp out of
\* inner calls as well: its microseconds always, and all of it when the clock
\* is not earlier in its second than when the call began (process_event.c
\* 177-196, 273-282)
TimeShown ==
  [][\A i \in DOMAIN callstack :
       TimedReturn(i) /\ opt_T =>
         /\ current_time_spent'.tv_usec = Elapsed(i) % UsecPerSec
         /\ now % UsecPerSec >= callstack[i].time_spent.tv_usec
              => Usecs(current_time_spent') = Elapsed(i)]_timesVars

\* "-T: Show the time spent inside each call. This records the time
\* difference between the beginning and the end of each call" (ltrace.1
\* 120-122).  What process_event.c 192 does where it should borrow a second
TimeIsElapsed ==
  [][\A i \in DOMAIN callstack :
       TimedReturn(i) /\ opt_T => Usecs(current_time_spent') = Elapsed(i)]_timesVars

\* The entries of -c count the returns and add up the times found for them; a
\* carry may leave a full second in the microseconds (output.c 230-255)
TableAddsUp ==
  \A n \in Name :
    LET entry == Entry(n)
    IN opt_c => /\ entry.count = returns[n]
                /\ Usecs(entry.tv) = spent[n]
                /\ entry.tv.tv_usec \in 0..UsecPerSec

\* With -r, whoever adds up the times shown knows when each line was begun
\* (output.c 47-70)
RelativeTimesAddUp == old_tv # Zero => clock_r = Usecs(old_tv)

\* The sum of the shares shown
SharesUpTo(rows) ==
  LET sum[k \in 0..Len(rows)] == IF k = 0 THEN 0 ELSE sum[k - 1] + rows[k].share
  IN sum[Len(rows)]

\* As long as the times fit an int, the summary has one row for each name
\* called, with the time found for it, the longest first, and the shares make
\* 100 % up to their rounding (summary.c 37-79)
SummaryRight ==
  LET rows == summary.rows
      fits == SumUsecs(DOMAIN dict_opt_c) < WordSize \div 2
  IN summary.state = "shown" /\ fits =>
       /\ {rows[i].name : i \in DOMAIN rows} = {n \in Name : returns[n] > 0}
       /\ \A i \in DOMAIN rows : Usecs(rows[i].tv) = spent[rows[i].name]
       /\ \A i, j \in DOMAIN rows : i < j => Usecs(rows[i].tv) >= Usecs(rows[j].tv)
       /\ rows # << >> => SharesUpTo(rows) \in (100000 - Len(rows) + 1)..100000

\* The summary is lost, in a division by zero, only when no time was found
\* for any call or the times do not fit a word (summary.c 67)
SummaryShown ==
  summary.state = "crashed" =>
    \/ \A n \in Name : spent[n] = 0
    \/ SumUsecs(DOMAIN dict_opt_c) >= WordSize

====
