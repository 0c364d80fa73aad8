---- MODULE ReportProofs ----
(***************************************************************************)
(* What Report says of the calls of a thread, for all configuration files, *)
(* clocks, limits and numbers of calls.                                    *)
(***************************************************************************)
EXTENDS Report, SequenceTheorems, FiniteSetTheorems, WellFoundedInduction, TLAPS

----
(* The prototypes.                                                         *)

ArgType == Type \cup {"unknown"}

\* A prototype, with what SoundPrototype needs
IsPrototype(f) ==
  /\ f = [return_type |-> f.return_type, name |-> f.name, arg_types |-> f.arg_types,
          params_right |-> f.params_right]
  /\ f.arg_types \in Seq(ArgType)
  /\ SoundPrototype(f)

ConfigInv ==
  /\ IsPrototype(fun)
  /\ \E n \in Nat : DOMAIN list_of_functions = 1..n
                      /\ list_of_functions = [i \in 1..n |-> list_of_functions[i]]
  /\ \A i \in DOMAIN list_of_functions : IsPrototype(list_of_functions[i])

\* A prototype that has its counts
LEMMA NewPrototype ==
  ASSUME NEW ret, NEW name, NEW args \in Seq(ArgType), NEW right \in 0..Len(args),
         Len(args) <= MaxArgs
  PROVE  IsPrototype([return_type |-> ret, name |-> name, arg_types |-> args,
                      params_right |-> right])
BY LenProperties, MaxAssumption DEF IsPrototype, SoundPrototype, num_params

LEMMA NoArguments ==
  ASSUME NEW ret, NEW name
  PROVE  IsPrototype([return_type |-> ret, name |-> name, arg_types |-> << >>,
                      params_right |-> 0])
<1>1. << >> \in Seq(ArgType) /\ Len(<< >>) = 0
  BY EmptySeq
<1>2. 0 \in 0..Len(<< >>) /\ Len(<< >>) <= MaxArgs
  BY <1>1, MaxAssumption
<1> QED
  BY <1>1, <1>2, NewPrototype

LEMMA NoPrototype == IsPrototype(NoFunction)
BY NoArguments DEF NoFunction

LEMMA ReadLineStep ==
  ASSUME ConfigInv, ReadLine
  PROVE  ConfigInv'
<1>1. UNCHANGED list_of_functions /\ (fun' = fun \/ \E ret, name :
        fun' = [return_type |-> ret, name |-> name, arg_types |-> << >>, params_right |-> 0])
  BY DEF ReadLine, BeginLine
<1>2. IsPrototype(fun')
  <2>1. CASE fun' = fun
    BY <2>1 DEF ConfigInv
  <2>2. ASSUME NEW ret, NEW name,
               fun' = [return_type |-> ret, name |-> name, arg_types |-> << >>, params_right |-> 0]
        PROVE  IsPrototype(fun')
    BY <2>2, NoArguments
  <2> QED
    BY <1>1, <2>1, <2>2
<1> QED
  BY <1>1, <1>2 DEF ConfigInv, IsPrototype, SoundPrototype, num_params

LEMMA ReadArgStep ==
  ASSUME ConfigInv, ReadArg
  PROVE  ConfigInv'
<1>1. PICK pt \in ArgType :
        /\ fun' = [fun EXCEPT !.arg_types = Append(@, pt), !.params_right = NewParamsRight]
        /\ ~ArgsEnd /\ UNCHANGED list_of_functions
  BY DEF ReadArg, Str2Type, TypeAt, ArgType
<1>2. /\ fun = [return_type |-> fun.return_type, name |-> fun.name, arg_types |-> fun.arg_types,
                params_right |-> fun.params_right]
      /\ fun.arg_types \in Seq(ArgType) /\ SoundPrototype(fun)
  BY DEF ConfigInv, IsPrototype
<1>3. fun' = [return_type |-> fun.return_type, name |-> fun.name,
              arg_types |-> Append(fun.arg_types, pt), params_right |-> NewParamsRight]
  BY <1>1, <1>2
<1>4. Append(fun.arg_types, pt) \in Seq(ArgType) /\ Len(Append(fun.arg_types, pt)) = Len(fun.arg_types) + 1
  BY <1>2, AppendProperties
<1>5. Len(fun.arg_types) \in 0..MaxArgs /\ Len(fun.arg_types) # MaxArgs
  BY <1>1, <1>2 DEF ArgsEnd, num_params, SoundPrototype
<1>6. NewParamsRight \in 0..(Len(fun.arg_types) + 1)
  <2>1. fun.params_right \in 0..Len(fun.arg_types)
    BY <1>2 DEF SoundPrototype, num_params
  <2> QED
    BY <1>5, <2>1, MaxAssumption DEF NewParamsRight
<1>7. Len(fun.arg_types) + 1 <= MaxArgs
  BY <1>5, MaxAssumption
<1>8. IsPrototype(fun')
  BY <1>3, <1>4, <1>6, <1>7, NewPrototype
<1> QED
  BY <1>1, <1>8 DEF ConfigInv, IsPrototype, SoundPrototype, num_params

LEMMA AddFunctionStep ==
  ASSUME ConfigInv, AddFunction
  PROVE  ConfigInv'
<1>1. list_of_functions' = <<fun>> \o list_of_functions /\ fun' = fun
  BY DEF AddFunction
<1>2. PICK n \in Nat : /\ DOMAIN list_of_functions = 1..n
                       /\ list_of_functions = [i \in 1..n |-> list_of_functions[i]]
  BY DEF ConfigInv
<1> DEFINE S == {list_of_functions[i] : i \in 1..n} \cup {fun}
<1>3. list_of_functions \in Seq(S) /\ Len(list_of_functions) = n
  <2>1. list_of_functions \in [1..n -> S]
    BY <1>2
  <2> QED
    BY <2>1, SeqDef, LenProperties
<1>4. <<fun>> \in Seq(S) /\ Len(<<fun>>) = 1 /\ <<fun>>[1] = fun
  OBVIOUS
<1>5. /\ list_of_functions' \in Seq(S) /\ Len(list_of_functions') = n + 1
      /\ \A i \in 1..(n + 1) :
           list_of_functions'[i] = IF i <= 1 THEN <<fun>>[i] ELSE list_of_functions[i - 1]
  BY <1>1, <1>3, <1>4, ConcatProperties
<1>6. DOMAIN list_of_functions' = 1..(n + 1) /\ n + 1 \in Nat
        /\ list_of_functions' = [i \in 1..(n + 1) |-> list_of_functions'[i]]
  BY <1>5, LenProperties
<1>7. ASSUME NEW i \in 1..(n + 1)
      PROVE  IsPrototype(list_of_functions'[i])
  <2>1. CASE i = 1
    <3>1. list_of_functions'[i] = fun
      BY <1>4, <1>5, <2>1
    <3> QED
      BY <3>1 DEF ConfigInv
  <2>2. CASE i # 1
    <3>1. i - 1 \in 1..n /\ ~(i <= 1)
      BY <2>2
    <3> QED
      BY <1>2, <1>5, <3>1 DEF ConfigInv
  <2> QED
    BY <2>1, <2>2
<1> QED
  BY <1>1, <1>6, <1>7 DEF ConfigInv, IsPrototype, SoundPrototype, num_params

LEMMA ConfigStep == ConfigInv /\ [ConfigNext]_configVars => ConfigInv'
<1> SUFFICES ASSUME ConfigInv, [ConfigNext]_configVars
             PROVE  ConfigInv'
  OBVIOUS
<1>1. CASE ReadLine
  BY <1>1, ReadLineStep
<1>2. CASE ReadArg
  BY <1>2, ReadArgStep
<1>3. CASE AddFunction
  BY <1>3, AddFunctionStep
<1>4. CASE CloseConfig \/ UNCHANGED configVars
  <2>1. fun' = fun /\ list_of_functions' = list_of_functions
    BY <1>4 DEF CloseConfig, configVars
  <2> QED
    BY <2>1 DEF ConfigInv, IsPrototype, SoundPrototype, num_params
<1> QED
  BY <1>1, <1>2, <1>3, <1>4 DEF ConfigNext

LEMMA ConfigInitially == ConfigInit => ConfigInv
<1> SUFFICES ASSUME ConfigInit
             PROVE  ConfigInv
  OBVIOUS
<1>1. fun = NoFunction /\ list_of_functions = << >>
  BY DEF ConfigInit
<1>2. 0 \in Nat /\ DOMAIN << >> = 1..0 /\ << >> = [i \in 1..0 |-> << >>[i]]
  OBVIOUS
<1> QED
  BY <1>1, <1>2, NoPrototype DEF ConfigInv

\* Every step of Report is one of the files or leaves them alone.
LEMMA ReportConfig == [Next]_vars => [ConfigNext]_configVars
<1> SUFFICES ASSUME [Next]_vars
             PROVE  [ConfigNext]_configVars
  OBVIOUS
<1>1. CASE ReadConfig
  BY <1>1 DEF ReadConfig
<1>2. CASE Tick /\ UNCHANGED <<configVars, reportVars>>
  BY <1>2
<1>3. ASSUME NEW n \in Name, Enter(n)
      PROVE  UNCHANGED configVars
  BY <1>3 DEF Enter
<1>4. ASSUME NEW i \in DOMAIN callstack, Return(i)
      PROVE  UNCHANGED configVars
  BY <1>4 DEF Return
<1>5. CASE Finish
  BY <1>5 DEF Finish
<1>6. CASE UNCHANGED vars
  BY <1>6 DEF vars
<1> QED
  BY <1>1, <1>2, <1>3, <1>4, <1>5, <1>6 DEF Next

----
(* The clock.                                                              *)

Time == [tv_sec : Int, tv_usec : 0..(UsecPerSec - 1)]

\* A sum of -c may have a full second in its microseconds
Sum == [tv_sec : Int, tv_usec : 0..UsecPerSec]
Statistics == [count : Int, tv : Sum]
Frame == [name : Name, time_spent : Time, call : Nat]

LEMMA Distributes ==
  ASSUME NEW x \in Int, NEW y \in Int, NEW u \in Int
  PROVE  (x + y) * u = x * u + y * u /\ (x - y) * u = x * u - y * u
           /\ x * u \in Int /\ 1 * u = u
OBVIOUS

LEMMA TimevalOf ==
  ASSUME NEW sec \in Int, NEW usec \in Int
  PROVE  /\ Timeval(sec, usec).tv_sec = sec /\ Timeval(sec, usec).tv_usec = usec
         /\ usec \in 0..(UsecPerSec - 1) => Timeval(sec, usec) \in Time
         /\ usec \in 0..UsecPerSec => Timeval(sec, usec) \in Sum
         /\ Usecs(Timeval(sec, usec)) = sec * UsecPerSec + usec
BY DEF Timeval, Time, Sum, Usecs

LEMMA ZeroTime == Zero \in Time /\ Zero \in Sum /\ Usecs(Zero) = 0
<1>1. 0 \in 0..(UsecPerSec - 1) /\ 0 \in 0..UsecPerSec /\ 0 * UsecPerSec + 0 = 0
  BY ClockAssumption
<1> QED
  BY <1>1, TimevalOf DEF Zero

LEMMA TimeType ==
  ASSUME NEW t \in Time
  PROVE  /\ t.tv_sec \in Int /\ t.tv_usec \in 0..(UsecPerSec - 1) /\ t.tv_usec \in Int
         /\ t.tv_sec * UsecPerSec \in Int /\ Usecs(t) \in Int
         /\ t \in Sum
BY ClockAssumption DEF Time, Usecs, Sum

\* gettimeofday is the clock, in seconds and microseconds.
LEMMA GettimeofdayIs ==
  ASSUME now \in Nat
  PROVE  Gettimeofday \in Time /\ Usecs(Gettimeofday) = now
<1>1. /\ now \div UsecPerSec \in Int /\ now % UsecPerSec \in 0..(UsecPerSec - 1)
      /\ now = (now \div UsecPerSec) * UsecPerSec + (now % UsecPerSec)
  BY ClockAssumption
<1>2. now % UsecPerSec \in Int
  BY <1>1, ClockAssumption
<1> DEFINE sec == now \div UsecPerSec
           usec == now % UsecPerSec
<1> HIDE DEF sec, usec
<1>3. /\ Timeval(sec, usec) \in Time
      /\ Usecs(Timeval(sec, usec)) = sec * UsecPerSec + usec
  BY <1>1, <1>2, TimevalOf DEF sec, usec
<1> QED
  BY <1>1, <1>3 DEF Gettimeofday, sec, usec

\* calc_time_spent is wrong by two seconds when the microseconds wrapped.
LEMMA TimeSpentIs ==
  ASSUME now \in Nat, NEW t \in Time
  PROVE  /\ TimeSpent(t) \in Time
         /\ Usecs(TimeSpent(t)) = now - Usecs(t) + (IF Borrows(t) THEN 2 * UsecPerSec ELSE 0)
<1> DEFINE g == Gettimeofday
           sec == g.tv_sec - t.tv_sec
           usec == g.tv_usec - t.tv_usec
           u == UsecPerSec
<1>1. g \in Time /\ Usecs(g) = now
  BY GettimeofdayIs
<1>2. /\ g.tv_sec \in Int /\ g.tv_usec \in 0..(u - 1) /\ t.tv_sec \in Int /\ t.tv_usec \in 0..(u - 1)
      /\ g.tv_sec * u \in Int /\ t.tv_sec * u \in Int
      /\ u \in Int /\ sec \in Int /\ usec \in Int
  BY <1>1, TimeType, ClockAssumption
<1>3. sec * u = g.tv_sec * u - t.tv_sec * u /\ (sec + 1) * u = sec * u + u
  <2>1. \A x, y \in Int : (x - y) * u = x * u - y * u /\ (x + y) * u = x * u + y * u /\ 1 * u = u
    BY <1>2, Distributes
  <2>2. sec * u = g.tv_sec * u - t.tv_sec * u
    BY <1>2, <2>1
  <2>3. (sec + 1) * u = sec * u + 1 * u /\ 1 * u = u
    BY <1>2, <2>1
  <2> QED
    BY <2>2, <2>3
<1>4. Usecs(t) = t.tv_sec * u + t.tv_usec /\ now = g.tv_sec * u + g.tv_usec
  BY <1>1 DEF Usecs
<1>5. Borrows(t) <=> usec < 0
  BY <1>2 DEF Borrows
<1>6. CASE usec < 0
  <2>1. TimeSpent(t) = Timeval(sec + 1, u + usec)
    BY <1>5, <1>6 DEF TimeSpent
  <2>2. u + usec \in 0..(u - 1) /\ u + usec \in Int /\ sec + 1 \in Int
    BY <1>2, <1>6
  <2>3. TimeSpent(t) \in Time /\ Usecs(TimeSpent(t)) = (sec + 1) * u + (u + usec)
    BY <2>1, <2>2, TimevalOf
  <2>4. (sec + 1) * u + (u + usec) = now - Usecs(t) + 2 * u
    BY <1>2, <1>3, <1>4
  <2> QED
    BY <1>5, <1>6, <2>3, <2>4
<1>7. CASE ~(usec < 0)
  <2>1. TimeSpent(t) = Timeval(sec, usec)
    BY <1>5, <1>7 DEF TimeSpent
  <2>2. usec \in 0..(u - 1)
    BY <1>2, <1>7
  <2>3. Timeval(sec, usec) \in Time /\ Usecs(Timeval(sec, usec)) = sec * u + usec
    BY <1>2, <2>2, TimevalOf
  <2>4. sec * u + usec = now - Usecs(t) + 0
    BY <1>2, <1>3, <1>4
  <2> QED
    BY <1>5, <1>7, <2>1, <2>3, <2>4
<1> QED
  BY <1>6, <1>7

\* What is left over of whole seconds
LEMMA Remainder ==
  ASSUME NEW q \in Int, NEW r \in 0..(UsecPerSec - 1)
  PROVE  (q * UsecPerSec + r) % UsecPerSec = r
<1> DEFINE u == UsecPerSec
           x == q * u + r
           d == q - x \div u
<1>1. u \in Nat /\ u > 0 /\ q * u \in Int /\ r \in Int /\ x \in Int
  BY ClockAssumption
<1>2. x \div u \in Int /\ x % u \in 0..(u - 1) /\ x = (x \div u) * u + (x % u)
  BY <1>1
<1>3. d \in Int /\ d * u = q * u - (x \div u) * u
  <2>1. d \in Int
    BY <1>2
  <2> HIDE DEF x
  <2> QED
    BY <1>1, <1>2, <2>1, Distributes
<1>4. d * u = (x % u) - r
  <2> DEFINE a == q * u
             b == (x \div u) * u
             y == x % u
  <2>1. a \in Int /\ x = a + r /\ x = b + y /\ y \in Int
    BY <1>1, <1>2
  <2>2. b \in Int
    BY <1>1, <1>2
  <2>3. d * u = a - b
    BY <1>3
  <2> HIDE DEF a, b, y, x, d
  <2> QED
    BY <1>1, <2>1, <2>2, <2>3 DEF y
<1> HIDE DEF d, x
<1>5. -u < d * u /\ d * u < u
  BY <1>1, <1>2, <1>4
<1>6. d = 0
  <2>1. CASE d > 0
    <3>1. (d - 1) * u = d * u - u /\ (d - 1) * u >= 0
      <4>1. (d - 1) * u = d * u - 1 * u /\ 1 * u = u
        BY <1>1, <1>3, Distributes
      <4>2. d - 1 \in Nat
        BY <1>3, <2>1
      <4> QED
        BY <1>1, <4>1, <4>2
    <3> QED
      BY <1>1, <1>3, <1>5, <3>1
  <2>2. CASE d < 0
    <3> DEFINE e == 0 - d
    <3>1. (d + 1) * u = d * u + u
      <4>1. (d + 1) * u = d * u + 1 * u /\ 1 * u = u
        BY <1>1, <1>3, Distributes
      <4> QED
        BY <4>1
    <3>2. e - 1 \in Nat /\ (0 - (d + 1)) = e - 1
      BY <1>3, <2>2
    <3>3. (e - 1) * u >= 0
      BY <1>1, <3>2
    <3>4. (0 - (d + 1)) * u = 0 * u - (d + 1) * u /\ 0 * u = 0
      BY <1>1, <1>3, Distributes
    <3> QED
      BY <1>1, <1>3, <1>5, <3>1, <3>2, <3>3, <3>4
  <2> QED
    BY <1>3, <2>1, <2>2
<1> QED
  BY <1>1, <1>2, <1>4, <1>6 DEF x

\* calc_time_spent gets the microseconds right.
LEMMA MicrosecondsSpent ==
  ASSUME now \in Nat, NEW t \in Time
  PROVE  TimeSpent(t).tv_usec = (now - Usecs(t)) % UsecPerSec
<1> DEFINE s == TimeSpent(t)
           u == UsecPerSec
           e == now - Usecs(t)
<1>1. /\ s \in Time
      /\ Usecs(s) = e + (IF Borrows(t) THEN 2 * u ELSE 0)
  BY TimeSpentIs
<1>2. /\ s.tv_sec \in Int /\ s.tv_usec \in 0..(u - 1) /\ s.tv_sec * u \in Int /\ e \in Int
      /\ s.tv_usec \in Int /\ u \in Int
  BY <1>1, TimeType, ClockAssumption
<1>3. Usecs(s) = s.tv_sec * u + s.tv_usec
  BY DEF Usecs
<1> HIDE DEF s, e
<1>4. CASE Borrows(t)
  <2>1. (s.tv_sec - 2) * u = s.tv_sec * u - 2 * u
    BY <1>2, Distributes
  <2>2. e = (s.tv_sec - 2) * u + s.tv_usec
    BY <1>1, <1>2, <1>3, <1>4, <2>1
  <2>3. s.tv_sec - 2 \in Int
    BY <1>2
  <2> QED
    BY <1>2, <2>2, <2>3, Remainder DEF s, e
<1>5. CASE ~Borrows(t)
  <2>1. e = s.tv_sec * u + s.tv_usec
    BY <1>1, <1>2, <1>3, <1>5
  <2> QED
    BY <1>2, <2>1, Remainder DEF s, e
<1> QED
  BY <1>4, <1>5

\* The subtraction of -r is right.
LEMMA SinceIs ==
  ASSUME now \in Nat, NEW t \in Time
  PROVE  Usecs(Since(t)) = now - Usecs(t)
<1> DEFINE g == Gettimeofday
           sec == g.tv_sec - t.tv_sec
           usec == g.tv_usec - t.tv_usec
           u == UsecPerSec
<1>1. g \in Time /\ Usecs(g) = now
  BY GettimeofdayIs
<1>2. /\ g.tv_sec \in Int /\ g.tv_usec \in Int /\ t.tv_sec \in Int /\ t.tv_usec \in Int
      /\ g.tv_sec * u \in Int /\ t.tv_sec * u \in Int
      /\ u \in Int /\ sec \in Int /\ usec \in Int
  BY <1>1, TimeType, ClockAssumption
<1>3. sec * u = g.tv_sec * u - t.tv_sec * u /\ (sec - 1) * u = sec * u - u
  <2>1. \A x, y \in Int : (x - y) * u = x * u - y * u /\ 1 * u = u
    BY <1>2, Distributes
  <2>2. sec * u = g.tv_sec * u - t.tv_sec * u
    BY <1>2, <2>1
  <2>3. (sec - 1) * u = sec * u - 1 * u /\ 1 * u = u
    BY <1>2, <2>1
  <2> QED
    BY <2>2, <2>3
<1>4. Usecs(t) = t.tv_sec * u + t.tv_usec /\ now = g.tv_sec * u + g.tv_usec
  BY <1>1 DEF Usecs
<1>5. CASE usec >= 0
  <2>1. Usecs(Since(t)) = sec * u + usec
    BY <1>2, <1>5, TimevalOf DEF Since
  <2> QED
    BY <1>2, <1>3, <1>4, <2>1
<1>6. CASE ~(usec >= 0)
  <2>1. Since(t) = Timeval(sec - 1, u + usec)
    BY <1>6 DEF Since
  <2>2. Usecs(Timeval(sec - 1, u + usec)) = (sec - 1) * u + (u + usec)
    <3>1. sec - 1 \in Int /\ u + usec \in Int
      BY <1>2
    <3> QED
      BY <3>1, TimevalOf
  <2> QED
    BY <1>2, <1>3, <1>4, <2>1, <2>2
<1> QED
  BY <1>5, <1>6

\* The carry of -c keeps the sum.
LEMMA AddTimeIs ==
  ASSUME NEW st \in Statistics, NEW t \in Time
  PROVE  /\ AddTime(st, t) \in Statistics
         /\ AddTime(st, t).count = st.count + 1
         /\ Usecs(AddTime(st, t).tv) = Usecs(st.tv) + Usecs(t)
<1> DEFINE u == UsecPerSec
           sec == st.tv.tv_sec + t.tv_sec
           usec == st.tv.tv_usec + t.tv_usec
<1>1. /\ st.tv.tv_sec \in Int /\ st.tv.tv_usec \in 0..u /\ st.count \in Int
      /\ t.tv_sec \in Int /\ t.tv_usec \in 0..(u - 1) /\ u \in Int /\ u > 1
      /\ sec \in Int /\ usec \in Int /\ usec >= 0 /\ usec < u + u
  BY ClockAssumption DEF Statistics, Sum, Time
<1>2. sec * u = st.tv.tv_sec * u + t.tv_sec * u /\ (sec + 1) * u = sec * u + u
      /\ st.tv.tv_sec * u \in Int /\ t.tv_sec * u \in Int
  <2>1. \A x, y \in Int : (x + y) * u = x * u + y * u /\ 1 * u = u /\ x * u \in Int
    BY <1>1, Distributes
  <2>2. sec * u = st.tv.tv_sec * u + t.tv_sec * u
    BY <1>1, <2>1
  <2>3. (sec + 1) * u = sec * u + 1 * u /\ 1 * u = u
    BY <1>1, <2>1
  <2> QED
    BY <1>1, <2>1, <2>2, <2>3
<1>3. Usecs(st.tv) = st.tv.tv_sec * u + st.tv.tv_usec /\ Usecs(t) = t.tv_sec * u + t.tv_usec
  BY DEF Usecs
<1>4. CASE usec > u
  <2>1. AddTime(st, t) = [count |-> st.count + 1, tv |-> Timeval(sec + 1, usec - u)]
    BY <1>4 DEF AddTime
  <2>2. sec + 1 \in Int /\ usec - u \in 0..u /\ usec - u \in Int
    BY <1>1, <1>4
  <2>3. Timeval(sec + 1, usec - u) \in Sum
          /\ Usecs(Timeval(sec + 1, usec - u)) = (sec + 1) * u + (usec - u)
    BY <2>2, TimevalOf
  <2>4. (sec + 1) * u + (usec - u) = Usecs(st.tv) + Usecs(t)
    BY <1>1, <1>2, <1>3
  <2> QED
    BY <1>1, <2>1, <2>3, <2>4 DEF Statistics
<1>5. CASE ~(usec > u)
  <2>1. AddTime(st, t) = [count |-> st.count + 1, tv |-> Timeval(sec + 0, usec)]
    BY <1>5 DEF AddTime
  <2>2. sec + 0 = sec /\ usec \in 0..u
    BY <1>1, <1>5
  <2>3. Timeval(sec, usec) \in Sum /\ Usecs(Timeval(sec, usec)) = sec * u + usec
    BY <1>1, <2>2, TimevalOf
  <2>4. sec * u + usec = Usecs(st.tv) + Usecs(t)
    <3> DEFINE a == st.tv.tv_sec * u
               b == t.tv_sec * u
               x == st.tv.tv_usec
               y == t.tv_usec
    <3>1. sec * u + usec = (a + b) + (x + y)
      BY <1>2
    <3>2. Usecs(st.tv) + Usecs(t) = (a + x) + (b + y)
      BY <1>3
    <3>3. a \in Int /\ b \in Int /\ x \in Int /\ y \in Int
      BY <1>1, <1>2
    <3> HIDE DEF a, b, x, y
    <3>4. (a + b) + (x + y) = (a + x) + (b + y)
      BY <3>3
    <3> QED
      BY <3>1, <3>2, <3>4
  <2> QED
    BY <1>1, <2>1, <2>2, <2>3, <2>4 DEF Statistics
<1> QED
  BY <1>4, <1>5

----
(* The times of the calls.                                                 *)

TableOK ==
  /\ DOMAIN dict_opt_c \subseteq Name
  /\ \A n \in Name : Entry(n) \in Statistics
  /\ \A n \in Name : opt_c => /\ Entry(n).count = returns[n]
                              /\ Usecs(Entry(n).tv) = spent[n]

LinesOK == old_tv \in Time /\ clock_r \in Int /\ RelativeTimesAddUp

TimesInv ==
  /\ now \in Nat /\ calls \in Nat
  /\ callstack \in Seq(Frame)
  /\ returns \in [Name -> Int] /\ spent \in [Name -> Int]
  /\ LinesOK /\ TableOK

LEMMA LineStep ==
  ASSUME now \in Nat, LinesOK, BeginOfLine
  PROVE  LinesOK'
<1>1. /\ clock_r' = (IF old_tv = Zero THEN now ELSE clock_r + Usecs(Since(old_tv)))
      /\ old_tv' = Gettimeofday
  BY DEF BeginOfLine
<1>2. Gettimeofday \in Time /\ Usecs(Gettimeofday) = now
  BY GettimeofdayIs
<1>3. old_tv \in Time /\ Usecs(old_tv) \in Int /\ Usecs(Since(old_tv)) = now - Usecs(old_tv)
  BY TimeType, SinceIs DEF LinesOK
<1>4. clock_r' = now
  BY <1>1, <1>3 DEF LinesOK, RelativeTimesAddUp
<1>5. clock_r' = Usecs(old_tv')
  BY <1>1, <1>2, <1>4
<1> QED
  BY <1>1, <1>2, <1>4, <1>5 DEF LinesOK, RelativeTimesAddUp, Usecs

LEMMA LinesKept ==
  ASSUME LinesOK, UNCHANGED <<old_tv, clock_r>>
  PROVE  LinesOK'
BY DEF LinesOK, RelativeTimesAddUp, Usecs

LEMMA TableKept ==
  ASSUME TableOK, UNCHANGED <<opt_c, dict_opt_c, returns, spent>>
  PROVE  TableOK'
BY DEF TableOK, Entry, Usecs

\* An entry that is counted, and all others.
LEMMA Counting ==
  ASSUME DOMAIN dict_opt_c \subseteq Name, NEW name \in Name, NEW tv, CountCall(name, tv)
  PROVE  /\ DOMAIN dict_opt_c' \subseteq Name
         /\ \A n \in Name : Entry(n)' = IF n = name THEN AddTime(Entry(name), tv) ELSE Entry(n)
BY DEF CountCall, Entry

LEMMA EntryTimes ==
  ASSUME TimesInv, NEW name \in Name, TimedEntry(name)
  PROVE  TimesInv'
<1>1. /\ calls' = calls + 1 /\ PushFrame(name)
      /\ UNCHANGED <<opt_c, now, dict_opt_c, returns, spent>>
      /\ BeginOfLine \/ UNCHANGED <<old_tv, clock_r>>
  BY DEF TimedEntry
<1>2. callstack' \in Seq(Frame)
  <2>1. [name |-> name, time_spent |-> Gettimeofday, call |-> calls + 1] \in Frame
    BY GettimeofdayIs DEF TimesInv, Frame
  <2> QED
    BY <1>1, <2>1, AppendProperties DEF PushFrame, TimesInv
<1>3. LinesOK'
  BY <1>1, LineStep, LinesKept DEF TimesInv
<1> QED
  BY <1>1, <1>2, <1>3, TableKept DEF TimesInv

LEMMA ReturnTimes ==
  ASSUME TimesInv, NEW i \in DOMAIN callstack, TimedReturn(i)
  PROVE  TimesInv'
<1> DEFINE frame == callstack[i]
           name == callstack[i].name
           tv == TimeSpent(callstack[i].time_spent)
<1>1. i \in 1..Len(callstack) /\ Len(callstack) \in Nat /\ frame \in Frame
  BY LenProperties, ElementOfSeq DEF TimesInv
<1>2. name \in Name /\ frame.time_spent \in Time /\ now \in Nat
  BY <1>1 DEF Frame, TimesInv
<1>3. /\ tv \in Time
      /\ Usecs(tv) = Took(frame) /\ Took(frame) \in Int
  <2>1. tv \in Time /\ Usecs(tv) = Took(frame)
    BY <1>2, TimeSpentIs DEF Took
  <2> QED
    BY <2>1, TimeType
<1>4. /\ callstack' = SubSeq(callstack, 1, i - 1)
      /\ IF opt_c THEN CountCall(name, tv) ELSE UNCHANGED dict_opt_c
      /\ BeginOfLine \/ UNCHANGED <<old_tv, clock_r>>
      /\ returns' = [returns EXCEPT ![name] = @ + 1]
      /\ spent' = [spent EXCEPT ![name] = @ + Took(frame)]
      /\ UNCHANGED <<opt_c, now, calls>>
  BY DEF TimedReturn, Ended
<1> HIDE DEF frame, name, tv
<1>5. callstack' \in Seq(Frame)
  BY <1>1, <1>4, SubSeqProperties DEF TimesInv
<1>6. returns' \in [Name -> Int] /\ spent' \in [Name -> Int]
  BY <1>2, <1>3, <1>4 DEF TimesInv
<1>7. LinesOK'
  BY <1>4, LineStep, LinesKept DEF TimesInv
<1>8. TableOK'
  <2>1. CASE opt_c
    <3>1. /\ DOMAIN dict_opt_c' \subseteq Name
          /\ \A n \in Name : Entry(n)' = IF n = name THEN AddTime(Entry(name), tv) ELSE Entry(n)
      BY <1>2, <1>4, <2>1, Counting DEF TimesInv, TableOK
    <3>2. /\ Entry(name) \in Statistics
          /\ Entry(name).count = returns[name] /\ Usecs(Entry(name).tv) = spent[name]
      BY <1>2, <2>1 DEF TimesInv, TableOK
    <3>3. /\ AddTime(Entry(name), tv) \in Statistics
          /\ AddTime(Entry(name), tv).count = returns[name] + 1
          /\ Usecs(AddTime(Entry(name), tv).tv) = spent[name] + Took(frame)
      BY <1>3, <3>2, AddTimeIs
    <3>4. ASSUME NEW n \in Name
          PROVE  /\ Entry(n)' \in Statistics
                 /\ Entry(n)'.count = returns'[n] /\ Usecs(Entry(n)'.tv) = spent'[n]
      <4>1. CASE n = name
        <5>1. returns'[n] = returns[name] + 1 /\ spent'[n] = spent[name] + Took(frame)
          BY <1>2, <1>4, <4>1 DEF TimesInv
        <5> QED
          BY <3>1, <3>3, <4>1, <5>1
      <4>2. CASE n # name
        <5>1. returns'[n] = returns[n] /\ spent'[n] = spent[n] /\ Entry(n)' = Entry(n)
          BY <1>2, <1>4, <3>1, <4>2 DEF TimesInv
        <5> QED
          BY <2>1, <5>1 DEF TimesInv, TableOK
      <4> QED
        BY <4>1, <4>2
    <3>5. \A n \in Name : (Usecs(Entry(n).tv))' = Usecs(Entry(n)'.tv)
      BY DEF Usecs
    <3> QED
      BY <1>4, <3>1, <3>4, <3>5 DEF TableOK
  <2>2. CASE ~opt_c
    BY <1>4, <2>2 DEF TimesInv, TableOK, Entry
  <2> QED
    BY <2>1, <2>2
<1> QED
  BY <1>4, <1>5, <1>6, <1>7, <1>8 DEF TimesInv

LEMMA TimesStep == TimesInv /\ [TimesNext]_timesVars => TimesInv'
<1> SUFFICES ASSUME TimesInv, [TimesNext]_timesVars
             PROVE  TimesInv'
  OBVIOUS
<1>1. CASE Tick
  <2>1. now' \in Nat
    BY <1>1 DEF Tick, TimesInv
  <2>2. UNCHANGED <<calls, callstack, returns, spent, opt_c, dict_opt_c, old_tv, clock_r>>
    BY <1>1 DEF Tick
  <2> QED
    BY <2>1, <2>2, LinesKept, TableKept DEF TimesInv
<1>2. ASSUME NEW n \in Name, TimedEntry(n)
      PROVE  TimesInv'
  BY <1>2, EntryTimes
<1>3. ASSUME NEW i \in DOMAIN callstack, TimedReturn(i)
      PROVE  TimesInv'
  BY <1>3, ReturnTimes
<1>4. CASE ShowSummary \/ UNCHANGED timesVars
  <2>1. UNCHANGED <<now, calls, callstack, returns, spent, opt_c, dict_opt_c, old_tv, clock_r>>
    BY <1>4 DEF ShowSummary, timesVars
  <2> QED
    BY <2>1, LinesKept, TableKept DEF TimesInv
<1> QED
  BY <1>1, <1>2, <1>3, <1>4 DEF TimesNext

LEMMA TimesInitially == TimesInit => TimesInv
<1> SUFFICES ASSUME TimesInit
             PROVE  TimesInv
  OBVIOUS
<1>1. now \in Nat /\ calls \in Nat /\ callstack = << >>
  BY ClockAssumption DEF TimesInit
<1>2. << >> \in Seq(Frame)
  BY EmptySeq
<1>3. returns \in [Name -> Int] /\ spent \in [Name -> Int]
  BY DEF TimesInit
<1>4. LinesOK
  BY ZeroTime DEF TimesInit, LinesOK, RelativeTimesAddUp
<1>5. TableOK
  <2>1. DOMAIN dict_opt_c = {}
    BY DEF TimesInit
  <2>2. \A n \in Name : Entry(n) = [count |-> 0, tv |-> Zero]
    BY <2>1 DEF Entry
  <2>3. [count |-> 0, tv |-> Zero] \in Statistics
    BY ZeroTime DEF Statistics
  <2>4. \A n \in Name : returns[n] = 0 /\ spent[n] = 0
    BY DEF TimesInit
  <2> QED
    BY <2>1, <2>2, <2>3, <2>4, ZeroTime DEF TableOK
<1> QED
  BY <1>1, <1>2, <1>3, <1>4, <1>5 DEF TimesInv

\* Every step of Report is one of the times or leaves them alone.
LEMMA ReportTimes == [Next]_vars => [TimesNext]_timesVars
<1> SUFFICES ASSUME [Next]_vars
             PROVE  [TimesNext]_timesVars
  OBVIOUS
<1>1. CASE ReadConfig
  BY <1>1 DEF ReadConfig
<1>2. CASE Tick /\ UNCHANGED <<configVars, reportVars>>
  BY <1>2 DEF TimesNext
<1>3. ASSUME NEW n \in Name, Enter(n)
      PROVE  TimesNext
  BY <1>3 DEF Enter, TimesNext
<1>4. ASSUME NEW i \in DOMAIN callstack, Return(i)
      PROVE  TimesNext
  BY <1>4 DEF Return, TimesNext
<1>5. CASE Finish
  BY <1>5 DEF Finish, TimesNext
<1>6. CASE UNCHANGED vars
  BY <1>6 DEF vars
<1> QED
  BY <1>1, <1>2, <1>3, <1>4, <1>5, <1>6 DEF Next

----
(* Sums over finite sets and along lists.                                  *)

Below == {ss \in Nat \X Nat : ss[1] < ss[2]}

LEMMA BelowWellFounded == IsWellFoundedOn(Below, Nat)
BY NatLessThanWellFounded DEF OpToRel, Below

LEMMA Least ==
  ASSUME NEW S \in SUBSET Nat, S # {}
  PROVE  \E k \in S : \A j \in S : k <= j
<1>1. PICK k \in S : \A j \in S : <<j, k>> \notin Below
  BY BelowWellFounded, WFMin
<1>2. ASSUME NEW j \in S
      PROVE  ~(j < k)
  BY <1>1 DEF Below
<1> QED
  BY <1>1, <1>2

\* The sums of v over the subsets of S, taking away one element at a time
First(T) == CHOOSE n \in T : TRUE
NextSum(v, f, T) == IF T = {} THEN 0 ELSE v[First(T)] + f[T \ {First(T)}]
Adds(S, v, f) == f = [T \in SUBSET S |-> NextSum(v, f, T)]

LEMMA FirstIs ==
  ASSUME NEW T, T # {}
  PROVE  First(T) \in T
BY DEF First

LEMMA SmallerSets ==
  ASSUME NEW S, IsFiniteSet(S), NEW T \in SUBSET S
  PROVE  /\ Cardinality(T) \in Nat /\ Cardinality(T) <= Cardinality(S)
         /\ \A n \in T : /\ T \ {n} \in SUBSET S
                         /\ Cardinality(T \ {n}) \in Nat
                         /\ Cardinality(T \ {n}) = Cardinality(T) - 1
<1>1. IsFiniteSet(T) /\ Cardinality(T) <= Cardinality(S)
  BY FS_Subset
<1>2. ASSUME NEW n \in T
      PROVE  IsFiniteSet(T \ {n}) /\ Cardinality(T \ {n}) = Cardinality(T) - 1
  BY <1>1, FS_RemoveElement
<1>3. Cardinality(T) \in Nat /\ \A n \in T : Cardinality(T \ {n}) \in Nat
  BY <1>1, <1>2, FS_CardinalityType
<1> QED
  BY <1>1, <1>2, <1>3

LEMMA SumExists ==
  ASSUME NEW S, IsFiniteSet(S), NEW v \in [S -> Int]
  PROVE  \E f \in [SUBSET S -> Int] : Adds(S, v, f)
<1> DEFINE Upto(f, k) == \A T \in SUBSET S : Cardinality(T) <= k => f[T] = NextSum(v, f, T)
           Good(k) == \E f \in [SUBSET S -> Int] : Upto(f, k)
           Bad == {k \in Nat : ~Good(k)}
<1>1. Good(0)
  <2> DEFINE f == [T \in SUBSET S |-> 0]
  <2>1. ASSUME NEW T \in SUBSET S, Cardinality(T) <= 0
        PROVE  T = {}
    <3>1. ASSUME NEW n \in T
          PROVE  FALSE
      <4>1. /\ Cardinality(T \ {n}) \in Nat /\ Cardinality(T) \in Nat
            /\ Cardinality(T \ {n}) = Cardinality(T) - 1
        BY SmallerSets
      <4> QED
        BY <2>1, <4>1
    <3> QED
      BY <3>1
  <2>2. f \in [SUBSET S -> Int] /\ Upto(f, 0)
    BY <2>1 DEF NextSum
  <2> QED
    BY <2>2
<1>2. ASSUME NEW k \in Nat, Good(k)
      PROVE  Good(k + 1)
  <2>1. PICK f \in [SUBSET S -> Int] : Upto(f, k)
    BY <1>2
  <2> DEFINE g == [T \in SUBSET S |-> IF Cardinality(T) = k + 1 THEN NextSum(v, f, T) ELSE f[T]]
  <2>2. \A T \in SUBSET S : T # {} => First(T) \in T
    BY FirstIs
  <2>3. \A T \in SUBSET S : NextSum(v, f, T) \in Int
    BY <2>2 DEF NextSum
  <2>4. g \in [SUBSET S -> Int]
    BY <2>3
  <2>5. ASSUME NEW T \in SUBSET S, Cardinality(T) <= k + 1
        PROVE  g[T] = NextSum(v, g, T)
    <3>1. g[T] = NextSum(v, f, T)
      BY <2>1, <2>5, SmallerSets
    <3>2. CASE T = {}
      BY <3>1, <3>2 DEF NextSum
    <3>3. CASE T # {}
      <4> DEFINE U == T \ {First(T)}
      <4>1. U \in SUBSET S /\ Cardinality(U) = Cardinality(T) - 1 /\ Cardinality(T) \in Nat
        BY <2>2, <3>3, SmallerSets
      <4>2. Cardinality(U) # k + 1
        BY <2>5, <4>1
      <4>3. g[U] = f[U]
        BY <4>1, <4>2
      <4> HIDE DEF g
      <4> QED
        BY <3>1, <3>3, <4>3 DEF NextSum
    <3> QED
      BY <3>2, <3>3
  <2> HIDE DEF g
  <2> QED
    BY <2>4, <2>5
<1>3. Bad = {}
  <2> SUFFICES ASSUME Bad # {}
               PROVE  FALSE
    OBVIOUS
  <2>1. PICK k \in Bad : \A j \in Bad : k <= j
    BY Least
  <2>2. k # 0
    BY <1>1, <2>1
  <2>3. k - 1 \in Nat /\ (k - 1) + 1 = k /\ ~(k <= k - 1)
    BY <2>1, <2>2
  <2>4. k - 1 \notin Bad
    BY <2>1, <2>3
  <2> HIDE DEF Good
  <2>5. Good(k - 1)
    BY <2>3, <2>4
  <2> QED
    BY <1>2, <2>1, <2>3, <2>5
<1>4. PICK f \in [SUBSET S -> Int] : Upto(f, Cardinality(S))
  BY <1>3, FS_CardinalityType
<1>5. \A T \in SUBSET S : f[T] = NextSum(v, f, T)
  BY <1>4, SmallerSets
<1>6. Adds(S, v, f)
  BY <1>5 DEF Adds
<1> QED
  BY <1>6

\* It does not matter which element is taken away first.
IsSum(S, v, f) ==
  /\ f[{}] = 0
  /\ \A T \in SUBSET S : f[T] \in Int
  /\ \A T \in SUBSET S : \A x \in T : f[T] = v[x] + f[T \ {x}]

LEMMA SumWithout ==
  ASSUME NEW S, IsFiniteSet(S), NEW v \in [S -> Int], NEW f, Adds(S, v, f)
  PROVE  IsSum(S, v, f)
<1>1. \A T \in SUBSET S : f[T] = NextSum(v, f, T)
  BY DEF Adds
<1> DEFINE Right(T) == f[T] \in Int /\ \A x \in T : f[T] = v[x] + f[T \ {x}]
           Bad == {T \in SUBSET S : ~Right(T)}
           Sizes == {Cardinality(T) : T \in Bad}
<1>2. f[{}] = 0
  BY <1>1 DEF NextSum
<1>3. Bad = {}
  <2> SUFFICES ASSUME Bad # {}
               PROVE  FALSE
    OBVIOUS
  <2>1. Sizes \in SUBSET Nat /\ Sizes # {}
    BY SmallerSets
  <2>2. PICK k \in Sizes : \A j \in Sizes : k <= j
    BY <2>1, Least
  <2>3. PICK T \in Bad : Cardinality(T) = k
    BY <2>2
  <2>4. T # {}
    <3>1. Right({})
      BY <1>2
    <3> QED
      BY <2>3, <3>1
  <2> DEFINE m == First(T)
  <2>5. m \in T /\ f[T] = v[m] + f[T \ {m}]
    BY <1>1, <2>4, FirstIs DEF NextSum
  <2> HIDE DEF m
  <2>6. ASSUME NEW n \in T
        PROVE  T \ {n} \in SUBSET S /\ Right(T \ {n})
    <3>1. /\ T \ {n} \in SUBSET S /\ Cardinality(T \ {n}) = k - 1
          /\ k \in Nat /\ Cardinality(T \ {n}) \in Nat
      BY <2>3, SmallerSets
    <3>2. ~(k <= k - 1)
      BY <3>1
    <3>3. T \ {n} \notin Bad
      BY <2>2, <3>1, <3>2
    <3> HIDE DEF Right
    <3> QED
      BY <3>1, <3>3
  <2>7. f[T] \in Int
    <3>1. f[T \ {m}] \in Int /\ v[m] \in Int
      BY <2>5, <2>6
    <3> QED
      BY <2>5, <3>1
  <2>8. ASSUME NEW n \in T, n # m
        PROVE  f[T] = v[n] + f[T \ {n}]
    <3>1. n \in T \ {m} /\ m \in T \ {n} /\ (T \ {m}) \ {n} = (T \ {n}) \ {m}
      BY <2>5, <2>8
    <3>2. f[T \ {m}] = v[n] + f[(T \ {m}) \ {n}]
      BY <2>5, <2>6, <3>1
    <3>3. f[T \ {n}] = v[m] + f[(T \ {m}) \ {n}]
      BY <2>6, <3>1
    <3>4. f[T \ {n}] \in Int /\ v[n] \in Int /\ v[m] \in Int
      BY <2>5, <2>6
    <3>5. f[(T \ {m}) \ {n}] \in Int
      <4>1. /\ T \ {m} \in SUBSET S /\ Cardinality(T \ {m}) = k - 1
            /\ k \in Nat /\ Cardinality(T \ {m}) \in Nat
        BY <2>3, <2>5, SmallerSets
      <4> DEFINE U == T \ {m}
      <4>2. U \ {n} \in SUBSET S /\ Cardinality(U \ {n}) = (k - 1) - 1
        <5>1. U \in SUBSET S /\ n \in U /\ Cardinality(U) = k - 1
          BY <3>1, <4>1
        <5> HIDE DEF U
        <5> QED
          BY <5>1, SmallerSets
      <4>3. ~(k <= (k - 1) - 1)
        BY <4>1
      <4>4. (T \ {m}) \ {n} \notin Bad
        BY <2>2, <4>2, <4>3
      <4> QED
        BY <4>2, <4>4
    <3> QED
      BY <2>5, <3>2, <3>3, <3>4, <3>5
  <2>9. Right(T)
    BY <2>5, <2>7, <2>8
  <2> QED
    BY <2>3, <2>9
<1> QED
  BY <1>2, <1>3 DEF IsSum

\* The sum of naturals is no less than any of them.
LEMMA SumOfNaturals ==
  ASSUME NEW S, IsFiniteSet(S), NEW v \in [S -> Nat], NEW f, Adds(S, v, f)
  PROVE  /\ \A T \in SUBSET S : f[T] \in Nat
         /\ \A n \in S : v[n] <= f[S]
<1> DEFINE Bad == {T \in SUBSET S : f[T] \notin Nat}
           Sizes == {Cardinality(T) : T \in Bad}
<1>1. v \in [S -> Int]
  OBVIOUS
<1>2. /\ f[{}] = 0
      /\ \A T \in SUBSET S : f[T] \in Int
      /\ \A T \in SUBSET S : \A x \in T : f[T] = v[x] + f[T \ {x}]
  BY <1>1, SumWithout DEF IsSum
<1>3. Bad = {}
  <2> SUFFICES ASSUME Bad # {}
               PROVE  FALSE
    OBVIOUS
  <2>1. Sizes \in SUBSET Nat /\ Sizes # {}
    BY SmallerSets
  <2>2. PICK k \in Sizes : \A j \in Sizes : k <= j
    BY <2>1, Least
  <2>3. PICK T \in Bad : Cardinality(T) = k
    BY <2>2
  <2>4. PICK n \in T : TRUE
    <3>1. {} \notin Bad
      BY <1>2
    <3> QED
      BY <2>3, <3>1
  <2>5. /\ T \ {n} \in SUBSET S /\ Cardinality(T \ {n}) = k - 1 /\ k \in Nat
    BY <2>3, <2>4, SmallerSets
  <2>6. ~(k <= k - 1)
    BY <2>5
  <2>7. T \ {n} \notin Bad
    BY <2>2, <2>5, <2>6
  <2>8. f[T] = v[n] + f[T \ {n}] /\ v[n] \in Nat /\ f[T \ {n}] \in Nat
    BY <1>2, <2>3, <2>4, <2>5, <2>7
  <2> QED
    BY <2>3, <2>8
<1>4. ASSUME NEW n \in S
      PROVE  v[n] <= f[S]
  <2>1. f[S] = v[n] + f[S \ {n}] /\ f[S \ {n}] \in Nat /\ v[n] \in Nat
    BY <1>2, <1>3
  <2> QED
    BY <2>1
<1> QED
  BY <1>3, <1>4

\* A value that grows along 1..n by step[i][the value so far]
Grows(n, first, step, f) == \A k \in 0..n : f[k] = IF k = 0 THEN first ELSE step[k][f[k - 1]]

LEMMA GrowthExists ==
  ASSUME NEW n \in Nat, NEW V, NEW first \in V, NEW step \in [1..n -> [V -> V]]
  PROVE  \E f \in [0..n -> V] : Grows(n, first, step, f)
<1> DEFINE Upto(f, k) == \A j \in 0..n : j <= k => f[j] = IF j = 0 THEN first ELSE step[j][f[j - 1]]
           Good(k) == \E f \in [0..n -> V] : Upto(f, k)
           Bad == {k \in 0..n : ~Good(k)}
<1>1. Good(0)
  <2> DEFINE f == [j \in 0..n |-> first]
  <2>1. f \in [0..n -> V] /\ Upto(f, 0)
    OBVIOUS
  <2> QED
    BY <2>1
<1>2. ASSUME NEW k \in 0..n, k + 1 \in 0..n, Good(k)
      PROVE  Good(k + 1)
  <2>1. PICK f \in [0..n -> V] : Upto(f, k)
    BY <1>2
  <2> DEFINE g == [j \in 0..n |-> IF j = k + 1 THEN step[k + 1][f[k]] ELSE f[j]]
  <2>2. k + 1 \in 1..n /\ f[k] \in V /\ step[k + 1][f[k]] \in V
    <3>1. k + 1 \in 1..n /\ f[k] \in V
      BY <1>2, <2>1
    <3>2. step[k + 1] \in [V -> V]
      BY <3>1
    <3> QED
      BY <3>1, <3>2
  <2>3. g \in [0..n -> V]
    BY <2>1, <2>2
  <2>4. ASSUME NEW j \in 0..n, j <= k + 1
        PROVE  g[j] = IF j = 0 THEN first ELSE step[j][g[j - 1]]
    <3>1. CASE j = k + 1
      <4>1. g[j] = step[k + 1][f[k]] /\ j # 0 /\ j - 1 = k /\ k # k + 1 /\ g[k] = f[k]
        BY <3>1
      <4> HIDE DEF g
      <4> QED
        BY <3>1, <4>1
    <3>2. CASE j # k + 1
      <4>1. j <= k /\ (j # 0 => j - 1 \in 0..n /\ j - 1 # k + 1)
        BY <2>4, <3>2
      <4>2. g[j] = f[j] /\ (j # 0 => g[j - 1] = f[j - 1])
        BY <3>2, <4>1
      <4> HIDE DEF g
      <4> QED
        BY <2>1, <4>1, <4>2
    <3> QED
      BY <3>1, <3>2
  <2> HIDE DEF g
  <2> QED
    BY <2>3, <2>4
<1>3. Bad = {}
  <2> SUFFICES ASSUME Bad # {}
               PROVE  FALSE
    OBVIOUS
  <2>1. Bad \in SUBSET Nat
    OBVIOUS
  <2>2. PICK k \in Bad : \A j \in Bad : k <= j
    BY <2>1, Least
  <2>3. k # 0 /\ k \in 0..n
    BY <1>1, <2>2
  <2>4. k - 1 \in 0..n /\ (k - 1) + 1 = k /\ ~(k <= k - 1)
    BY <2>3
  <2>5. k - 1 \notin Bad
    BY <2>2, <2>4
  <2> HIDE DEF Good
  <2>6. Good(k - 1)
    BY <2>4, <2>5
  <2> QED
    BY <1>2, <2>2, <2>3, <2>4, <2>6
<1>4. PICK f \in [0..n -> V] : Upto(f, n)
  <2>1. n \in 0..n
    OBVIOUS
  <2> HIDE DEF Upto
  <2> QED
    BY <1>3, <2>1
<1>5. Grows(n, first, step, f)
  BY <1>4 DEF Grows
<1> QED
  BY <1>5

----
(* The summary.                                                            *)

UsecsOf == [n \in DOMAIN dict_opt_c |-> Usecs(dict_opt_c[n].tv)]

\* No time is negative, and whoever is in the table has returned.
TallyInv ==
  /\ \A i \in 1..Len(callstack) : Usecs(callstack[i].time_spent) <= now
  /\ returns \in [Name -> Nat] /\ spent \in [Name -> Nat]
  /\ IsFiniteSet(DOMAIN dict_opt_c)
  /\ \A n \in DOMAIN dict_opt_c : returns[n] > 0

\* What show_summary did is still what it would do.
SummaryInv ==
  /\ summary = [state |-> summary.state, rows |-> summary.rows, total |-> summary.total]
  /\ summary.state # "none" => opt_c
  /\ summary.state = "crashed" => TotUsecs = 0
  /\ summary.state = "shown" =>
       /\ TotUsecs # 0 \/ DOMAIN dict_opt_c = {}
       /\ \E order \in Sorted : summary.rows = [i \in DOMAIN order |-> Row(order[i])]

LEMMA TallyEntry ==
  ASSUME TimesInv, TallyInv, NEW name \in Name, TimedEntry(name)
  PROVE  TallyInv'
<1> DEFINE n == Len(callstack)
           frame == [name |-> name, time_spent |-> Gettimeofday, call |-> calls + 1]
<1>1. n \in Nat /\ callstack \in Seq(Frame) /\ Usecs(Gettimeofday) = now /\ now \in Int
  BY LenProperties, GettimeofdayIs DEF TimesInv
<1>2. frame \in Frame
  BY GettimeofdayIs DEF TimesInv, Frame
<1>3. UNCHANGED <<now, dict_opt_c, returns, spent>> /\ PushFrame(name)
  BY DEF TimedEntry
<1>4. ASSUME NEW i \in 1..Len(callstack')
      PROVE  Usecs(callstack'[i].time_spent) <= now
  <2>1. CASE callstack' = callstack
    BY <2>1 DEF TallyInv
  <2>2. CASE callstack' = Append(callstack, frame)
    <3>1. /\ i \in 1..(n + 1)
          /\ callstack'[i] = IF i = n + 1 THEN frame ELSE callstack[i]
      BY <1>1, <1>2, <2>2, AppendProperties
    <3>2. CASE i = n + 1
      BY <1>1, <3>1, <3>2
    <3>3. CASE i # n + 1
      <4>1. i \in 1..n /\ callstack'[i] = callstack[i]
        BY <1>1, <3>1, <3>3
      <4> QED
        BY <4>1 DEF TallyInv
    <3> QED
      BY <3>2, <3>3
  <2> QED
    BY <1>3, <2>1, <2>2 DEF PushFrame
<1> QED
  BY <1>3, <1>4 DEF TallyInv, Usecs

LEMMA TallyReturn ==
  ASSUME TimesInv, TallyInv, NEW i \in DOMAIN callstack, TimedReturn(i)
  PROVE  TallyInv'
<1> DEFINE frame == callstack[i]
           name == callstack[i].name
<1>1. i \in 1..Len(callstack) /\ Len(callstack) \in Nat /\ frame \in Frame
  BY LenProperties, ElementOfSeq DEF TimesInv
<1>2. name \in Name /\ now \in Nat /\ frame.time_spent \in Time
  BY <1>1 DEF Frame, TimesInv
<1>3. Took(frame) \in Nat
  <2>1. Usecs(frame.time_spent) \in Int /\ Usecs(frame.time_spent) <= now
    BY <1>1, <1>2, TimeType DEF TallyInv
  <2>2. now - Usecs(frame.time_spent) \in Nat /\ 2 * UsecPerSec \in Nat
    BY <1>2, <2>1, ClockAssumption
  <2>3. Took(frame) = now - Usecs(frame.time_spent)
                        + (IF Borrows(frame.time_spent) THEN 2 * UsecPerSec ELSE 0)
    BY <1>2, TimeSpentIs DEF Took
  <2> HIDE DEF frame
  <2> QED
    BY <2>2, <2>3
<1>4. /\ callstack' = SubSeq(callstack, 1, i - 1)
      /\ opt_c => \E tv : CountCall(name, tv)
      /\ ~opt_c => UNCHANGED dict_opt_c
      /\ returns' = [returns EXCEPT ![name] = @ + 1]
      /\ spent' = [spent EXCEPT ![name] = @ + Took(frame)]
      /\ now' = now
  BY DEF TimedReturn, Ended
<1> HIDE DEF frame, name
<1>5. \A k \in 1..Len(callstack') : Usecs(callstack'[k].time_spent) <= now
  <2>1. /\ Len(callstack') = i - 1
        /\ \A k \in 1..(i - 1) : callstack'[k] = callstack[k] /\ k \in 1..Len(callstack)
    BY <1>1, <1>4, SubSeqProperties DEF TimesInv
  <2> QED
    BY <2>1 DEF TallyInv
<1>6. returns' \in [Name -> Nat] /\ spent' \in [Name -> Nat]
  BY <1>2, <1>3, <1>4 DEF TallyInv
<1>7. \A n \in Name : returns[n] > 0 \/ n = name => returns'[n] > 0
  BY <1>2, <1>4 DEF TallyInv
<1>8. /\ DOMAIN dict_opt_c' \subseteq DOMAIN dict_opt_c \cup {name}
      /\ IsFiniteSet(DOMAIN dict_opt_c')
  <2>1. CASE opt_c
    <3>1. DOMAIN dict_opt_c' = DOMAIN dict_opt_c \cup {name}
      BY <1>4, <2>1 DEF CountCall
    <3> QED
      BY <3>1, FS_AddElement DEF TallyInv
  <2>2. CASE ~opt_c
    BY <1>4, <2>2 DEF TallyInv
  <2> QED
    BY <2>1, <2>2
<1>9. \A n \in DOMAIN dict_opt_c' : returns'[n] > 0
  BY <1>2, <1>7, <1>8 DEF TallyInv, TimesInv, TableOK
<1> QED
  BY <1>4, <1>5, <1>6, <1>8, <1>9 DEF TallyInv, Usecs

LEMMA TallyStep == TimesInv /\ TallyInv /\ [TimesNext]_timesVars => TallyInv'
<1> SUFFICES ASSUME TimesInv, TallyInv, [TimesNext]_timesVars
             PROVE  TallyInv'
  OBVIOUS
<1>1. CASE Tick
  <2>1. now' = now + 1 /\ now \in Nat /\ UNCHANGED <<callstack, dict_opt_c, returns, spent>>
    BY <1>1 DEF Tick, TimesInv
  <2>2. ASSUME NEW i \in 1..Len(callstack)
        PROVE  Usecs(callstack[i].time_spent) <= now + 1
    <3>1. callstack[i] \in Frame
      BY ElementOfSeq DEF TimesInv
    <3>2. Usecs(callstack[i].time_spent) \in Int
      BY <3>1, TimeType DEF Frame
    <3> QED
      BY <2>1, <3>2 DEF TallyInv
  <2> QED
    BY <2>1, <2>2 DEF TallyInv, Usecs
<1>2. ASSUME NEW n \in Name, TimedEntry(n)
      PROVE  TallyInv'
  BY <1>2, TallyEntry
<1>3. ASSUME NEW i \in DOMAIN callstack, TimedReturn(i)
      PROVE  TallyInv'
  BY <1>3, TallyReturn
<1>4. CASE ShowSummary \/ UNCHANGED timesVars
  <2>1. UNCHANGED <<now, callstack, dict_opt_c, returns, spent>>
    BY <1>4 DEF ShowSummary, timesVars
  <2> QED
    BY <2>1 DEF TallyInv, Usecs
<1> QED
  BY <1>1, <1>2, <1>3, <1>4 DEF TimesNext

LEMMA SummaryKept ==
  ASSUME UNCHANGED dict_opt_c
  PROVE  /\ TotUsecs' = TotUsecs /\ Sorted' = Sorted
         /\ \A n : Row(n)' = Row(n)
<1>1. TotUsecs' = TotUsecs
  BY DEF TotUsecs, SumUsecs, Usecs
<1>2. Sorted' = Sorted
  BY DEF Sorted, Before
<1>3. \A n : Row(n)' = Row(n)
  BY <1>1 DEF Row, AsInt, Usecs
<1> QED
  BY <1>1, <1>2, <1>3

LEMMA SummaryStep == SummaryInv /\ [TimesNext]_timesVars => SummaryInv'
<1> SUFFICES ASSUME SummaryInv, [TimesNext]_timesVars
             PROVE  SummaryInv'
  OBVIOUS
<1>1. CASE summary.state = "none" /\ UNCHANGED summary
  BY <1>1 DEF SummaryInv
<1>2. CASE ShowSummary
  <2>1. UNCHANGED <<dict_opt_c, opt_c>> /\ opt_c
    BY <1>2 DEF ShowSummary
  <2>2. /\ TotUsecs' = TotUsecs /\ Sorted' = Sorted
        /\ \A n : Row(n)' = Row(n)
    BY <2>1, SummaryKept
  <2>3. CASE TotUsecs = 0 /\ DOMAIN dict_opt_c # {}
    <3>1. summary' = [summary EXCEPT !.state = "crashed"]
      BY <1>2, <2>3 DEF ShowSummary
    <3>2. summary' = [state |-> "crashed", rows |-> summary.rows, total |-> summary.total]
      BY <3>1 DEF SummaryInv
    <3> QED
      BY <2>1, <2>2, <2>3, <3>2 DEF SummaryInv
  <2>4. CASE ~(TotUsecs = 0 /\ DOMAIN dict_opt_c # {})
    <3>1. PICK order \in Sorted :
            summary' = [state |-> "shown", rows |-> [i \in DOMAIN order |-> Row(order[i])],
                        total |-> TotUsecs]
      BY <1>2, <2>4 DEF ShowSummary
    <3>2. summary'.rows = [i \in DOMAIN order |-> Row(order[i])']
      BY <2>2, <3>1
    <3> QED
      BY <2>1, <2>2, <2>4, <3>1, <3>2 DEF SummaryInv
  <2> QED
    BY <2>3, <2>4
<1>3. CASE UNCHANGED timesVars
  <2>1. UNCHANGED <<dict_opt_c, opt_c, summary>>
    BY <1>3 DEF timesVars
  <2>2. /\ TotUsecs' = TotUsecs /\ Sorted' = Sorted
        /\ \A n : Row(n)' = Row(n)
    BY <2>1, SummaryKept
  <2> QED
    BY <2>1, <2>2 DEF SummaryInv
<1> QED
  BY <1>1, <1>2, <1>3 DEF TimesNext, Tick, TimedEntry, TimedReturn

LEMMA SummaryInitially == TimesInit => TallyInv /\ SummaryInv
<1> SUFFICES ASSUME TimesInit
             PROVE  TallyInv /\ SummaryInv
  OBVIOUS
<1>1. /\ callstack = << >> /\ dict_opt_c = << >>
      /\ returns = [n \in Name |-> 0] /\ spent = [n \in Name |-> 0]
      /\ summary = [state |-> "none", rows |-> << >>, total |-> 0]
  BY DEF TimesInit
<1>2. DOMAIN dict_opt_c = {} /\ 1..Len(callstack) = {}
  BY <1>1
<1>3. TallyInv
  BY <1>1, <1>2, FS_EmptySet DEF TallyInv
<1> QED
  BY <1>1, <1>3 DEF SummaryInv

\* tot_usecs is the sum of the times in the table, or what is left of it.
LEMMA SumUsecsIs ==
  ASSUME IsFiniteSet(DOMAIN dict_opt_c), UsecsOf \in [DOMAIN dict_opt_c -> Int]
  PROVE  \E f : /\ Adds(DOMAIN dict_opt_c, UsecsOf, f)
                /\ SumUsecs(DOMAIN dict_opt_c) = f[DOMAIN dict_opt_c]
<1> DEFINE S == DOMAIN dict_opt_c
           Next1(f, T) == IF T = {} THEN 0
                          ELSE LET n == CHOOSE n \in T : TRUE
                               IN Usecs(dict_opt_c[n].tv) + f[T \ {n}]
           Mine(f) == [T \in SUBSET S |-> Next1(f, T)]
           f == CHOOSE f : f = Mine(f)
<1>1. SumUsecs(S) = f[S]
  BY DEF SumUsecs
<1>2. ASSUME NEW g, NEW T \in SUBSET S
      PROVE  Next1(g, T) = NextSum(UsecsOf, g, T)
  <2>1. T # {} => First(T) \in S /\ UsecsOf[First(T)] = Usecs(dict_opt_c[First(T)].tv)
    BY FirstIs DEF UsecsOf
  <2> QED
    BY <2>1 DEF NextSum, First
<1>3. \A g : g = Mine(g) <=> Adds(S, UsecsOf, g)
  <2> DEFINE Its(g) == [T \in SUBSET S |-> NextSum(UsecsOf, g, T)]
  <2>1. \A g : Mine(g) = Its(g)
    <3> HIDE DEF Next1
    <3> QED
      BY <1>2, Zenon
  <2>2. \A g : Adds(S, UsecsOf, g) <=> g = Its(g)
    BY Zenon DEF Adds
  <2> HIDE DEF Mine, Its
  <2> QED
    BY <2>1, <2>2
<1>4. f = Mine(f)
  <2>1. PICK g : Adds(S, UsecsOf, g)
    BY SumExists
  <2> HIDE DEF Mine
  <2>2. g = Mine(g)
    BY <1>3, <2>1
  <2> QED
    BY <2>2
<1> QED
  BY <1>1, <1>3, <1>4

\* What the table has of a name, and what it says of the names it has not.
LEMMA TableIs ==
  ASSUME TimesInv, TallyInv, opt_c
  PROVE  /\ UsecsOf \in [DOMAIN dict_opt_c -> Nat] /\ UsecsOf \in [DOMAIN dict_opt_c -> Int]
         /\ \A n \in DOMAIN dict_opt_c :
              /\ n \in Name /\ UsecsOf[n] = spent[n] /\ UsecsOf[n] = Usecs(dict_opt_c[n].tv)
              /\ dict_opt_c[n] \in Statistics
         /\ \A n \in Name \ DOMAIN dict_opt_c : spent[n] = 0 /\ returns[n] = 0
<1>1. ASSUME NEW n \in DOMAIN dict_opt_c
      PROVE  /\ n \in Name /\ UsecsOf[n] = spent[n] /\ spent[n] \in Nat
             /\ UsecsOf[n] = Usecs(dict_opt_c[n].tv)
             /\ dict_opt_c[n] \in Statistics
  <2>1. n \in Name /\ Entry(n) = dict_opt_c[n]
    BY DEF TimesInv, TableOK, Entry
  <2>2. Entry(n) \in Statistics /\ Usecs(Entry(n).tv) = spent[n]
    BY <2>1 DEF TimesInv, TableOK
  <2>3. spent[n] \in Nat
    BY <2>1 DEF TallyInv
  <2> QED
    BY <2>1, <2>2, <2>3 DEF UsecsOf
<1>2. ASSUME NEW n \in Name \ DOMAIN dict_opt_c
      PROVE  spent[n] = 0 /\ returns[n] = 0
  <2>1. Entry(n) = [count |-> 0, tv |-> Zero]
    BY DEF Entry
  <2>2. Entry(n).count = returns[n] /\ Usecs(Entry(n).tv) = spent[n]
    BY DEF TimesInv, TableOK
  <2> QED
    BY <2>1, <2>2, ZeroTime
<1>3. UsecsOf \in [DOMAIN dict_opt_c -> Nat]
  BY <1>1 DEF UsecsOf
<1> QED
  BY <1>1, <1>2, <1>3

LEMMA TotUsecsIs ==
  ASSUME TimesInv, TallyInv, opt_c
  PROVE  /\ SumUsecs(DOMAIN dict_opt_c) \in Nat
         /\ SumUsecs(DOMAIN dict_opt_c) < WordSize => TotUsecs = SumUsecs(DOMAIN dict_opt_c)
         /\ \A n \in DOMAIN dict_opt_c : UsecsOf[n] <= SumUsecs(DOMAIN dict_opt_c)
         /\ \E f : /\ IsSum(DOMAIN dict_opt_c, UsecsOf, f)
                   /\ f[DOMAIN dict_opt_c] = SumUsecs(DOMAIN dict_opt_c)
<1> DEFINE S == DOMAIN dict_opt_c
<1>1. IsFiniteSet(S) /\ UsecsOf \in [S -> Nat] /\ UsecsOf \in [S -> Int]
  BY TableIs DEF TallyInv
<1>2. PICK f : Adds(S, UsecsOf, f) /\ SumUsecs(S) = f[S]
  BY <1>1, SumUsecsIs
<1>3. SumUsecs(S) \in Nat /\ \A n \in S : UsecsOf[n] <= SumUsecs(S)
  BY <1>1, <1>2, SumOfNaturals
<1>4. SumUsecs(S) < WordSize => TotUsecs = SumUsecs(S)
  <2> DEFINE x == SumUsecs(S)
  <2>1. x \in Nat /\ TotUsecs = x % WordSize
    BY <1>3 DEF TotUsecs
  <2> HIDE DEF x
  <2>2. x < WordSize => x % WordSize = x
    BY <2>1, WordAssumption
  <2> QED
    BY <2>1, <2>2 DEF x
<1>5. IsSum(S, UsecsOf, f)
  <2> HIDE DEF S
  <2> QED
    BY <1>1, <1>2, SumWithout
<1> QED
  BY <1>2, <1>3, <1>4, <1>5

\* q is a share of c in t, rounded down; those of k times are r of d.
IsShare(t, c, q) == q \in Int /\ t * q <= 100000 * c /\ 100000 * c <= t * q + (t - 1)
AreShares(t, k, d, r) ==
  /\ d \in Int /\ r \in Int
  /\ t * r <= 100000 * d /\ 100000 * d <= t * r + k * (t - 1)

LEMMA ShareIs ==
  ASSUME NEW t \in Nat, t # 0, NEW c \in Nat, NEW q, q = (100000 * c) \div t
  PROVE  IsShare(t, c, q)
<1> DEFINE x == 100000 * c
<1>1. x \in Nat
  OBVIOUS
<1> HIDE DEF x
<1>2. /\ x \div t \in Int /\ x % t \in 0..(t - 1)
      /\ x = t * (x \div t) + (x % t)
  BY <1>1
<1>3. t * (x \div t) \in Int /\ x % t \in Int /\ 0 <= x % t /\ x % t <= t - 1
  BY <1>2
<1>4. t * (x \div t) <= x /\ x <= t * (x \div t) + (t - 1)
  BY <1>1, <1>2, <1>3
<1>5. q = x \div t
  BY DEF x
<1> QED
  BY <1>2, <1>4, <1>5 DEF x, IsShare

LEMMA OneShareMore ==
  ASSUME NEW t \in Nat, NEW k \in Nat, NEW c \in Nat, NEW q, IsShare(t, c, q),
         NEW d, NEW r, AreShares(t, k, d, r)
  PROVE  AreShares(t, k + 1, d + c, r + q)
<1> DEFINE a == t * r
           b == t * q
           x == 100000 * c
           y == 100000 * d
           z == k * (t - 1)
<1>1. q \in Int /\ d \in Int /\ r \in Int
  BY DEF IsShare, AreShares
<1>2. /\ t * (r + q) = a + b
      /\ 100000 * (d + c) = y + x
      /\ (k + 1) * (t - 1) = z + (t - 1)
  BY <1>1
<1>3. a \in Int /\ b \in Int /\ x \in Int /\ y \in Int /\ z \in Int
  BY <1>1
<1>4. b <= x /\ x <= b + (t - 1) /\ a <= y /\ y <= a + z
  BY DEF IsShare, AreShares
<1> HIDE DEF a, b, x, y, z
<1>5. a + b <= y + x /\ y + x <= (a + b) + (z + (t - 1))
  BY <1>3, <1>4
<1>6. d + c \in Int /\ r + q \in Int
  BY <1>1
<1> QED
  BY <1>2, <1>5, <1>6 DEF AreShares

LEMMA AllShares ==
  ASSUME NEW t \in Nat, t # 0, NEW n \in Nat, n # 0, NEW r, AreShares(t, n, t, r)
  PROVE  r \in (100000 - n + 1)..100000
<1> DEFINE a == t * r
           b == n * t
<1>1. r \in Int /\ a \in Int /\ b \in Int /\ a <= 100000 * t /\ 100000 * t <= a + n * (t - 1)
  BY DEF AreShares
<1>2. n * (t - 1) = b - n
  OBVIOUS
<1>3. r <= 100000
  <2> SUFFICES ASSUME r >= 100001
               PROVE  FALSE
    BY <1>1
  <2>1. t * r >= t * 100001
    BY <1>1
  <2>2. t * 100001 = 100000 * t + t
    OBVIOUS
  <2> HIDE DEF b
  <2> QED
    BY <1>1, <2>1, <2>2
<1>4. r >= 100000 - n + 1
  <2> SUFFICES ASSUME r <= 100000 - n
               PROVE  FALSE
    BY <1>1
  <2>1. t * r <= t * (100000 - n)
    BY <1>1
  <2>2. t * (100000 - n) = 100000 * t - b
    OBVIOUS
  <2>3. a <= 100000 * t - b
    BY <2>1, <2>2
  <2> HIDE DEF a, b
  <2> QED
    BY <1>1, <1>2, <2>3
<1> QED
  BY <1>1, <1>3, <1>4

RunningSum(n, c, C) == C[0] = 0 /\ \A k \in 1..n : C[k] = C[k - 1] + c[k]
Shares(n, t, c, q) == \A k \in 1..n : IsShare(t, c[k], q[k])

\* The shares of n times that make t together: each loses less than one part.
LEMMA SharesAddUp ==
  ASSUME NEW n \in Nat, n # 0, NEW t \in Nat, t # 0, NEW c \in [1..n -> Nat], NEW q,
         Shares(n, t, c, q),
         NEW C, RunningSum(n, c, C), C[n] = t, NEW R, RunningSum(n, q, R)
  PROVE  R[n] \in (100000 - n + 1)..100000
<1> DEFINE Bad == {k \in 0..n : ~AreShares(t, k, C[k], R[k])}
<1>1. AreShares(t, 0, C[0], R[0])
  BY DEF AreShares, RunningSum
<1>2. Bad = {}
  <2> SUFFICES ASSUME Bad # {}
               PROVE  FALSE
    OBVIOUS
  <2>1. Bad \in SUBSET Nat
    OBVIOUS
  <2>2. PICK k \in Bad : \A j \in Bad : k <= j
    BY <2>1, Least
  <2>3. k # 0 /\ k \in 0..n
    BY <1>1, <2>2
  <2> DEFINE j == k - 1
  <2>4. k \in 1..n /\ j \in 0..n /\ j \in Nat /\ j + 1 = k /\ ~(k <= j)
    BY <2>3
  <2> HIDE DEF j
  <2>5. AreShares(t, j, C[j], R[j])
    BY <2>2, <2>4
  <2>6. C[k] = C[j] + c[k] /\ R[k] = R[j] + q[k] /\ IsShare(t, c[k], q[k]) /\ c[k] \in Nat
    BY <2>4 DEF j, RunningSum, Shares
  <2>7. AreShares(t, j + 1, C[j] + c[k], R[j] + q[k])
    BY <2>4, <2>5, <2>6, OneShareMore, Zenon
  <2> QED
    BY <2>2, <2>4, <2>6, <2>7
<1>3. AreShares(t, n, t, R[n])
  <2>1. n \in 0..n
    OBVIOUS
  <2> QED
    BY <1>2, <2>1
<1> QED
  BY <1>3, AllShares

LEMMA SharesUpToIs ==
  ASSUME NEW rows, Len(rows) \in Nat, \A k \in 1..Len(rows) : rows[k].share \in Int
  PROVE  \E R : /\ SharesUpTo(rows) = R[Len(rows)]
                /\ RunningSum(Len(rows), [k \in 1..Len(rows) |-> rows[k].share], R)
<1> DEFINE n == Len(rows)
           step == [k \in 1..n |-> [x \in Int |-> x + rows[k].share]]
           Up(R) == R = [k \in 0..n |-> IF k = 0 THEN 0 ELSE R[k - 1] + rows[k].share]
           R == CHOOSE R : Up(R)
<1>1. SharesUpTo(rows) = R[n]
  BY DEF SharesUpTo
<1>2. \E Q : Up(Q)
  <2>1. step \in [1..n -> [Int -> Int]]
    OBVIOUS
  <2>2. PICK Q \in [0..n -> Int] : Grows(n, 0, step, Q)
    <3> HIDE DEF step, n
    <3>1. n \in Nat /\ 0 \in Int
      BY DEF n
    <3> QED
      BY <2>1, <3>1, GrowthExists
  <2>3. ASSUME NEW k \in 0..n
        PROVE  Q[k] = IF k = 0 THEN 0 ELSE Q[k - 1] + rows[k].share
    <3>1. CASE k = 0
      BY <2>2, <3>1 DEF Grows
    <3>2. CASE k # 0
      <4>1. k \in 1..n /\ Q[k - 1] \in Int
        BY <3>2
      <4>2. Q[k] = step[k][Q[k - 1]]
        BY <2>2, <3>2 DEF Grows
      <4> QED
        BY <3>2, <4>1, <4>2
    <3> QED
      BY <3>1, <3>2
  <2>4. Up(Q)
    BY <2>3
  <2> QED
    BY <2>4
<1>3. Up(R)
  <2> HIDE DEF Up
  <2> QED
    BY <1>2
<1>4. R[0] = 0 /\ \A k \in 1..n : R[k] = R[k - 1] + rows[k].share
  <2> HIDE DEF R
  <2>1. \A k \in 0..n : R[k] = IF k = 0 THEN 0 ELSE R[k - 1] + rows[k].share
    BY <1>3
  <2> QED
    BY <2>1
<1> HIDE DEF R
<1>5. RunningSum(n, [k \in 1..n |-> rows[k].share], R)
  BY <1>4 DEF RunningSum
<1> QED
  BY <1>1, <1>5

\* The longer time first
LEMMA LongerFirst ==
  ASSUME NEW s \in Sum, NEW t \in Sum,
         s.tv_sec > t.tv_sec \/ (s.tv_sec = t.tv_sec /\ s.tv_usec >= t.tv_usec)
  PROVE  Usecs(s) >= Usecs(t)
<1> DEFINE u == UsecPerSec
           a == s.tv_sec
           b == t.tv_sec
           x == s.tv_usec
           y == t.tv_usec
<1>1. u \in Nat /\ a \in Int /\ b \in Int /\ x \in 0..u /\ y \in 0..u
  BY ClockAssumption DEF Sum
<1>2. Usecs(s) = a * u + x /\ Usecs(t) = b * u + y
  BY DEF Usecs
<1> HIDE DEF u, a, b, x, y
<1>3. CASE a > b
  <2>1. a * u >= (b + 1) * u
    BY <1>1, <1>3
  <2>2. (b + 1) * u = b * u + u /\ b * u \in Int /\ a * u \in Int
    BY <1>1
  <2> QED
    BY <1>1, <1>2, <2>1, <2>2
<1>4. CASE a = b /\ x >= y
  <2>1. b * u \in Int
    BY <1>1
  <2> QED
    BY <1>1, <1>2, <1>4, <2>1
<1> QED
  BY <1>3, <1>4 DEF a, b, x, y

\* Whatever order qsort leaves, it has each entry of the table once.
LEMMA SortedIs ==
  ASSUME IsFiniteSet(DOMAIN dict_opt_c), NEW order \in Sorted
  PROVE  LET n == Cardinality(DOMAIN dict_opt_c)
         IN /\ n \in Nat /\ order \in [1..n -> DOMAIN dict_opt_c]
            /\ \A i, j \in 1..n : i # j => order[i] # order[j]
            /\ \A i, j \in 1..n : i < j => Before(order[i], order[j])
            /\ {order[i] : i \in 1..n} = DOMAIN dict_opt_c
<1> DEFINE D == DOMAIN dict_opt_c
           n == Cardinality(D)
<1>1. n \in Nat
  BY FS_CardinalityType
<1>2. order \in [1..n -> D] /\ DOMAIN order = 1..n
  BY DEF Sorted
<1>3. \A i, j \in 1..n : i < j => order[i] # order[j] /\ Before(order[i], order[j])
  BY <1>2 DEF Sorted
<1>4. \A i, j \in 1..n : i # j => order[i] # order[j]
  <2>1. ASSUME NEW i \in 1..n, NEW j \in 1..n, i # j
        PROVE  i < j \/ j < i
    BY <1>1, <2>1
  <2> QED
    BY <1>3, <2>1
<1>5. {order[i] : i \in 1..n} = D
  <2>1. order \in Injection(1..n, D)
    BY <1>2, <1>4 DEF Injection, IsInjective
  <2>2. Cardinality(1..n) = n
    BY <1>1, FS_Interval
  <2>3. order \in Surjection(1..n, D)
    BY <2>1, <2>2, FS_Injection
  <2> QED
    BY <1>2, <2>3 DEF Surjection
<1> QED
  BY <1>1, <1>2, <1>3, <1>4, <1>5

\* The rows, as long as the times fit an int
LEMMA RowIs ==
  ASSUME TimesInv, TallyInv, opt_c, SumUsecs(DOMAIN dict_opt_c) < WordSize \div 2,
         NEW n \in DOMAIN dict_opt_c
  PROVE  /\ Row(n).name = n /\ Row(n).tv = dict_opt_c[n].tv
         /\ Row(n).share = (100000 * UsecsOf[n]) \div TotUsecs
<1> DEFINE u == Usecs(dict_opt_c[n].tv)
           c == AsInt(u)
<1>1. u = UsecsOf[n] /\ u \in Nat
  BY TableIs
<1>2. u < WordSize \div 2 /\ u < WordSize
  <2>1. /\ u <= SumUsecs(DOMAIN dict_opt_c)
        /\ SumUsecs(DOMAIN dict_opt_c) \in Nat
    BY <1>1, TotUsecsIs
  <2> DEFINE s == SumUsecs(DOMAIN dict_opt_c)
             h == WordSize \div 2
  <2>2. s < h /\ u <= s /\ s \in Int /\ u \in Int
    BY <1>1, <2>1
  <2>3. h \in Int /\ h < WordSize /\ WordSize \in Int
    BY WordAssumption
  <2> DEFINE w == WordSize
  <2>5. h < w /\ w \in Int
    BY <2>3
  <2> HIDE DEF u, s, h, w
  <2>4. u < h /\ u < w
    BY <2>2, <2>3, <2>5
  <2> QED
    BY <2>4 DEF h, w
<1>3. c = u
  <2> HIDE DEF u
  <2>1. u % WordSize = u
    BY <1>1, <1>2, WordAssumption
  <2> QED
    BY <1>2, <2>1 DEF AsInt
<1>4. Row(n) = [name |-> n, count |-> dict_opt_c[n].count, tv |-> dict_opt_c[n].tv,
                share |-> IF c < 0 THEN -1 ELSE (100000 * c) \div TotUsecs]
  BY DEF Row
<1>5. ~(c < 0)
  BY <1>1, <1>3
<1> HIDE DEF c, u
<1> QED
  BY <1>1, <1>3, <1>4, <1>5

\* The first n places of a list have each of S once
Lists(n, order, S) ==
  /\ order \in [1..n -> S] /\ {order[i] : i \in 1..n} = S
  /\ \A i, j \in 1..n : i # j => order[i] # order[j]

\* What is taken of each along such a list
Along(n, v, order, c) == \A k \in 1..n : c[k] = v[order[k]]

LEMMA RowsAddUp ==
  ASSUME NEW S, NEW v \in [S -> Int], NEW f, IsSum(S, v, f),
         NEW n \in Nat, NEW order, Lists(n, order, S),
         NEW c, Along(n, v, order, c)
  PROVE  \E C : RunningSum(n, c, C) /\ C[n] = f[S]
<1> DEFINE Upto(k) == {order[i] : i \in 1..k}
           C == [k \in 0..n |-> f[Upto(k)]]
<1>1. order \in [1..n -> S] /\ Upto(n) = S
  BY DEF Lists
<1>2. C[0] = 0
  <2>1. Upto(0) = {} /\ 0 \in 0..n
    OBVIOUS
  <2> HIDE DEF Upto
  <2>2. C[0] = f[Upto(0)]
    BY <2>1
  <2> HIDE DEF C
  <2> QED
    BY <2>1, <2>2 DEF IsSum
<1>3. ASSUME NEW k \in 1..n
      PROVE  C[k] = C[k - 1] + c[k]
  <2>1. order[k] \in Upto(k) /\ Upto(k) \in SUBSET S
    BY <1>1
  <2>2. Upto(k) \ {order[k]} = Upto(k - 1)
    <3>1. \A i \in 1..k : i \in 1..n /\ (i = k \/ i \in 1..(k - 1))
      OBVIOUS
    <3>2. \A i \in 1..(k - 1) : i \in 1..k /\ i # k /\ i \in 1..n
      OBVIOUS
    <3>3. \A i \in 1..n : i # k => order[i] # order[k]
      BY DEF Lists
    <3> QED
      BY <3>1, <3>2, <3>3
  <2>3. Upto(k - 1) \in SUBSET S
    BY <2>1, <2>2
  <2>4. C[k] = f[Upto(k)] /\ C[k - 1] = f[Upto(k - 1)]
    OBVIOUS
  <2>5. v[order[k]] \in Int /\ c[k] = v[order[k]]
    BY <1>1 DEF Along
  <2> HIDE DEF C, Upto
  <2>6. f[Upto(k)] = v[order[k]] + f[Upto(k - 1)]
    <3>1. f[Upto(k)] = v[order[k]] + f[Upto(k) \ {order[k]}]
      BY <2>1, Zenon DEF IsSum
    <3> QED
      BY <2>2, <3>1
  <2>7. f[Upto(k - 1)] \in Int
    BY <2>3 DEF IsSum
  <2> QED
    BY <2>4, <2>5, <2>6, <2>7
<1>4. C[n] = f[S]
  <2>1. C[n] = f[Upto(n)]
    OBVIOUS
  <2> HIDE DEF C, Upto
  <2> QED
    BY <1>1, <2>1
<1> HIDE DEF C
<1>5. RunningSum(n, c, C)
  BY <1>2, <1>3 DEF RunningSum
<1> QED
  BY <1>4, <1>5

----
(* The arguments of the calls.                                             *)

\* The arguments shown at the entry of a call, and all of them
Left(f) == IF Known(f) THEN num_params(f) - f.params_right ELSE 5
All(f) == IF Known(f) THEN num_params(f) ELSE 5

IsList(list, n) == DOMAIN list = 1..n /\ list = [i \in 1..n |-> list[i]]

\* What is shown of call c: what OwnArgs and EachArgOnce say, and how many
ArgsShown(call, c) ==
  LET n == IF call.ended = 0 THEN Left(call.func) ELSE All(call.func)
  IN /\ IsList(call.args, n)
     /\ \A i \in 1..n :
          /\ call.args[i].arg = i - 1
          /\ call.args[i].from = IF i <= Left(call.func) THEN c ELSE call.ended

IsCall(call, c) ==
  /\ call = [func |-> call.func, ended |-> call.ended, args |-> call.args]
  /\ IsPrototype(call.func)
  /\ call.ended \in Nat
  /\ IF opt_c THEN call.args = << >> ELSE ArgsShown(call, c)

\* A frame is of a call that has not ended, and of one each
FramesOf(stack, list, n) ==
  \A k \in DOMAIN stack :
    /\ stack[k].call \in 1..n
    /\ list[stack[k].call].ended = 0
    /\ list[stack[k].call].func = Name2Func(stack[k].name)
    /\ \A m \in DOMAIN stack : m # k => stack[m].call # stack[k].call

ShownInv ==
  /\ calls > 0 => reading = "closed"
  /\ stack_pointer = calls
  /\ IsList(shown, calls)
  /\ \A c \in 1..calls : IsCall(shown[c], c)
  /\ FramesOf(callstack, shown, calls)

\* name2func finds a prototype of the list, or none.
LEMMA Name2FuncIs ==
  ASSUME ConfigInv, NEW name
  PROVE  IsPrototype(Name2Func(name))
<1>1. CASE Named(name) = {}
  BY <1>1, NoPrototype DEF Name2Func
<1>2. CASE Named(name) # {}
  <2>1. Named(name) \in SUBSET Nat
    BY DEF ConfigInv, Named
  <2> DEFINE i == CHOOSE i \in Named(name) : \A j \in Named(name) : i <= j
  <2>2. i \in Named(name)
    BY <1>2, <2>1, Least
  <2>3. i \in DOMAIN list_of_functions /\ Name2Func(name) = list_of_functions[i]
    BY <1>2, <2>2 DEF Name2Func, Named
  <2> QED
    BY <2>3 DEF ConfigInv
<1> QED
  BY <1>1, <1>2

\* The counts of a prototype
LEMMA Counts ==
  ASSUME NEW f, IsPrototype(f)
  PROVE  /\ num_params(f) \in Nat /\ f.params_right \in Nat
         /\ f.params_right <= num_params(f)
         /\ Left(f) \in Nat /\ All(f) \in Nat /\ Left(f) <= All(f)
<1>1. num_params(f) \in 0..MaxArgs /\ f.params_right \in 0..num_params(f)
  BY DEF IsPrototype, SoundPrototype
<1>2. num_params(f) \in Nat
  BY <1>1, MaxAssumption
<1>3. f.params_right \in Nat /\ f.params_right <= num_params(f)
  BY <1>1, <1>2
<1> QED
  BY <1>2, <1>3 DEF Left, All

\* A half is a list of the arguments from first to last.
LEMMA HalfIs ==
  ASSUME NEW f, NEW first \in Int, NEW last \in Int, first <= last + 1, NEW sp, NEW n
  PROVE  /\ IsList(Half(f, first..last, sp, n), last - first + 1)
         /\ \A i \in 1..(last - first + 1) :
              /\ Half(f, first..last, sp, n)[i].arg = first + i - 1
              /\ Half(f, first..last, sp, n)[i].from = sp
<1>1. CASE first..last = {}
  <2>1. last - first + 1 = 0
    BY <1>1
  <2>2. Half(f, first..last, sp, n) = << >>
    BY <1>1 DEF Half
  <2> QED
    BY <2>1, <2>2 DEF IsList
<1>2. CASE first..last # {}
  <2> DEFINE least == CHOOSE k \in first..last : \A j \in first..last : k <= j
             at(k) == IF Known(f) THEN f.arg_types[k + 1] ELSE "unknown"
             arg(i) == [arg |-> least + i - 1, at |-> at(least + i - 1), from |-> sp,
                        length |-> n, what |-> What(at(least + i - 1), n)]
  <2>1. first <= last
    BY <1>2
  <2>2. least = first
    <3>1. first \in first..last /\ \A j \in first..last : first <= j
      BY <2>1
    <3>2. \A k \in first..last : (\A j \in first..last : k <= j) => k = first
      BY <3>1
    <3> QED
      BY <3>1, <3>2
  <2>3. Cardinality(first..last) = last - first + 1
    BY <2>1, FS_Interval
  <2>4. Half(f, first..last, sp, n) = [i \in 1..Cardinality(first..last) |-> arg(i)]
    BY <1>2, Zenon DEF Half
  <2> HIDE DEF least, at
  <2>5. ASSUME NEW i
        PROVE  arg(i).arg = first + i - 1 /\ arg(i).from = sp
    BY <2>2
  <2> HIDE DEF arg
  <2> QED
    BY <2>3, <2>4, <2>5 DEF IsList
<1> QED
  BY <1>1, <1>2

\* Lists of whatever elements
LEMMA ListIsSeq ==
  ASSUME NEW n \in Nat, NEW list, IsList(list, n), NEW S, \A i \in 1..n : list[i] \in S
  PROVE  list \in Seq(S) /\ Len(list) = n
<1>1. list \in [1..n -> S]
  BY DEF IsList
<1> QED
  BY <1>1, SeqDef, LenProperties DEF IsList

LEMMA SeqIsList ==
  ASSUME NEW S, NEW list \in Seq(S)
  PROVE  IsList(list, Len(list))
BY LenProperties DEF IsList

IsAppend(longer, list, x) == longer = Append(list, x)

LEMMA AppendIs ==
  ASSUME NEW n \in Nat, NEW list, IsList(list, n), NEW x, NEW longer, IsAppend(longer, list, x)
  PROVE  /\ IsList(longer, n + 1)
         /\ longer[n + 1] = x
         /\ \A i \in 1..n : longer[i] = list[i]
<1> DEFINE S == {list[i] : i \in 1..n} \cup {x}
<1>1. list \in Seq(S) /\ Len(list) = n /\ x \in S
  <2>1. x \in S /\ \A i \in 1..n : list[i] \in S
    OBVIOUS
  <2> HIDE DEF S
  <2> QED
    BY <2>1, ListIsSeq
<1> HIDE DEF S
<1>2. /\ longer \in Seq(S) /\ Len(longer) = n + 1
      /\ longer[n + 1] = x
      /\ \A i \in 1..n : longer[i] = list[i]
  BY <1>1, AppendProperties DEF IsAppend
<1> QED
  BY <1>2, SeqIsList

IsConcat(st, s, t) == st = s \o t

LEMMA ConcatIs ==
  ASSUME NEW m \in Nat, NEW s, NEW n \in Nat, NEW t, IsList(s, m), IsList(t, n),
         NEW st, IsConcat(st, s, t)
  PROVE  /\ IsList(st, m + n)
         /\ \A i \in 1..m : st[i] = s[i]
         /\ \A i \in (m + 1)..(m + n) : st[i] = t[i - m]
<1> DEFINE S == {s[i] : i \in 1..m} \cup {t[i] : i \in 1..n}
<1>1. s \in Seq(S) /\ Len(s) = m /\ t \in Seq(S) /\ Len(t) = n
  <2>1. (\A i \in 1..m : s[i] \in S) /\ (\A i \in 1..n : t[i] \in S)
    OBVIOUS
  <2> HIDE DEF S
  <2> QED
    BY <2>1, ListIsSeq
<1> HIDE DEF S
<1>2. /\ st \in Seq(S) /\ Len(st) = m + n
      /\ \A i \in 1..(m + n) : st[i] = IF i <= m THEN s[i] ELSE t[i - m]
  BY <1>1, ConcatProperties DEF IsConcat
<1>3. IsList(st, m + n)
  BY <1>2, SeqIsList
<1> QED
  BY <1>2, <1>3

\* The call of an entry
LEMMA NewCall ==
  ASSUME NEW f, IsPrototype(f), NEW c, NEW n
  PROVE  IsCall([func |-> f, ended |-> 0,
                 args |-> IF opt_c THEN << >>
                          ELSE Half(f, LeftArgs(Known(f), num_params(f), f.params_right), c, n)],
                c)
<1> DEFINE args == IF opt_c THEN << >>
                   ELSE Half(f, LeftArgs(Known(f), num_params(f), f.params_right), c, n)
           call == [func |-> f, ended |-> 0, args |-> args]
<1>1. LeftArgs(Known(f), num_params(f), f.params_right) = 0..(Left(f) - 1)
  BY DEF LeftArgs, Left
<1>2. Left(f) \in Nat /\ Left(f) - 1 \in Int /\ 0 <= (Left(f) - 1) + 1
      /\ (Left(f) - 1) - 0 + 1 = Left(f)
  BY Counts
<1>3. /\ call.func = f /\ call.ended = 0 /\ call.args = args
      /\ call = [func |-> call.func, ended |-> call.ended, args |-> call.args]
  OBVIOUS
<1>4. ASSUME opt_c
      PROVE  IsCall(call, c)
  BY <1>4 DEF IsCall
<1>5. ASSUME ~opt_c
      PROVE  IsCall(call, c)
  <2>1. args = Half(f, 0..(Left(f) - 1), c, n)
    BY <1>1, <1>5
  <2> HIDE DEF args, call
  <2> DEFINE last == Left(f) - 1
  <2>2. /\ IsList(args, Left(f))
        /\ \A i \in 1..Left(f) : args[i].arg = 0 + i - 1 /\ args[i].from = c
    <3>1. last \in Int /\ 0 \in Int /\ 0 <= last + 1 /\ last - 0 + 1 = Left(f)
          /\ args = Half(f, 0..last, c, n)
      BY <1>2, <2>1
    <3> HIDE DEF last
    <3>2. /\ IsList(args, last - 0 + 1)
          /\ \A i \in 1..(last - 0 + 1) : args[i].arg = 0 + i - 1 /\ args[i].from = c
      BY <3>1, HalfIs
    <3> QED
      BY <3>1, <3>2
  <2>3. \A i \in 1..Left(f) : 0 + i - 1 = i - 1 /\ i <= Left(f)
    BY <1>2
  <2>4. ArgsShown(call, c)
    BY <1>3, <2>2, <2>3 DEF ArgsShown
  <2> QED
    BY <1>3, <1>5, <2>4 DEF IsCall
<1> QED
  BY <1>4, <1>5

\* The half of a return has the arguments that the other one left.
IsRight(right, f, sp) ==
  /\ IsList(right, All(f) - Left(f))
  /\ \A i \in 1..(All(f) - Left(f)) :
       right[i].arg = Left(f) + i - 1 /\ right[i].from = sp

LEMMA RightIs ==
  ASSUME NEW f, IsPrototype(f), NEW sp, NEW n
  PROVE  IsRight(Half(f, RightArgs(Known(f), num_params(f), f.params_right), sp, n), f, sp)
<1> DEFINE right == Half(f, RightArgs(Known(f), num_params(f), f.params_right), sp, n)
<1> SUFFICES /\ IsList(right, All(f) - Left(f))
             /\ \A i \in 1..(All(f) - Left(f)) :
                  right[i].arg = Left(f) + i - 1 /\ right[i].from = sp
  BY DEF IsRight
<1>1. /\ Left(f) \in Nat /\ All(f) \in Nat /\ Left(f) <= All(f)
      /\ num_params(f) \in Nat /\ f.params_right \in Nat /\ f.params_right <= num_params(f)
  BY Counts
<1>2. CASE Known(f)
  <2>1. /\ RightArgs(Known(f), num_params(f), f.params_right)
             = (num_params(f) - f.params_right)..(num_params(f) - 1)
        /\ Left(f) = num_params(f) - f.params_right /\ All(f) = num_params(f)
    BY <1>2 DEF RightArgs, Left, All
  <2>2. /\ right = Half(f, Left(f)..(All(f) - 1), sp, n)
        /\ Left(f) \in Int /\ All(f) - 1 \in Int /\ Left(f) <= (All(f) - 1) + 1
        /\ (All(f) - 1) - Left(f) + 1 = All(f) - Left(f)
    <3>1. right = Half(f, Left(f)..(All(f) - 1), sp, n)
      BY <2>1
    <3> QED
      BY <1>1, <3>1
  <2> HIDE DEF right
  <2> QED
    BY <2>2, HalfIs
<1>3. CASE ~Known(f)
  <2>1. RightArgs(Known(f), num_params(f), f.params_right) = {} /\ All(f) - Left(f) = 0
    BY <1>3 DEF RightArgs, Left, All
  <2>2. right = << >>
    BY <2>1 DEF Half
  <2> HIDE DEF right
  <2> QED
    BY <2>1, <2>2 DEF IsList
<1> QED
  BY <1>2, <1>3

\* The call of a return
LEMMA EndedCall ==
  ASSUME NEW call, NEW c, IsCall(call, c), call.ended = 0,
         NEW sp \in Nat, sp > 0, NEW n
  PROVE  LET f == call.func
             right == Half(f, RightArgs(Known(f), num_params(f), f.params_right), sp, n)
         IN IsCall([func |-> f, ended |-> sp,
                    args |-> IF opt_c THEN call.args ELSE call.args \o right], c)
<1> DEFINE f == call.func
           right == Half(f, RightArgs(Known(f), num_params(f), f.params_right), sp, n)
           args == IF opt_c THEN call.args ELSE call.args \o right
           new == [func |-> f, ended |-> sp, args |-> args]
<1>1. /\ Left(f) \in Nat /\ All(f) \in Nat /\ Left(f) <= All(f)
      /\ num_params(f) \in Nat /\ f.params_right \in Nat /\ f.params_right <= num_params(f)
      /\ IsPrototype(f)
  BY Counts DEF IsCall
<1>2. /\ new.func = f /\ new.ended = sp /\ new.args = args
      /\ new = [func |-> new.func, ended |-> new.ended, args |-> new.args]
  OBVIOUS
<1>3. ASSUME opt_c
      PROVE  IsCall(new, c)
  BY <1>1, <1>3 DEF IsCall
<1>4. ASSUME ~opt_c
      PROVE  IsCall(new, c)
  <2>1. /\ IsList(right, All(f) - Left(f))
        /\ \A i \in 1..(All(f) - Left(f)) :
             right[i].arg = Left(f) + i - 1 /\ right[i].from = sp
    <3>1. IsRight(right, f, sp)
      BY <1>1, RightIs
    <3> QED
      BY <3>1 DEF IsRight
  <2>2. /\ IsList(call.args, Left(f))
        /\ \A i \in 1..Left(f) : call.args[i].arg = i - 1 /\ call.args[i].from = c
    BY <1>1, <1>4 DEF IsCall, ArgsShown
  <2>3. args = call.args \o right
    BY <1>4
  <2> HIDE DEF args, right, f, new
  <2>4. All(f) - Left(f) \in Nat /\ Left(f) + (All(f) - Left(f)) = All(f)
    BY <1>1
  <2>5. /\ IsList(args, All(f))
        /\ \A i \in 1..Left(f) : args[i] = call.args[i]
        /\ \A i \in (Left(f) + 1)..All(f) : args[i] = right[i - Left(f)]
    <3> DEFINE l == Left(f)
               r == All(f) - Left(f)
               left == call.args
    <3>1. /\ l \in Nat /\ r \in Nat /\ IsList(left, l) /\ IsList(right, r)
          /\ IsConcat(args, left, right) /\ l + r = All(f)
      BY <1>1, <2>1, <2>2, <2>3, <2>4 DEF IsConcat
    <3> HIDE DEF l, r, left
    <3>2. /\ IsList(args, l + r)
          /\ \A i \in 1..l : args[i] = left[i]
          /\ \A i \in (l + 1)..(l + r) : args[i] = right[i - l]
      BY <3>1, ConcatIs, SMTT(30)
    <3>3. /\ IsList(args, All(f))
          /\ \A i \in 1..l : args[i] = left[i]
          /\ \A i \in (l + 1)..All(f) : args[i] = right[i - l]
      BY <3>1, <3>2
    <3> QED
      BY <3>3 DEF l, left
  <2>6. ASSUME NEW i \in 1..All(f)
        PROVE  args[i].arg = i - 1 /\ args[i].from = IF i <= Left(f) THEN c ELSE sp
    <3>1. CASE i <= Left(f)
      <4>1. i \in 1..Left(f)
        BY <1>1, <3>1
      <4> QED
        BY <2>2, <2>5, <3>1, <4>1
    <3>2. CASE ~(i <= Left(f))
      <4>1. i \in (Left(f) + 1)..All(f) /\ i - Left(f) \in 1..(All(f) - Left(f))
            /\ Left(f) + (i - Left(f)) - 1 = i - 1
        BY <1>1, <3>2
      <4> QED
        BY <2>1, <2>5, <3>2, <4>1
    <3> QED
      BY <3>1, <3>2
  <2>7. ArgsShown(new, c)
    BY <1>2, <2>5, <2>6 DEF ArgsShown
  <2> QED
    BY <1>1, <1>2, <1>4, <2>7 DEF IsCall
<1> QED
  BY <1>3, <1>4

\* The files are closed: a prime changes neither of these.
LEMMA FramesPrimed ==
  ASSUME UNCHANGED list_of_functions
  PROVE  FramesOf(callstack, shown, calls)' = FramesOf(callstack', shown', calls')
BY DEF FramesOf, Name2Func, Named, NoFunction

LEMMA CallsPrimed ==
  ASSUME UNCHANGED opt_c, NEW c
  PROVE  IsCall(shown[c], c)' = IsCall(shown'[c], c)
BY DEF IsCall, IsPrototype, SoundPrototype, num_params, ArgsShown, Left, All, Known,
       NoFunction, IsList

\* What is not touched keeps its truth.
LEMMA ShownKept ==
  ASSUME ShownInv,
         UNCHANGED <<calls, stack_pointer, shown, opt_c, callstack, list_of_functions>>,
         reading = "closed" => reading' = "closed"
  PROVE  ShownInv'
<1>1. \A c : IsCall(shown[c], c)' = IsCall(shown[c], c)
  BY CallsPrimed
<1>2. FramesOf(callstack, shown, calls)'
  BY FramesPrimed DEF ShownInv
<1>3. IsList(shown, calls)'
  BY DEF ShownInv, IsList
<1> QED
  BY <1>1, <1>2, <1>3 DEF ShownInv

\* What an entry changes of what is shown: it adds the call.
LEMMA EnterIs ==
  ASSUME TimesInv, ShownInv, NEW name \in Name, Enter(name)
  PROVE  LET f == Name2Func(name)
             args == LeftArgs(Known(f), num_params(f), f.params_right)
         IN /\ IsList(shown', calls + 1)
            /\ \A c \in 1..calls : shown'[c] = shown[c]
            /\ \E n \in LengthsOf(f, args) :
                 shown'[calls + 1] =
                   [func |-> f, ended |-> 0,
                    args |-> IF opt_c THEN << >> ELSE Half(f, args, calls + 1, n)]
<1> DEFINE f == Name2Func(name)
           new == shown'[calls + 1]
<1>1. PICK n \in LengthsOf(f, LeftArgs(Known(f), num_params(f), f.params_right)) :
      shown' = Append(shown,
        [func |-> f, ended |-> 0,
         args |-> IF opt_c THEN << >>
                  ELSE Half(f, LeftArgs(Known(f), num_params(f), f.params_right),
                            stack_pointer', n)])
  BY DEF Enter
<1>2. /\ reading = "closed" /\ reading' = "closed"
      /\ calls' = calls + 1 /\ stack_pointer' = calls + 1
      /\ opt_c' = opt_c /\ list_of_functions' = list_of_functions
      /\ PushFrame(name) /\ calls \in Nat
  BY DEF Enter, TimedEntry, ReadStackPointer, configVars, TimesInv
<1>3. /\ IsList(shown', calls + 1)
      /\ new = [func |-> f, ended |-> 0,
                args |-> IF opt_c THEN << >>
                         ELSE Half(f, LeftArgs(Known(f), num_params(f), f.params_right),
                                   calls + 1, n)]
      /\ \A c \in 1..calls : shown'[c] = shown[c]
  <2> DEFINE call == [func |-> f, ended |-> 0,
                args |-> IF opt_c THEN << >>
                         ELSE Half(f, LeftArgs(Known(f), num_params(f), f.params_right),
                                   calls + 1, n)]
  <2>1. IsAppend(shown', shown, call) /\ IsList(shown, calls) /\ calls \in Nat
    BY <1>1, <1>2 DEF ShownInv, IsAppend
  <2> HIDE DEF call
  <2>2. /\ IsList(shown', calls + 1) /\ shown'[calls + 1] = call
        /\ \A c \in 1..calls : shown'[c] = shown[c]
    BY <2>1, AppendIs
  <2> QED
    BY <2>2 DEF call
<1> QED
  BY <1>1, <1>3

LEMMA EnterShown ==
  ASSUME ConfigInv, TimesInv, ShownInv, NEW name \in Name, Enter(name)
  PROVE  ShownInv'
<1> DEFINE f == Name2Func(name)
           new == shown'[calls + 1]
<1>1. PICK n : new = [func |-> f, ended |-> 0,
        args |-> IF opt_c THEN << >>
                 ELSE Half(f, LeftArgs(Known(f), num_params(f), f.params_right), calls + 1, n)]
  BY EnterIs
<1>2. /\ reading = "closed" /\ reading' = "closed"
      /\ calls' = calls + 1 /\ stack_pointer' = calls + 1
      /\ opt_c' = opt_c /\ list_of_functions' = list_of_functions
      /\ PushFrame(name) /\ calls \in Nat
  BY DEF Enter, TimedEntry, ReadStackPointer, configVars, TimesInv
<1>3. IsList(shown', calls + 1) /\ \A c \in 1..calls : shown'[c] = shown[c]
  BY EnterIs
<1>4. IsCall(new, calls + 1) /\ new.func = f /\ new.ended = 0
  <2>1. IsPrototype(f)
    BY Name2FuncIs
  <2> HIDE DEF f
  <2>2. IsCall([func |-> f, ended |-> 0,
                args |-> IF opt_c THEN << >>
                         ELSE Half(f, LeftArgs(Known(f), num_params(f), f.params_right),
                                   calls + 1, n)], calls + 1)
    BY <2>1, NewCall
  <2> QED
    BY <1>1, <2>2
<1> HIDE DEF new
<1>5. ASSUME NEW c \in 1..(calls + 1)
      PROVE  IsCall(shown'[c], c)
  <2>1. CASE c = calls + 1
    BY <1>4, <2>1 DEF new
  <2>2. CASE c # calls + 1
    <3>1. c \in 1..calls
      BY <1>2, <2>2
    <3> QED
      BY <1>3, <3>1 DEF ShownInv
  <2> QED
    BY <2>1, <2>2
<1>6. \A c : IsCall(shown[c], c)' = IsCall(shown'[c], c)
  BY <1>2, CallsPrimed
<1>7. FramesOf(callstack', shown', calls')
  <2>1. /\ callstack \in Seq(Frame) /\ Len(callstack) \in Nat
        /\ DOMAIN callstack = 1..Len(callstack)
    BY LenProperties DEF TimesInv
  <2>2. ASSUME NEW k \in DOMAIN callstack
        PROVE  /\ callstack[k].call \in 1..calls
               /\ callstack[k].call \in 1..calls'
               /\ callstack[k].call # calls + 1
               /\ shown'[callstack[k].call].ended = 0
               /\ shown'[callstack[k].call].func = Name2Func(callstack[k].name)
               /\ \A m \in DOMAIN callstack : m # k => callstack[m].call # callstack[k].call
    <3>1. /\ callstack[k].call \in 1..calls
          /\ shown[callstack[k].call].ended = 0
          /\ shown[callstack[k].call].func = Name2Func(callstack[k].name)
          /\ \A m \in DOMAIN callstack : m # k => callstack[m].call # callstack[k].call
      BY DEF ShownInv, FramesOf
    <3>3. shown'[callstack[k].call] = shown[callstack[k].call]
      BY <1>3, <3>1
    <3>4. \A c \in 1..calls : c \in 1..calls' /\ c # calls + 1
      BY <1>2
    <3> QED
      BY <3>1, <3>3, <3>4
  <2>3. CASE callstack' = callstack
    BY <2>2, <2>3 DEF FramesOf
  <2>4. CASE callstack' = Append(callstack,
               [name |-> name, time_spent |-> Gettimeofday, call |-> calls + 1])
    <3> DEFINE frame == [name |-> name, time_spent |-> Gettimeofday, call |-> calls + 1]
               d == Len(callstack) + 1
    <3>1. frame \in Frame
      BY <1>2, GettimeofdayIs DEF Frame, TimesInv
    <3>2. frame.call = calls + 1 /\ frame.name = name
      OBVIOUS
    <3> HIDE DEF frame
    <3>3. /\ DOMAIN callstack' = 1..d /\ callstack'[d] = frame
          /\ \A k \in DOMAIN callstack : callstack'[k] = callstack[k]
      <4>1. callstack' = Append(callstack, frame)
        BY <2>4 DEF frame
      <4>2. callstack' \in Seq(Frame) /\ Len(callstack') = d
        BY <2>1, <3>1, <4>1, AppendProperties
      <4>3. DOMAIN callstack' = 1..d
        BY <4>2, LenProperties
      <4> QED
        BY <2>1, <3>1, <4>1, <4>3, AppendProperties
    <3>4. \A k \in 1..d : k = d \/ k \in DOMAIN callstack
      BY <2>1
    <3>5. d \notin DOMAIN callstack
      BY <2>1
    <3>7. ASSUME NEW k \in 1..d
          PROVE  /\ callstack'[k].call \in 1..calls'
                 /\ shown'[callstack'[k].call].ended = 0
                 /\ shown'[callstack'[k].call].func = Name2Func(callstack'[k].name)
                 /\ \A m \in 1..d : m # k => callstack'[m].call # callstack'[k].call
      <4>1. CASE k = d
        <5>1. callstack'[k] = frame /\ shown'[callstack'[k].call] = new
          BY <3>2, <3>3, <4>1 DEF new
        <5>2. Name2Func(callstack'[k].name) = f
          BY <3>2, <5>1
        <5>3. calls + 1 \in 1..calls'
          BY <1>2
        <5>4. \A m \in 1..d : m # k => callstack'[m].call # calls + 1
          BY <2>2, <3>3, <3>4, <4>1
        <5> QED
          BY <1>4, <3>2, <5>1, <5>2, <5>3, <5>4
      <4>2. CASE k # d
        <5>1. k \in DOMAIN callstack /\ callstack'[k] = callstack[k]
          BY <3>3, <3>4, <4>2
        <5>2. \A m \in 1..d : m # k => callstack'[m].call # callstack[k].call
          BY <2>2, <3>2, <3>3, <3>4, <5>1
        <5> QED
          BY <2>2, <5>1, <5>2
      <4> QED
        BY <4>1, <4>2
    <3> QED
      BY <3>3, <3>7 DEF FramesOf
  <2> QED
    BY <1>2, <2>3, <2>4 DEF PushFrame
<1> QED
  BY <1>2, <1>3, <1>5, <1>6, <1>7, FramesPrimed DEF ShownInv

\* What a return changes of what is shown: the entry of its own call.
LEMMA ReturnIs ==
  ASSUME TimesInv, ShownInv, NEW i \in DOMAIN callstack, Return(i)
  PROVE  LET c == callstack[i].call
             f == Name2Func(callstack[i].name)
             args == RightArgs(Known(f), num_params(f), f.params_right)
             right(n) == Half(f, args, stack_pointer, n)
         IN /\ c \in 1..calls /\ shown[c].ended = 0 /\ shown[c].func = f
            /\ IsList(shown', calls)
            /\ \A d \in 1..calls : d # c => shown'[d] = shown[d]
            /\ \E n \in LengthsOf(f, args) :
                 shown'[c] = [func |-> f, ended |-> calls,
                              args |-> IF opt_c THEN shown[c].args ELSE shown[c].args \o right(n)]
<1> DEFINE c == callstack[i].call
           f == Name2Func(callstack[i].name)
           right(n) == Half(f, RightArgs(Known(f), num_params(f), f.params_right),
                            stack_pointer, n)
<1>1. PICK n \in LengthsOf(f, RightArgs(Known(f), num_params(f), f.params_right)) :
        shown' = [shown EXCEPT
        ![c].ended = calls,
        ![c].args = IF opt_c THEN @ ELSE @ \o right(n)]
  BY DEF Return
<1>3. /\ c \in 1..calls /\ shown[c].ended = 0 /\ shown[c].func = f
      /\ calls \in Nat /\ calls > 0 /\ stack_pointer = calls
      /\ IsList(shown, calls) /\ IsCall(shown[c], c)
  BY DEF ShownInv, FramesOf, TimesInv
<1> HIDE DEF c, f
<1>4. shown[c] = [func |-> f, ended |-> 0, args |-> shown[c].args]
  BY <1>3 DEF IsCall
<1> DEFINE args == IF opt_c THEN shown[c].args ELSE shown[c].args \o right(n)
<1>5. /\ IsList(shown', calls)
      /\ shown'[c] = [func |-> f, ended |-> calls, args |-> args]
      /\ \A d \in 1..calls : d # c => shown'[d] = shown[d]
  <2> DEFINE more == right(n)
  <2>1. c \in DOMAIN shown /\ DOMAIN shown = 1..calls
    BY <1>3 DEF IsList
  <2>2. shown' = [shown EXCEPT ![c].ended = calls, ![c].args = IF opt_c THEN @ ELSE @ \o more]
    BY <1>1
  <2> HIDE DEF more, right
  <2>3. DOMAIN shown' = DOMAIN shown /\ shown' = [d \in DOMAIN shown |-> shown'[d]]
    BY <2>2
  <2>4. \A d \in DOMAIN shown : d # c => shown'[d] = shown[d]
    BY <2>2
  <2>5. shown'[c] = [[shown[c] EXCEPT !.ended = calls]
                       EXCEPT !.args = IF opt_c THEN @ ELSE @ \o more]
    BY <2>1, <2>2
  <2>6. shown'[c] = [func |-> f, ended |-> calls,
                     args |-> IF opt_c THEN shown[c].args ELSE shown[c].args \o more]
    <3> DEFINE old == shown[c].args
               Longer(list) == IF opt_c THEN list ELSE list \o more
    <3> HIDE DEF Longer
    <3>1. shown[c] = [func |-> f, ended |-> 0, args |-> old]
      BY <1>4
    <3>2. shown'[c] = [[shown[c] EXCEPT !.ended = calls] EXCEPT !.args = Longer(@)]
      BY <2>5 DEF Longer
    <3> HIDE DEF old
    <3> DEFINE ended == [shown[c] EXCEPT !.ended = calls]
    <3>3. ended = [func |-> f, ended |-> calls, args |-> old]
      BY <3>1
    <3>4. shown'[c] = [ended EXCEPT !.args = Longer(@)]
      BY <3>2
    <3> HIDE DEF ended
    <3>5. shown'[c] = [func |-> f, ended |-> calls, args |-> Longer(ended.args)]
      BY <3>3, <3>4
    <3>6. ended.args = old
      BY <3>3
    <3> QED
      BY <3>5, <3>6 DEF Longer, old
  <2> QED
    BY <2>1, <2>3, <2>4, <2>6 DEF IsList, more
<1> HIDE DEF args
<1> QED
  BY <1>1, <1>3, <1>5 DEF args, c, f

LEMMA ReturnShown ==
  ASSUME TimesInv, ShownInv, NEW i \in DOMAIN callstack, Return(i)
  PROVE  ShownInv'
<1> DEFINE c == callstack[i].call
           f == Name2Func(callstack[i].name)
           right(n) == Half(f, RightArgs(Known(f), num_params(f), f.params_right),
                            stack_pointer, n)
<1>1. PICK n : shown'[c] = [func |-> f, ended |-> calls,
        args |-> IF opt_c THEN shown[c].args ELSE shown[c].args \o right(n)]
  BY ReturnIs
<1>2. /\ reading' = reading /\ calls' = calls /\ stack_pointer' = stack_pointer
      /\ opt_c' = opt_c /\ list_of_functions' = list_of_functions
      /\ callstack' = SubSeq(callstack, 1, i - 1)
  BY DEF Return, TimedReturn, configVars
<1>3. /\ c \in 1..calls /\ shown[c].ended = 0 /\ shown[c].func = f
      /\ calls \in Nat /\ calls > 0 /\ stack_pointer = calls
      /\ IsList(shown, calls) /\ IsCall(shown[c], c)
  BY DEF ShownInv, FramesOf, TimesInv
<1> HIDE DEF c, f
<1> DEFINE args == IF opt_c THEN shown[c].args ELSE shown[c].args \o right(n)
<1>5. /\ IsList(shown', calls)
      /\ shown'[c] = [func |-> f, ended |-> calls, args |-> args]
      /\ \A d \in 1..calls : d # c => shown'[d] = shown[d]
  BY <1>1, ReturnIs DEF c
<1>6. IsCall([func |-> f, ended |-> calls, args |-> args], c)
  <2> DEFINE call == shown[c]
             new(n1, f1) == [func |-> f1, ended |-> calls,
                         args |-> IF opt_c THEN call.args
                                  ELSE call.args \o Half(f1, RightArgs(Known(f1), num_params(f1),
                                                           f1.params_right), calls, n1)]
  <2>1. IsCall(call, c) /\ call.ended = 0 /\ call.func = f /\ calls \in Nat /\ calls > 0
    BY <1>3
  <2>2. IsCall(new(n, call.func), c)
    <3> HIDE DEF call
    <3> QED
      BY <2>1, EndedCall
  <2> QED
    BY <1>3, <2>1, <2>2
<1> HIDE DEF args
<1>7. \A d \in 1..calls : IsCall(shown'[d], d)
  BY <1>5, <1>6 DEF ShownInv
<1>8. FramesOf(callstack', shown', calls')
  <2>1. callstack \in Seq(Frame) /\ i \in 1..Len(callstack) /\ Len(callstack) \in Nat
        /\ DOMAIN callstack = 1..Len(callstack)
    BY LenProperties DEF TimesInv
  <2>2. /\ DOMAIN callstack' = 1..(i - 1)
        /\ \A k \in 1..(i - 1) : callstack'[k] = callstack[k]
    <3>1. /\ callstack' \in Seq(Frame) /\ Len(callstack') = i - 1
          /\ \A k \in 1..(i - 1) : callstack'[k] = callstack[k]
      BY <1>2, <2>1, SubSeqProperties
    <3> QED
      BY <3>1, LenProperties
  <2>3. \A k \in 1..(i - 1) : k \in DOMAIN callstack /\ k # i
    BY <2>1
  <2>4. ASSUME NEW k \in 1..(i - 1)
        PROVE  /\ callstack[k].call \in 1..calls
               /\ callstack[k].call # c
               /\ shown[callstack[k].call].ended = 0
               /\ shown[callstack[k].call].func = Name2Func(callstack[k].name)
               /\ \A m \in DOMAIN callstack : m # k => callstack[m].call # callstack[k].call
    BY <2>3 DEF ShownInv, FramesOf, c
  <2>5. ASSUME NEW k \in 1..(i - 1)
        PROVE  shown'[callstack[k].call] = shown[callstack[k].call]
    BY <1>5, <2>4
  <2>6. ASSUME NEW k \in 1..(i - 1)
        PROVE  /\ callstack'[k].call \in 1..calls'
               /\ shown'[callstack'[k].call].ended = 0
               /\ shown'[callstack'[k].call].func = Name2Func(callstack'[k].name)
    <3>1. callstack'[k] = callstack[k] /\ calls' = calls
      BY <1>2, <2>2
    <3> QED
      BY <2>4, <2>5, <3>1
  <2>7. ASSUME NEW k \in 1..(i - 1), NEW m \in 1..(i - 1), m # k
        PROVE  callstack'[m].call # callstack'[k].call
    BY <2>2, <2>3, <2>4, <2>7
  <2> QED
    BY <2>2, <2>6, <2>7 DEF FramesOf
<1>9. \A d : IsCall(shown[d], d)' = IsCall(shown'[d], d)
  BY <1>2, CallsPrimed
<1> QED
  BY <1>2, <1>3, <1>5, <1>7, <1>8, <1>9, FramesPrimed DEF ShownInv

\* While the files are read nothing is called.
LEMMA ReadingShown ==
  ASSUME TimesInv, ShownInv, ReadConfig
  PROVE  ShownInv'
<1>1. reading # "closed" /\ UNCHANGED <<calls, stack_pointer, shown, opt_c, callstack>>
  BY DEF ReadConfig, ConfigNext, ReadLine, ReadArg, AddFunction, CloseConfig, timesVars,
         reportVars
<1>2. calls = 0 /\ ~(calls' > 0)
  BY <1>1 DEF ShownInv, TimesInv
<1>3. DOMAIN callstack = {} /\ 1..calls = {}
  <2>1. 1..calls = {}
    BY <1>2
  <2>2. \A k \in DOMAIN callstack : callstack[k].call \in 1..calls
    BY DEF ShownInv, FramesOf
  <2> QED
    BY <2>1, <2>2
<1>4. FramesOf(callstack, shown, calls)'
  BY <1>1, <1>3 DEF FramesOf
<1>5. \A c \in (1..calls)' : IsCall(shown[c], c)'
  BY <1>1, <1>3
<1> QED
  BY <1>1, <1>2, <1>4, <1>5 DEF ShownInv, IsList

LEMMA ShownStep == ConfigInv /\ TimesInv /\ ShownInv /\ [Next]_vars => ShownInv'
<1> SUFFICES ASSUME ConfigInv, TimesInv, ShownInv, [Next]_vars
             PROVE  ShownInv'
  OBVIOUS
<1>1. CASE ReadConfig
  BY <1>1, ReadingShown
<1>2. ASSUME NEW n \in Name, Enter(n)
      PROVE  ShownInv'
  BY <1>2, EnterShown
<1>3. ASSUME NEW i \in DOMAIN callstack, Return(i)
      PROVE  ShownInv'
  BY <1>3, ReturnShown
<1>4. CASE Tick /\ UNCHANGED <<configVars, reportVars>>
  BY <1>4, ShownKept DEF Tick, configVars, reportVars
<1>5. CASE Finish
  BY <1>5, ShownKept DEF Finish, ShowSummary, configVars, reportVars
<1>6. CASE UNCHANGED vars
  BY <1>6, ShownKept DEF vars, timesVars, configVars, reportVars
<1> QED
  BY <1>1, <1>2, <1>3, <1>4, <1>5, <1>6 DEF Next

LEMMA ShownInitially == Init => ShownInv
<1> SUFFICES ASSUME Init
             PROVE  ShownInv
  OBVIOUS
<1>1. calls = 0 /\ callstack = << >> /\ stack_pointer = 0 /\ shown = << >>
  BY DEF Init, TimesInit
<1>2. 1..0 = {} /\ DOMAIN callstack = {} /\ ~(0 > 0)
  BY <1>1
<1>3. IsList(shown, calls)
  BY <1>1, <1>2 DEF IsList
<1> QED
  BY <1>1, <1>2, <1>3 DEF ShownInv, FramesOf

----
(* Lists made of pieces.                                                   *)

\* f[k] is what the first k parts are, one after the other
Pieced(n, part, f) == f[0] = << >> /\ \A k \in 1..n : f[k] = f[k - 1] \o part[k]

\* Part k begins after after[k - 1] places
IsAfter(n, part, after) ==
  after[0] = 0 /\ \A k \in 1..n : after[k] = after[k - 1] + Len(part[k])

\* Each of the first j parts is where it should be
Has(part, after, s, j) ==
  \A k \in 1..j : \A q \in 1..Len(part[k]) :
    after[k - 1] + q \in 1..after[j] /\ s[after[k - 1] + q] = part[k][q]

ArePieced(n, part) ==
  \E f : f = [k \in 0..n |-> IF k = 0 THEN << >> ELSE f[k - 1] \o part[k]]

LEMMA PiecedExists ==
  ASSUME NEW n \in Nat, NEW S, NEW part, \A k \in 1..n : part[k] \in Seq(S)
  PROVE  ArePieced(n, part)
<1> DEFINE V == Seq(S)
           step == [k \in 1..n |-> [s \in V |-> s \o part[k]]]
<1>1. << >> \in V /\ \A k \in 1..n : \A s \in V : s \o part[k] \in V
  BY ConcatProperties
<1> HIDE DEF V
<1>2. step \in [1..n -> [V -> V]]
  BY <1>1
<1>3. PICK f \in [0..n -> V] : Grows(n, << >>, step, f)
  <2> HIDE DEF step
  <2> QED
    BY <1>1, <1>2, GrowthExists
<1>4. ASSUME NEW k \in 0..n
      PROVE  f[k] = IF k = 0 THEN << >> ELSE f[k - 1] \o part[k]
  <2>1. CASE k = 0
    BY <1>3, <2>1 DEF Grows
  <2>2. CASE k # 0
    <3>1. k \in 1..n /\ f[k - 1] \in V
      BY <2>2
    <3>2. f[k] = step[k][f[k - 1]]
      BY <1>3, <2>2 DEF Grows
    <3> QED
      BY <2>2, <3>1, <3>2
  <2> QED
    BY <2>1, <2>2
<1> QED
  BY <1>4 DEF ArePieced

\* A list behind another
IsBehind(t, s, p) ==
  /\ Len(t) = Len(s) + Len(p)
  /\ \A i \in 1..Len(s) : i \in 1..Len(t) /\ t[i] = s[i]
  /\ \A i \in 1..Len(p) : Len(s) + i \in 1..Len(t) /\ t[Len(s) + i] = p[i]

LEMMA Behind ==
  ASSUME NEW S, NEW s \in Seq(S), NEW p \in Seq(S), NEW t, IsConcat(t, s, p)
  PROVE  t \in Seq(S) /\ IsBehind(t, s, p)
<1>1. Len(s) \in Nat /\ Len(p) \in Nat
  BY LenProperties
<1>2. /\ t \in Seq(S) /\ Len(t) = Len(s) + Len(p)
      /\ \A i \in 1..Len(t) : t[i] = IF i <= Len(s) THEN s[i] ELSE p[i - Len(s)]
  BY <1>1, ConcatProperties DEF IsConcat
<1>3. ASSUME NEW i \in 1..Len(s)
      PROVE  i \in 1..Len(t) /\ i <= Len(s)
  BY <1>1, <1>2
<1>4. ASSUME NEW i \in 1..Len(p)
      PROVE  /\ Len(s) + i \in 1..Len(t) /\ ~(Len(s) + i <= Len(s))
             /\ Len(s) + i - Len(s) = i
  BY <1>1, <1>2
<1> QED
  BY <1>2, <1>3, <1>4 DEF IsBehind

\* One part more
LEMMA OneMore ==
  ASSUME NEW S, NEW n \in Nat, NEW part, \A k \in 1..n : part[k] \in Seq(S),
         NEW after \in [0..n -> Nat], IsAfter(n, part, after),
         NEW j \in 1..n, NEW s \in Seq(S), Len(s) = after[j - 1], Has(part, after, s, j - 1),
         NEW t, IsConcat(t, s, part[j])
  PROVE  t \in Seq(S) /\ Len(t) = after[j] /\ Has(part, after, t, j)
<1>1. part[j] \in Seq(S) /\ after[j] = after[j - 1] + Len(part[j])
  BY DEF IsAfter
<1>2. /\ t \in Seq(S) /\ Len(t) = after[j]
      /\ \A i \in 1..after[j - 1] : i \in 1..after[j] /\ t[i] = s[i]
      /\ \A i \in 1..Len(part[j]) :
           after[j - 1] + i \in 1..after[j] /\ t[after[j - 1] + i] = part[j][i]
  <2> DEFINE p == part[j]
             b == after[j]
             a == after[j - 1]
  <2>1. p \in Seq(S) /\ b = a + Len(p) /\ Len(s) = a /\ IsConcat(t, s, p)
    BY <1>1
  <2> HIDE DEF a, b, p
  <2>2. t \in Seq(S) /\ IsBehind(t, s, p)
    BY <2>1, Behind
  <2> QED
    BY <2>1, <2>2 DEF IsBehind, a, b, p
<1>3. ASSUME NEW k \in 1..j, NEW q \in 1..Len(part[k])
      PROVE  after[k - 1] + q \in 1..after[j] /\ t[after[k - 1] + q] = part[k][q]
  <2>1. CASE k = j
    BY <1>2, <2>1
  <2>2. CASE k # j
    <3>1. k \in 1..(j - 1)
      BY <2>2
    <3> QED
      BY <1>2, <3>1 DEF Has
  <2> QED
    BY <2>1, <2>2
<1> QED
  BY <1>2, <1>3 DEF Has

LEMMA PiecedIs ==
  ASSUME NEW S, NEW n \in Nat, NEW part, \A k \in 1..n : part[k] \in Seq(S),
         NEW after \in [0..n -> Nat], IsAfter(n, part, after), NEW f, Pieced(n, part, f)
  PROVE  f[n] \in Seq(S) /\ Len(f[n]) = after[n] /\ Has(part, after, f[n], n)
<1> DEFINE Good(j) == f[j] \in Seq(S) /\ Len(f[j]) = after[j] /\ Has(part, after, f[j], j)
           Bad == {j \in 0..n : ~Good(j)}
<1>1. Good(0)
  BY DEF Pieced, IsAfter, Has
<1>2. ASSUME NEW j \in 1..n, Good(j - 1)
      PROVE  Good(j)
  <2>1. f[j] = f[j - 1] \o part[j]
    BY DEF Pieced
  <2>2. IsConcat(f[j], f[j - 1], part[j])
    BY <2>1 DEF IsConcat
  <2> QED
    BY <1>2, <2>2, OneMore
<1> HIDE DEF Good
<1>3. Bad = {}
  <2> SUFFICES ASSUME Bad # {}
               PROVE  FALSE
    OBVIOUS
  <2>1. Bad \in SUBSET Nat
    OBVIOUS
  <2>2. PICK k \in Bad : \A j \in Bad : k <= j
    BY <2>1, Least
  <2>3. k \in 1..n /\ k - 1 \in 0..n /\ ~(k <= k - 1)
    BY <1>1, <2>2
  <2>4. Good(k - 1)
    BY <2>2, <2>3
  <2> QED
    BY <1>2, <2>2, <2>3, <2>4
<1>4. n \in 0..n
  OBVIOUS
<1>5. Good(n)
  BY <1>3, <1>4
<1> QED
  BY <1>5 DEF Good

LEMMA PiecedTypes ==
  ASSUME NEW S, NEW n \in Nat, NEW part, \A k \in 1..n : part[k] \in Seq(S),
         NEW f, Pieced(n, part, f)
  PROVE  \A j \in 0..n : f[j] \in Seq(S)
<1> DEFINE Bad == {j \in 0..n : f[j] \notin Seq(S)}
<1>1. f[0] \in Seq(S)
  BY EmptySeq DEF Pieced
<1>2. Bad = {}
  <2> SUFFICES ASSUME Bad # {}
               PROVE  FALSE
    OBVIOUS
  <2>1. Bad \in SUBSET Nat
    OBVIOUS
  <2>2. PICK k \in Bad : \A j \in Bad : k <= j
    BY <2>1, Least
  <2>3. k \in 1..n /\ k - 1 \in 0..n /\ ~(k <= k - 1)
    BY <1>1, <2>2
  <2>4. f[k - 1] \in Seq(S)
    BY <2>2, <2>3
  <2>5. f[k] = f[k - 1] \o part[k]
    BY <2>3 DEF Pieced
  <2>6. part[k] \in Seq(S)
    BY <2>3
  <2>7. f[k - 1] \o part[k] \in Seq(S)
    BY <2>4, <2>6, ConcatProperties
  <2> QED
    BY <2>2, <2>5, <2>7
<1> QED
  BY <1>2

LEMMA AfterExists ==
  ASSUME NEW n \in Nat, NEW S, NEW part, \A k \in 1..n : part[k] \in Seq(S)
  PROVE  \E after \in [0..n -> Nat] : IsAfter(n, part, after)
<1> DEFINE V == Nat
           first == 0
           step == [k \in 1..n |-> [x \in V |-> x + Len(part[k])]]
<1>1. \A k \in 1..n : Len(part[k]) \in Nat
  BY LenProperties
<1>2. step \in [1..n -> [V -> V]] /\ first \in V
  BY <1>1
<1>3. PICK f \in [0..n -> V] : Grows(n, first, step, f)
  <2> HIDE DEF step, V, first
  <2> QED
    BY <1>2, GrowthExists
<1>4. f[0] = 0
  <2> HIDE DEF step
  <2>1. 0 \in 0..n
    OBVIOUS
  <2> QED
    BY <1>3, <2>1 DEF Grows
<1>5. ASSUME NEW k \in 1..n
      PROVE  f[k] = f[k - 1] + Len(part[k])
  <2>1. k \in 0..n /\ k # 0 /\ f[k - 1] \in Nat
    BY <1>3
  <2>2. f[k] = step[k][f[k - 1]]
    BY <1>3, <2>1 DEF Grows
  <2> QED
    BY <2>1, <2>2
<1> QED
  BY <1>4, <1>5 DEF IsAfter

----
(* The line that states a prototype.                                       *)

Params(d) == Len(d.arg_types)
Word(d) == d.name[1]

\* The tokens of argument i: a comma and a space, the mark, the type
ArgToken == Type \cup {Plus, Comma, Space}
IsMarked(d, i) == i = Params(d) - d.params_right + 1
Ahead(i) == IF i > 1 THEN 2 ELSE 0
Mark(d, i) == IF IsMarked(d, i) THEN 1 ELSE 0

IsArg(a, d, i) ==
  /\ a \in Seq(ArgToken)
  /\ Len(a) = Ahead(i) + Mark(d, i) + 1
  /\ i > 1 => a[1] = Comma /\ a[2] = Space
  /\ IsMarked(d, i) => a[Ahead(i) + 1] = Plus
  /\ a[Ahead(i) + Mark(d, i) + 1] = d.arg_types[i]

LEMMA StatedIs ==
  ASSUME NEW d \in Stated
  PROVE  /\ d.return_type \in Type /\ d.name = <<Word(d)>>
         /\ Word(d) \notin {Space, Open, Close}
         /\ Params(d) \in Nat /\ d.arg_types \in Seq(Type) /\ d.params_right \in 0..Params(d)
         /\ \A i \in 1..Params(d) : d.arg_types[i] \in Type
         /\ d.arg_types = [i \in 1..Params(d) |-> d.arg_types[i]]
         /\ Params(d) <= MaxArgs /\ MaxArgs \in Nat
         /\ d = [return_type |-> d.return_type, name |-> d.name,
                 arg_types |-> d.arg_types, params_right |-> d.params_right]
<1>1. /\ d = [return_type |-> d.return_type, name |-> <<d.name[1]>>,
              arg_types |-> d.arg_types, params_right |-> d.params_right]
      /\ d.return_type \in Type
      /\ d.name[1] \notin {Space, Open, Close}
      /\ d.arg_types \in Seq(Type) /\ Len(d.arg_types) <= MaxArgs
      /\ d.params_right \in 0..Len(d.arg_types)
  BY StatedAssumption
<1>2. d.name = <<d.name[1]>>
  BY <1>1
<1>3. /\ Len(d.arg_types) \in Nat /\ DOMAIN d.arg_types = 1..Len(d.arg_types)
      /\ \A i \in 1..Len(d.arg_types) : d.arg_types[i] \in Type
      /\ d.arg_types = [i \in 1..Len(d.arg_types) |-> d.arg_types[i]]
  BY <1>1, LenProperties
<1> QED
  BY <1>1, <1>2, <1>3, MaxAssumption DEF Params, Word

\* Short lists, written out
LEMMA NoneAndOne ==
  ASSUME NEW a
  PROVE  << >> \o <<a>> = <<a>>
OBVIOUS

LEMMA OneAndOne ==
  ASSUME NEW a, NEW b
  PROVE  <<a>> \o <<b>> = <<a, b>>
<1> DEFINE S == {a, b}
           s == <<a>> \o <<b>>
<1>1. <<a>> \in Seq(S) /\ <<b>> \in Seq(S) /\ Len(<<a>>) = 1 /\ Len(<<b>>) = 1
  OBVIOUS
<1>2. /\ s \in Seq(S) /\ Len(s) = 2
      /\ \A i \in 1..2 : s[i] = IF i <= 1 THEN <<a>>[i] ELSE <<b>>[i - 1]
  BY <1>1, ConcatProperties
<1> HIDE DEF s
<1>3. s[1] = a /\ s[2] = b
  BY <1>2
<1> QED
  <2>1. <<a, b>> \in Seq(S) /\ Len(<<a, b>>) = 2
    OBVIOUS
  <2>2. \A i \in 1..2 : s[i] = <<a, b>>[i]
    BY <1>3
  <2> QED
    BY <1>2, <2>1, <2>2, SeqEqual DEF s

LEMMA TwoAndOne ==
  ASSUME NEW a, NEW b, NEW c
  PROVE  <<a, b>> \o <<c>> = <<a, b, c>>
<1> DEFINE S == {a, b, c}
           s == <<a, b>> \o <<c>>
<1>1. <<a, b>> \in Seq(S) /\ <<c>> \in Seq(S) /\ Len(<<a, b>>) = 2 /\ Len(<<c>>) = 1
  OBVIOUS
<1>2. /\ s \in Seq(S) /\ Len(s) = 3
      /\ \A i \in 1..3 : s[i] = IF i <= 2 THEN <<a, b>>[i] ELSE <<c>>[i - 2]
  BY <1>1, ConcatProperties
<1> HIDE DEF s
<1>3. s[1] = a /\ s[2] = b /\ s[3] = c
  BY <1>2
<1> QED
  <2>1. <<a, b, c>> \in Seq(S) /\ Len(<<a, b, c>>) = 3
    OBVIOUS
  <2>2. \A i \in 1..3 : s[i] = <<a, b, c>>[i]
    BY <1>3
  <2> QED
    BY <1>2, <2>1, <2>2, SeqEqual DEF s

LEMMA ThreeAndOne ==
  ASSUME NEW a, NEW b, NEW c, NEW d
  PROVE  <<a, b, c>> \o <<d>> = <<a, b, c, d>>
<1> DEFINE S == {a, b, c, d}
           s == <<a, b, c>> \o <<d>>
<1>1. <<a, b, c>> \in Seq(S) /\ <<d>> \in Seq(S) /\ Len(<<a, b, c>>) = 3 /\ Len(<<d>>) = 1
  OBVIOUS
<1>2. /\ s \in Seq(S) /\ Len(s) = 4
      /\ \A i \in 1..4 : s[i] = IF i <= 3 THEN <<a, b, c>>[i] ELSE <<d>>[i - 3]
  BY <1>1, ConcatProperties
<1> HIDE DEF s
<1>3. s[1] = a /\ s[2] = b /\ s[3] = c /\ s[4] = d
  BY <1>2
<1> QED
  <2>1. <<a, b, c, d>> \in Seq(S) /\ Len(<<a, b, c, d>>) = 4
    OBVIOUS
  <2>2. \A i \in 1..4 : s[i] = <<a, b, c, d>>[i]
    BY <1>3
  <2> QED
    BY <1>2, <2>1, <2>2, SeqEqual DEF s

LEMMA ArgTextIs ==
  ASSUME NEW d \in Stated, NEW i \in 1..Params(d)
  PROVE  IsArg(ArgText(d, i), d, i)
<1> DEFINE t == d.arg_types[i]
<1>1. t \in Type /\ Params(d) \in Nat
  BY StatedIs
<1>2. ArgText(d, i) = (IF i > 1 THEN <<Comma, Space>> ELSE << >>)
                       \o (IF IsMarked(d, i) THEN <<Plus>> ELSE << >>) \o <<t>>
  BY DEF ArgText, IsMarked, Params
<1> HIDE DEF t
<1>3. t \in ArgToken /\ {Plus, Comma, Space} \subseteq ArgToken
  BY <1>1 DEF ArgToken
<1>4. CASE i > 1 /\ IsMarked(d, i)
  <2>1. ArgText(d, i) = <<Comma, Space, Plus, t>>
    <3>1. ArgText(d, i) = <<Comma, Space>> \o <<Plus>> \o <<t>>
      BY <1>2, <1>4
    <3>2. <<Comma, Space>> \o <<Plus>> = <<Comma, Space, Plus>>
      BY TwoAndOne
    <3> QED
      BY <3>1, <3>2, ThreeAndOne
  <2>2. Ahead(i) = 2 /\ Mark(d, i) = 1
    BY <1>4 DEF Ahead, Mark
  <2> QED
    BY <1>3, <1>4, <2>1, <2>2 DEF IsArg, t
<1>5. CASE i > 1 /\ ~IsMarked(d, i)
  <2>1. ArgText(d, i) = <<Comma, Space, t>>
    <3>1. ArgText(d, i) = <<Comma, Space>> \o << >> \o <<t>>
      BY <1>2, <1>5
    <3>2. <<Comma, Space>> \o << >> = <<Comma, Space>>
      OBVIOUS
    <3> QED
      BY <3>1, <3>2, TwoAndOne
  <2>2. Ahead(i) = 2 /\ Mark(d, i) = 0
    BY <1>5 DEF Ahead, Mark
  <2> QED
    BY <1>3, <1>5, <2>1, <2>2 DEF IsArg, t
<1>6. CASE ~(i > 1) /\ IsMarked(d, i)
  <2>1. ArgText(d, i) = <<Plus, t>>
    <3>1. ArgText(d, i) = << >> \o <<Plus>> \o <<t>>
      BY <1>2, <1>6
    <3>2. << >> \o <<Plus>> = <<Plus>>
      BY NoneAndOne
    <3> QED
      BY <3>1, <3>2, OneAndOne
  <2>2. Ahead(i) = 0 /\ Mark(d, i) = 1
    BY <1>6 DEF Ahead, Mark
  <2> QED
    BY <1>3, <1>6, <2>1, <2>2 DEF IsArg, t
<1>7. CASE ~(i > 1) /\ ~IsMarked(d, i)
  <2>1. ArgText(d, i) = <<t>>
    BY <1>2, <1>7
  <2>2. Ahead(i) = 0 /\ Mark(d, i) = 0
    BY <1>7 DEF Ahead, Mark
  <2> QED
    BY <1>3, <1>7, <2>1, <2>2 DEF IsArg, t
<1> QED
  BY <1>4, <1>5, <1>6, <1>7

\* The tokens the first i arguments take
Taken(d, i) ==
  IF i = 0 THEN 0 ELSE 3 * i - 2 + (IF i > Params(d) - d.params_right THEN 1 ELSE 0)
Parts(d) == [i \in 1..Params(d) |-> ArgText(d, i)]
After(d) == [i \in 0..Params(d) |-> Taken(d, i)]

LEMMA TakenIs ==
  ASSUME NEW d \in Stated
  PROVE  /\ After(d) \in [0..Params(d) -> Nat]
         /\ \A i \in 1..Params(d) :
              Taken(d, i) = Taken(d, i - 1) + Ahead(i) + Mark(d, i) + 1
<1>1. Params(d) \in Nat /\ d.params_right \in 0..Params(d)
  BY StatedIs
<1>2. ASSUME NEW i \in 0..Params(d)
      PROVE  Taken(d, i) \in Nat
  BY <1>1 DEF Taken
<1>3. ASSUME NEW i \in 1..Params(d)
      PROVE  Taken(d, i) = Taken(d, i - 1) + Ahead(i) + Mark(d, i) + 1
  BY <1>1 DEF Taken, Ahead, Mark, IsMarked
<1> QED
  BY <1>2, <1>3 DEF After

LEMMA TakenNat ==
  ASSUME NEW d \in Stated, NEW i \in 0..Params(d)
  PROVE  Taken(d, i) \in Nat
<1>1. After(d) \in [0..Params(d) -> Nat]
  BY TakenIs
<1>2. After(d)[i] = Taken(d, i)
  BY DEF After
<1> QED
  BY <1>1, <1>2

LEMMA ArgsTextIs ==
  ASSUME NEW d \in Stated
  PROVE  /\ ArgsText(d) \in Seq(ArgToken) /\ Len(ArgsText(d)) = Taken(d, Params(d))
         /\ Has(Parts(d), After(d), ArgsText(d), Params(d))
<1> DEFINE n == Params(d)
           Up(f) == f = [k \in 0..n |-> IF k = 0 THEN << >> ELSE f[k - 1] \o ArgText(d, k)]
           upTo == CHOOSE f : Up(f)
<1>1. ArgsText(d) = upTo[n]
  BY DEF ArgsText, Params
<1>2. n \in Nat /\ \A k \in 1..n : Parts(d)[k] = ArgText(d, k) /\ IsArg(ArgText(d, k), d, k)
  BY StatedIs, ArgTextIs DEF Parts
<1> HIDE DEF n
<1>3. \A k \in 1..n : Parts(d)[k] \in Seq(ArgToken)
  BY <1>2 DEF IsArg
<1>4. Up(upTo)
  <2>1. PICK f : f = [k \in 0..n |-> IF k = 0 THEN << >> ELSE f[k - 1] \o Parts(d)[k]]
    <3>1. ArePieced(n, Parts(d))
      BY <1>2, <1>3, PiecedExists
    <3> QED
      BY <3>1 DEF ArePieced
  <2>2. \A k \in 0..n : k # 0 => Parts(d)[k] = ArgText(d, k)
    BY <1>2
  <2>3. Up(f)
    BY <2>1, <2>2
  <2> HIDE DEF Up
  <2> QED
    BY <2>3
<1>5. \A k \in 0..n : upTo[k] = IF k = 0 THEN << >> ELSE upTo[k - 1] \o ArgText(d, k)
  <2> HIDE DEF upTo
  <2> QED
    BY <1>4
<1> HIDE DEF upTo
<1>6. Pieced(n, Parts(d), upTo)
  <2>1. \A k \in 1..n : k \in 0..n /\ k # 0
    OBVIOUS
  <2>2. upTo[0] = << >>
    BY <1>2, <1>5
  <2>3. \A k \in 1..n : upTo[k] = upTo[k - 1] \o ArgText(d, k)
    BY <1>5, <2>1
  <2> QED
    BY <1>2, <2>2, <2>3 DEF Pieced
<1>7. After(d) \in [0..n -> Nat] /\ IsAfter(n, Parts(d), After(d)) /\ After(d)[n] = Taken(d, n)
  <2>1. After(d) \in [0..n -> Nat] /\ \A k \in 0..n : After(d)[k] = Taken(d, k)
    BY TakenIs DEF After, n
  <2>2. Taken(d, 0) = 0
    BY DEF Taken
  <2>3. ASSUME NEW k \in 1..n
        PROVE  Taken(d, k) = Taken(d, k - 1) + Len(Parts(d)[k])
    <3>1. Taken(d, k) = Taken(d, k - 1) + Ahead(k) + Mark(d, k) + 1
      BY TakenIs DEF n
    <3>2. Len(Parts(d)[k]) = Ahead(k) + Mark(d, k) + 1
      BY <1>2 DEF IsArg
    <3>3. /\ Taken(d, k - 1) \in Int
          /\ Ahead(k) \in Int /\ Mark(d, k) \in Int
      <4>1. k - 1 \in 0..n
        BY <1>2
      <4> QED
        BY <2>1, <4>1 DEF Ahead, Mark
    <3> QED
      BY <3>1, <3>2, <3>3
  <2>4. \A k \in 1..n : k \in 0..n /\ k - 1 \in 0..n
    BY <1>2
  <2>5. 0 \in 0..n /\ n \in 0..n
    BY <1>2
  <2> QED
    BY <2>1, <2>2, <2>3, <2>4, <2>5 DEF IsAfter
<1>8. upTo[n] \in Seq(ArgToken) /\ Len(upTo[n]) = After(d)[n] /\ Has(Parts(d), After(d), upTo[n], n)
  BY <1>2, <1>3, <1>6, <1>7, PiecedIs
<1> QED
  BY <1>1, <1>7, <1>8 DEF n

\* The line itself, token by token
IsText(s, d) ==
  /\ DOMAIN s = 1..Len(s) /\ Len(s) = Taken(d, Params(d)) + 5
  /\ s[1] = d.return_type /\ s[2] = Space /\ s[3] = Word(d) /\ s[4] = Open
  /\ \A j \in 1..Taken(d, Params(d)) : s[4 + j] = ArgsText(d)[j] /\ ArgsText(d)[j] \in ArgToken
  /\ s[Len(s)] = Close

LEMMA TextIs ==
  ASSUME NEW d \in Stated
  PROVE  IsText(Text(d), d)
<1> DEFINE S == ArgToken \cup {d.return_type, Space, Word(d), Open, Close}
           head == <<d.return_type, Space, Word(d), Open>>
           args == ArgsText(d)
           most == head \o args
           n == Taken(d, Params(d))
<1>1. Text(d) = most \o <<Close>>
  <2>1. d.name = <<Word(d)>>
    BY StatedIs
  <2>2. <<d.return_type, Space>> \o d.name \o <<Open>> = head
    <3>1. <<d.return_type, Space>> \o <<Word(d)>> = <<d.return_type, Space, Word(d)>>
      BY TwoAndOne
    <3>2. <<d.return_type, Space, Word(d)>> \o <<Open>> = head
      BY ThreeAndOne
    <3> QED
      BY <2>1, <3>1, <3>2
  <2> QED
    BY <2>2 DEF Text
<1>2. head \in Seq(S) /\ Len(head) = 4
  OBVIOUS
<1>3. args \in Seq(S) /\ Len(args) = n /\ \A j \in 1..n : args[j] \in ArgToken
  <2>1. args \in Seq(ArgToken) /\ Len(args) = n
    BY ArgsTextIs
  <2>2. \A j \in 1..n : args[j] \in ArgToken
    BY <2>1, LenProperties
  <2> HIDE DEF args, n
  <2> QED
    BY <2>1, <2>2
<1>4. n \in Nat
  BY <1>3, LenProperties
<1>5. <<Close>> \in Seq(S) /\ Len(<<Close>>) = 1 /\ <<Close>>[1] = Close
  OBVIOUS
<1>6. head[1] = d.return_type /\ head[2] = Space /\ head[3] = Word(d) /\ head[4] = Open
  OBVIOUS
<1> HIDE DEF S, head, args, n
<1>7. most \in Seq(S) /\ IsBehind(most, head, args)
  BY <1>2, <1>3, Behind DEF IsConcat
<1> HIDE DEF most
<1>8. Text(d) \in Seq(S) /\ IsBehind(Text(d), most, <<Close>>)
  BY <1>1, <1>5, <1>7, Behind DEF IsConcat
<1>9. Len(most) = n + 4 /\ Len(Text(d)) = n + 5 /\ DOMAIN Text(d) = 1..(n + 5)
  <2>1. Len(most) = n + 4
    BY <1>2, <1>3, <1>4, <1>7 DEF IsBehind
  <2>2. Len(Text(d)) = Len(most) + 1
    BY <1>5, <1>8 DEF IsBehind
  <2> QED
    BY <1>4, <1>8, <2>1, <2>2, LenProperties
<1>10. \A i \in 1..4 : Text(d)[i] = head[i]
  BY <1>2, <1>4, <1>7, <1>8, <1>9 DEF IsBehind
<1>11. \A j \in 1..n : Text(d)[4 + j] = args[j]
  BY <1>2, <1>3, <1>4, <1>7, <1>8, <1>9 DEF IsBehind
<1>12. Text(d)[n + 5] = Close
  BY <1>4, <1>5, <1>8, <1>9 DEF IsBehind
<1> QED
  BY <1>3, <1>6, <1>9, <1>10, <1>11, <1>12 DEF IsText, n, args

LEMMA TokenAt ==
  ASSUME NEW d \in Stated, NEW s, IsText(s, d), NEW i \in 1..Params(d),
         NEW q \in 1..(Ahead(i) + Mark(d, i) + 1)
  PROVE  At(s, 4 + Taken(d, i - 1) + q) = ArgText(d, i)[q]
<1> DEFINE n == Params(d)
           e == Taken(d, n)
<1>1. n \in Nat
  BY StatedIs
<1>2. Parts(d)[i] = ArgText(d, i) /\ Len(ArgText(d, i)) = Ahead(i) + Mark(d, i) + 1
  BY ArgTextIs DEF Parts, IsArg
<1>3. /\ After(d)[i - 1] = Taken(d, i - 1) /\ Taken(d, i - 1) \in Nat
      /\ After(d)[n] = e /\ e \in Nat
  <2>1. i - 1 \in 0..n /\ n \in 0..n
    BY <1>1
  <2>2. After(d) \in [0..n -> Nat] /\ \A k \in 0..n : After(d)[k] = Taken(d, k)
    BY TakenIs DEF After
  <2> QED
    BY <2>1, <2>2
<1>4. Has(Parts(d), After(d), ArgsText(d), n)
  BY ArgsTextIs
<1>5. Taken(d, i - 1) + q \in 1..e /\ ArgsText(d)[Taken(d, i - 1) + q] = ArgText(d, i)[q]
  BY <1>2, <1>3, <1>4 DEF Has
<1>6. s[4 + (Taken(d, i - 1) + q)] = ArgText(d, i)[q]
  BY <1>5 DEF IsText
<1>7. 4 + Taken(d, i - 1) + q \in 1..Len(s) /\ 4 + (Taken(d, i - 1) + q) = 4 + Taken(d, i - 1) + q
  <2>1. Len(s) = e + 5
    BY DEF IsText
  <2> HIDE DEF e
  <2> QED
    BY <1>3, <1>5, <2>1
<1> QED
  BY <1>6, <1>7 DEF At

\* Where the loop looks for argument i, and where it finds its type
Place(d, i) ==
  IF 1 < i /\ i <= Params(d) THEN Taken(d, i - 1) + 7 ELSE Taken(d, i - 1) + 5
TypePlace(d, i) == Taken(d, i) + 4

\* What the places of argument i hold
ArgAt(s, d, i) ==
  /\ Place(d, i) \in Nat /\ Place(d, i) = TypePlace(d, i) - Mark(d, i)
  /\ Place(d, i) \in 1..Len(s) /\ TypePlace(d, i) + 1 \in 1..Len(s)
  /\ At(s, TypePlace(d, i)) = d.arg_types[i]
  /\ IsMarked(d, i) => At(s, Place(d, i)) = Plus
  /\ i < Params(d) =>
       /\ At(s, TypePlace(d, i) + 1) = Comma /\ At(s, TypePlace(d, i) + 2) = Space
       /\ TypePlace(d, i) + 2 \in 1..Len(s) /\ Place(d, i + 1) = TypePlace(d, i) + 3
  /\ i = Params(d) => At(s, TypePlace(d, i) + 1) = Close /\ Place(d, i + 1) = TypePlace(d, i) + 1

LEMMA ArgAtIs ==
  ASSUME NEW d \in Stated, NEW s, IsText(s, d), NEW i \in 1..Params(d)
  PROVE  ArgAt(s, d, i)
<1> DEFINE n == Params(d)
           b == Taken(d, i - 1)
           c == Taken(d, i)
           e == Taken(d, n)
<1>1. /\ n \in Nat /\ d.params_right \in 0..n
      /\ IsArg(ArgText(d, i), d, i) /\ Len(s) = e + 5
  BY StatedIs, ArgTextIs DEF IsText
<1>2. /\ b \in Nat /\ c \in Nat /\ e \in Nat /\ c <= e
      /\ c = b + Ahead(i) + Mark(d, i) + 1
      /\ Ahead(i) = (IF i > 1 THEN 2 ELSE 0) /\ Mark(d, i) \in {0, 1}
      /\ i < n => c + 3 <= e
  <2>1. c = b + Ahead(i) + Mark(d, i) + 1
    BY TakenIs
  <2>2. b \in Nat /\ c \in Nat /\ e \in Nat
    <3>1. i - 1 \in 0..n /\ i \in 0..n /\ n \in 0..n
      BY <1>1
    <3> QED
      BY <3>1, TakenNat
  <2>3. c <= e /\ (i < n => c + 3 <= e)
    <3>1. c = 3 * i - 2 + (IF i > n - d.params_right THEN 1 ELSE 0)
      BY <1>1 DEF Taken
    <3>2. e = 3 * n - 2 + (IF n > n - d.params_right THEN 1 ELSE 0)
      BY <1>1 DEF Taken
    <3>3. n > n - d.params_right <=> d.params_right > 0
      BY <1>1
    <3>4. i \in Int /\ i >= 1 /\ i <= n /\ n \in Int /\ d.params_right \in Int
      BY <1>1
    <3> DEFINE r == d.params_right
               x == IF i > n - r THEN 1 ELSE 0
               y == IF n > n - r THEN 1 ELSE 0
    <3>5. x \in {0, 1} /\ y \in {0, 1} /\ (i = n => x = y) /\ (x = 1 => y = 1)
      BY <3>3, <3>4
    <3>6. c = (3 * i - 2) + x /\ e = (3 * n - 2) + y
      BY <3>1, <3>2
    <3> HIDE DEF c, e, n, r, x, y
    <3>7. x <= y /\ x \in Int /\ y \in Int
      BY <3>5
    <3>8. CASE i = n
      BY <3>4, <3>5, <3>6, <3>7, <3>8
    <3>9. CASE i < n
      BY <3>4, <3>6, <3>7, <3>9
    <3> QED
      BY <3>4, <3>8, <3>9
  <2> QED
    BY <2>1, <2>2, <2>3 DEF Ahead, Mark
<1>3. Place(d, i) = b + Ahead(i) + 5 /\ Place(d, i) = c + 4 - Mark(d, i)
  <2>1. Place(d, i) = IF 1 < i /\ i <= n THEN b + 7 ELSE b + 5
    BY DEF Place
  <2>2. i \in Int /\ 1 <= i /\ i <= n
    BY <1>1
  <2> DEFINE p == Place(d, i)
             a == Ahead(i)
             m == Mark(d, i)
  <2>3. b \in Int /\ a \in Int /\ m \in Int /\ c = b + a + m + 1
    BY <1>2
  <2>4. p = b + a + 5
    <3>1. a = (IF i > 1 THEN 2 ELSE 0)
      BY <1>2
    <3>2. p = (IF 1 < i /\ i <= n THEN b + 7 ELSE b + 5)
      BY <2>1
    <3> HIDE DEF p, a, b, n
    <3> QED
      BY <2>2, <2>3, <3>1, <3>2
  <2> HIDE DEF p, a, b, c, m
  <2>5. c \in Int
    BY <2>3
  <2>6. p = c + 4 - m
    BY <2>3, <2>4, <2>5
  <2> QED
    BY <2>4, <2>6 DEF p, a, m
<1>4. At(s, c + 4) = d.arg_types[i]
  <2>1. Ahead(i) + Mark(d, i) + 1 \in 1..(Ahead(i) + Mark(d, i) + 1)
    BY <1>2
  <2>2. At(s, 4 + b + (Ahead(i) + Mark(d, i) + 1)) = d.arg_types[i]
    BY <1>1, <2>1, TokenAt DEF IsArg
  <2>3. 4 + b + (Ahead(i) + Mark(d, i) + 1) = c + 4
    BY <1>2
  <2> QED
    BY <2>2, <2>3
<1>5. ASSUME IsMarked(d, i)
      PROVE  At(s, Place(d, i)) = Plus
  <2>1. Mark(d, i) = 1
    BY <1>5 DEF Mark
  <2>2. Ahead(i) + 1 \in 1..(Ahead(i) + Mark(d, i) + 1)
    BY <1>2, <2>1
  <2>3. At(s, 4 + b + (Ahead(i) + 1)) = Plus
    BY <1>1, <1>5, <2>2, TokenAt DEF IsArg
  <2>4. 4 + b + (Ahead(i) + 1) = Place(d, i)
    BY <1>2, <1>3
  <2> QED
    BY <2>3, <2>4
<1>6. ASSUME i < n
      PROVE  /\ At(s, c + 5) = Comma /\ At(s, c + 6) = Space
             /\ c + 6 \in 1..Len(s) /\ Place(d, i + 1) = c + 7
  <2>1. i + 1 \in 1..n /\ i + 1 > 1 /\ i + 1 - 1 = i
    BY <1>1, <1>6
  <2>2. Ahead(i + 1) = 2 /\ Mark(d, i + 1) \in {0, 1}
    BY <2>1 DEF Ahead, Mark
  <2>3. IsArg(ArgText(d, i + 1), d, i + 1)
    BY <2>1, ArgTextIs
  <2>4. 1 \in 1..(Ahead(i + 1) + Mark(d, i + 1) + 1) /\ 2 \in 1..(Ahead(i + 1) + Mark(d, i + 1) + 1)
    BY <2>2
  <2>5. At(s, 4 + c + 1) = Comma /\ At(s, 4 + c + 2) = Space
    BY <2>1, <2>3, <2>4, TokenAt DEF IsArg
  <2>6. 4 + c + 1 = c + 5 /\ 4 + c + 2 = c + 6 /\ c + 6 \in 1..(e + 5)
    BY <1>2, <1>6
  <2>7. Place(d, i + 1) = c + 7
    BY <2>1 DEF Place
  <2> QED
    BY <1>1, <2>5, <2>6, <2>7
<1>7. ASSUME i = n
      PROVE  At(s, c + 5) = Close /\ Place(d, i + 1) = c + 5
  <2>1. c = e
    BY <1>7
  <2>2. s[Len(s)] = Close /\ Len(s) = c + 5 /\ c + 5 \in 1..Len(s)
    BY <1>1, <1>2, <2>1 DEF IsText
  <2>3. ~(i + 1 <= n) /\ i + 1 - 1 = i
    BY <1>1, <1>7
  <2> QED
    BY <2>2, <2>3 DEF At, Place
<1>8. /\ c + 4 - Mark(d, i) \in 1..Len(s) /\ c + 4 - Mark(d, i) \in Nat /\ c + 5 \in 1..Len(s)
      /\ c + 4 + 1 = c + 5 /\ c + 4 + 2 = c + 6 /\ c + 4 + 3 = c + 7
  <2>1. /\ b \in Nat /\ c \in Nat /\ e \in Nat /\ c <= e /\ Mark(d, i) \in {0, 1}
        /\ Len(s) = e + 5
    BY <1>1, <1>2
  <2> HIDE DEF b, c, e
  <2> QED
    BY <2>1
<1>9. TypePlace(d, i) = c + 4
  BY DEF TypePlace
<1> HIDE DEF c, n
<1>10. TypePlace(d, i) + 1 = c + 5 /\ TypePlace(d, i) + 2 = c + 6 /\ TypePlace(d, i) + 3 = c + 7
  BY <1>8, <1>9
<1>11. /\ i < n => /\ At(s, TypePlace(d, i) + 1) = Comma /\ At(s, TypePlace(d, i) + 2) = Space
                   /\ TypePlace(d, i) + 2 \in 1..Len(s) /\ Place(d, i + 1) = TypePlace(d, i) + 3
       /\ i = n => At(s, TypePlace(d, i) + 1) = Close /\ Place(d, i + 1) = TypePlace(d, i) + 1
  BY <1>6, <1>7, <1>10
<1>12. /\ Place(d, i) = TypePlace(d, i) - Mark(d, i) /\ Place(d, i) \in Nat
       /\ Place(d, i) \in 1..Len(s) /\ TypePlace(d, i) + 1 \in 1..Len(s)
       /\ At(s, TypePlace(d, i)) = d.arg_types[i]
  <2>1. Place(d, i) = TypePlace(d, i) - Mark(d, i)
    BY <1>2, <1>3, <1>9
  <2>4. At(s, TypePlace(d, i)) = d.arg_types[i]
    BY <1>4, <1>9
  <2>2. Place(d, i) \in Nat /\ Place(d, i) \in 1..Len(s)
    BY Zenon, <1>3, <1>8
  <2>3. TypePlace(d, i) + 1 \in 1..Len(s)
    BY Zenon, <1>8, <1>10
  <2> QED
    BY <2>1, <2>2, <2>3, <2>4
<1> QED
  BY <1>5, <1>11, <1>12 DEF ArgAt, n

----
(* The parser's helpers.                                                   *)

LEMMA SpaceIsNoEnd == Space # "NUL"
BY DEF Space

LEMMA EatSpacesIs ==
  ASSUME NEW s, Len(s) \in Nat, NEW p \in 1..(Len(s) + 1)
  PROVE  /\ EatSpaces(s, p) \in p..(Len(s) + 1)
         /\ At(s, EatSpaces(s, p)) # Space
         /\ \A r \in p..(EatSpaces(s, p) - 1) : At(s, r) = Space
<1> DEFINE T == {q \in p..(Len(s) + 1) : At(s, q) # Space}
           Ends(q) == At(s, q) # Space /\ \A r \in p..(q - 1) : At(s, r) = Space
<1>1. At(s, Len(s) + 1) # Space
  BY SpaceIsNoEnd DEF At
<1>2. T \in SUBSET Nat /\ T # {}
  BY <1>1
<1>3. PICK q \in T : \A r \in T : q <= r
  BY <1>2, Least
<1>4. q \in p..(Len(s) + 1) /\ Ends(q)
  <2>1. \A r \in p..(q - 1) : r \in p..(Len(s) + 1) /\ ~(q <= r)
    BY <1>3
  <2> QED
    BY <1>3, <2>1
<1>5. EatSpaces(s, p) = CHOOSE r \in p..(Len(s) + 1) : Ends(r)
  BY DEF EatSpaces
<1> HIDE DEF Ends
<1>6. EatSpaces(s, p) \in p..(Len(s) + 1) /\ Ends(EatSpaces(s, p))
  BY <1>4, <1>5
<1> QED
  BY <1>6 DEF Ends

LEMMA NoSpace ==
  ASSUME NEW s, Len(s) \in Nat, NEW p \in 1..(Len(s) + 1), At(s, p) # Space
  PROVE  EatSpaces(s, p) = p
<1>1. EatSpaces(s, p) \in p..(Len(s) + 1) /\ \A r \in p..(EatSpaces(s, p) - 1) : At(s, r) = Space
  BY EatSpacesIs
<1>2. EatSpaces(s, p) # p => p \in p..(EatSpaces(s, p) - 1)
  BY <1>1
<1> QED
  BY <1>1, <1>2

LEMMA OneSpace ==
  ASSUME NEW s, Len(s) \in Nat, NEW p \in 1..Len(s), At(s, p) = Space, At(s, p + 1) # Space
  PROVE  EatSpaces(s, p) = p + 1
<1>1. /\ EatSpaces(s, p) \in p..(Len(s) + 1) /\ At(s, EatSpaces(s, p)) # Space
      /\ \A r \in p..(EatSpaces(s, p) - 1) : At(s, r) = Space
  BY EatSpacesIs
<1>2. EatSpaces(s, p) # p
  BY <1>1
<1>3. EatSpaces(s, p) # p + 1 => p + 1 \in p..(EatSpaces(s, p) - 1)
  BY <1>1, <1>2
<1> QED
  BY <1>1, <1>3

LEMMA StartIs ==
  ASSUME NEW s, Len(s) \in Nat, NEW p \in Nat
  PROVE  StartOfArgSig(s, p) = 0 \/ StartOfArgSig(s, p) \in p..Len(s)
<1> DEFINE parens == {q \in p..Len(s) : s[q] \in {Open, Close}}
           stop == {q \in parens : Stacked(s, q) <= 0}
           IsLast(q) == \A r \in stop : r <= q
           back == {Len(s) - q : q \in stop}
<1> SUFFICES ASSUME StartOfArgSig(s, p) # 0
             PROVE  StartOfArgSig(s, p) \in p..Len(s)
  OBVIOUS
<1>1. stop # {} /\ StartOfArgSig(s, p) = CHOOSE q \in stop : IsLast(q)
  BY DEF StartOfArgSig
<1>2. stop \subseteq p..Len(s)
  OBVIOUS
<1> HIDE DEF stop
<1>3. back \in SUBSET Nat /\ back # {}
  <2>1. ASSUME NEW q \in stop
        PROVE  Len(s) - q \in Nat
    <3>1. q \in p..Len(s)
      BY <1>2
    <3> QED
      BY <3>1
  <2> QED
    BY <1>1, <2>1
<1>4. PICK b \in back : \A c \in back : b <= c
  BY <1>3, Least
<1>5. PICK q \in stop : b = Len(s) - q
  OBVIOUS
<1>6. IsLast(q)
  <2>1. ASSUME NEW r \in stop
        PROVE  r <= q
    <3>1. b <= Len(s) - r
      BY <1>4
    <3> QED
      BY <1>2, <1>5, <3>1
  <2> QED
    BY <2>1
<1> HIDE DEF IsLast
<1> QED
  BY <1>1, <1>2, <1>6

\* The tokens are no types and differ
LEMMA TokensDiffer ==
  /\ \A t \in Type : /\ t # Space /\ t # Open /\ t # Close /\ t # Comma /\ t # Plus
                     /\ t # "unknown" /\ t # "NUL"
  /\ Space # Open /\ Space # Close /\ Space # Comma /\ Space # Plus
  /\ Open # Close /\ Open # Comma /\ Open # Plus
  /\ Close # Comma /\ Close # Plus /\ Comma # Plus
<1>1. \A t \in Type : t \notin {Space, Open, Close, Comma, Plus, Hash, "NUL", "unknown"}
  BY TypeAssumption
<1>2. /\ Space # Open /\ Space # Close /\ Space # Comma /\ Space # Plus
      /\ Open # Close /\ Open # Comma /\ Open # Plus
      /\ Close # Comma /\ Close # Plus /\ Comma # Plus
  BY Zenon DEF Space, Open, Close, Comma, Plus
<1>3. ASSUME NEW t \in Type
      PROVE  /\ t # Space /\ t # Open /\ t # Close /\ t # Comma /\ t # Plus
             /\ t # "unknown" /\ t # "NUL"
  BY <1>1
<1> QED
  BY <1>2, <1>3

LEMMA StartOfText ==
  ASSUME NEW d \in Stated, NEW s, IsText(s, d)
  PROVE  StartOfArgSig(s, 3) = 4
<1> DEFINE parens == {q \in 3..Len(s) : s[q] \in {Open, Close}}
           stop == {q \in parens : Stacked(s, q) <= 0}
           IsLast(q) == \A r \in stop : r <= q
           e == Taken(d, Params(d))
<1>1. /\ e \in Nat /\ Len(s) = e + 5
      /\ s[3] = Word(d) /\ s[4] = Open /\ s[Len(s)] = Close
      /\ \A j \in 1..e : s[4 + j] \in ArgToken
  <2>1. e \in Nat
    BY ArgsTextIs, LenProperties
  <2> QED
    BY <2>1 DEF IsText
<1> HIDE DEF e
<1>2. ASSUME NEW t \in ArgToken
      PROVE  t # Open /\ t # Close
  BY TokensDiffer DEF ArgToken
<1>3. Word(d) # Open /\ Word(d) # Close
  BY StatedIs
<1>4. ASSUME NEW q \in 3..Len(s), q # 4, q # Len(s)
      PROVE  s[q] # Open /\ s[q] # Close
  <2>1. CASE q = 3
    BY <1>1, <1>3, <2>1
  <2>2. CASE q # 3
    <3>1. q - 4 \in 1..e /\ 4 + (q - 4) = q
      BY <1>1, <1>4, <2>2
    <3>2. s[q] \in ArgToken
      BY <1>1, <3>1
    <3> QED
      BY <1>2, <3>2
  <2> QED
    BY <2>1, <2>2
<1>5. parens = {4, Len(s)} /\ 4 # Len(s)
  BY <1>1, <1>4
<1>6. Stacked(s, 4) = 0 /\ Stacked(s, Len(s)) = 1
  <2>1. /\ {q \in 4..Len(s) : s[q] = Close} = {Len(s)}
        /\ {q \in 4..Len(s) : s[q] = Open} = {4}
        /\ {q \in Len(s)..Len(s) : s[q] = Close} = {Len(s)}
        /\ {q \in Len(s)..Len(s) : s[q] = Open} = {}
    BY <1>1, <1>4, TokensDiffer
  <2>2. Cardinality({4}) = 1 /\ Cardinality({Len(s)}) = 1 /\ Cardinality({}) = 0
    BY FS_Singleton, FS_EmptySet
  <2> DEFINE more(p) == Cardinality({q \in p..Len(s) : s[q] = Close})
             less(p) == Cardinality({q \in p..Len(s) : s[q] = Open})
  <2>3. Stacked(s, 4) = more(4) - less(4) /\ Stacked(s, Len(s)) = more(Len(s)) - less(Len(s))
    BY DEF Stacked
  <2>4. more(4) = 1 /\ less(4) = 1
    BY Zenon, <2>1, <2>2
  <2>5. more(Len(s)) = 1 /\ less(Len(s)) = 0
    BY Zenon, <2>1, <2>2
  <2> HIDE DEF more, less
  <2> QED
    BY <2>3, <2>4, <2>5
<1>7. stop = {4}
  BY <1>5, <1>6
<1> DEFINE last == CHOOSE q \in stop : IsLast(q)
<1>8. StartOfArgSig(s, 3) = IF stop = {} \/ Stacked(s, last) < 0 THEN 0 ELSE last
  BY DEF StartOfArgSig
<1>9. last = 4
  <2>1. IsLast(4)
    BY <1>7
  <2> HIDE DEF stop, IsLast
  <2> QED
    BY <1>7, <2>1
<1> HIDE DEF stop, last
<1> QED
  BY <1>6, <1>7, <1>8, <1>9

\* The words of a line
IsLine(s) == Len(s) \in Nat /\ DOMAIN s = 1..Len(s)

LEMMA LinesAre ==
  /\ \A s \in Line : IsLine(s)
  /\ \A d \in Stated : Text(d) \in Line
<1>1. ASSUME NEW d \in Stated
      PROVE  IsLine(Text(d))
  <2>1. IsText(Text(d), d) /\ Taken(d, Params(d)) \in Nat
    BY TextIs, ArgsTextIs, LenProperties
  <2> QED
    BY <2>1 DEF IsText, IsLine
<1>2. ASSUME NEW s \in OtherLine
      PROVE  IsLine(s)
  BY LineAssumption, LenProperties DEF IsLine
<1> QED
  BY <1>1, <1>2 DEF Line

\* Where the loop looks there is no space: a mark or a type, or the end
Holds(s, d, i) ==
  /\ Place(d, i) \in 1..Len(s) /\ At(s, Place(d, i)) # Space
  /\ EatSpaces(s, Place(d, i)) = Place(d, i)
  /\ i \in 1..Params(d) <=> At(s, Place(d, i)) # Close
  /\ i \in 1..Params(d) => (IsMarked(d, i) <=> At(s, Place(d, i)) = Plus)

LEMMA HoldsIs ==
  ASSUME NEW d \in Stated, NEW s, IsText(s, d), NEW i \in 1..(Params(d) + 1)
  PROVE  Holds(s, d, i)
<1>1. /\ Params(d) \in Nat /\ Len(s) \in Nat /\ Taken(d, Params(d)) \in Nat
      /\ \A j \in 1..Params(d) : d.arg_types[j] \in Type
      /\ Len(s) = Taken(d, Params(d)) + 5 /\ s[Len(s)] = Close
  <2>1. Params(d) \in Nat /\ \A j \in 1..Params(d) : d.arg_types[j] \in Type
    BY StatedIs
  <2>2. Len(s) = Taken(d, Params(d)) + 5 /\ s[Len(s)] = Close
    BY DEF IsText
  <2>3. Taken(d, Params(d)) \in Nat
    BY <2>1, TakenNat
  <2> QED
    BY <2>1, <2>2, <2>3
<1>2. /\ Place(d, i) \in 1..Len(s) /\ At(s, Place(d, i)) # Space
      /\ i \in 1..Params(d) <=> At(s, Place(d, i)) # Close
      /\ i \in 1..Params(d) => (IsMarked(d, i) <=> At(s, Place(d, i)) = Plus)
  <2>1. CASE i = Params(d) + 1
    <3>1. i \notin 1..Params(d) /\ ~(i <= Params(d)) /\ i - 1 = Params(d)
      BY <1>1, <2>1
    <3>2. Place(d, i) = Len(s)
      BY <1>1, <3>1 DEF Place
    <3>3. Len(s) \in 1..Len(s)
      BY <1>1
    <3> QED
      BY <1>1, <3>1, <3>2, <3>3, TokensDiffer DEF At
  <2>2. CASE i # Params(d) + 1
    <3>1. i \in 1..Params(d)
      BY <1>1, <2>2
    <3>2. ArgAt(s, d, i) /\ d.arg_types[i] \in Type
      BY <1>1, <3>1, ArgAtIs
    <3>3. CASE IsMarked(d, i)
      BY <3>1, <3>2, <3>3, TokensDiffer DEF ArgAt
    <3>4. CASE ~IsMarked(d, i)
      <4>1. Mark(d, i) = 0
        BY <3>4 DEF Mark
      <4>2. Place(d, i) = TypePlace(d, i)
        <5>1. Place(d, i) = TypePlace(d, i) - 0
          BY <3>2, <4>1 DEF ArgAt
        <5>2. TypePlace(d, i) \in Nat
          BY <1>1, <3>1, TakenNat DEF TypePlace
        <5> QED
          BY <5>1, <5>2
      <4> QED
        BY <3>1, <3>2, <3>4, <4>2, TokensDiffer DEF ArgAt
    <3> QED
      BY <3>3, <3>4
  <2> QED
    BY <2>1, <2>2
<1>3. EatSpaces(s, Place(d, i)) = Place(d, i)
  <2>1. Place(d, i) \in 1..(Len(s) + 1)
    BY <1>1, <1>2
  <2> QED
    BY <1>1, <1>2, <2>1, NoSpace
<1> QED
  BY <1>2, <1>3 DEF Holds

\* What an iteration of the loop finds
Finds(s, d, i) ==
  /\ TypeAt(s, TypePlace(d, i)) = d.arg_types[i] /\ d.arg_types[i] # "unknown"
  /\ EatSpaces(s, TypePlace(d, i) + 1) = TypePlace(d, i) + 1
  /\ i < Params(d) =>
       /\ At(s, TypePlace(d, i) + 1) = Comma
       /\ EatSpaces(s, TypePlace(d, i) + 2) = Place(d, i + 1)
  /\ i = Params(d) =>
       /\ At(s, TypePlace(d, i) + 1) = Close
       /\ EatSpaces(s, TypePlace(d, i) + 1) = Place(d, i + 1)

LEMMA FindsIs ==
  ASSUME NEW d \in Stated, NEW s, IsText(s, d), NEW i \in 1..Params(d)
  PROVE  Finds(s, d, i)
<1> DEFINE p == TypePlace(d, i)
<1>1. /\ ArgAt(s, d, i) /\ Holds(s, d, i + 1) /\ Params(d) \in Nat
      /\ d.arg_types[i] \in Type /\ Len(s) \in Nat /\ p \in Nat
  <2>1. Params(d) \in Nat /\ d.arg_types[i] \in Type
    BY StatedIs
  <2>2. i + 1 \in 1..(Params(d) + 1)
    BY <2>1
  <2>3. Len(s) \in Nat /\ p \in Nat
    <3>1. Taken(d, Params(d)) \in Nat
      BY ArgsTextIs, LenProperties
    <3>2. Len(s) = Taken(d, Params(d)) + 5
      BY DEF IsText
    <3>3. Taken(d, i) \in Nat
      BY <2>1, StatedIs DEF Taken
    <3> QED
      BY <3>1, <3>2, <3>3 DEF TypePlace
  <2> QED
    BY <2>1, <2>2, <2>3, ArgAtIs, HoldsIs
<1> HIDE DEF p
<1>2. /\ p + 1 \in 1..Len(s) /\ At(s, p) = d.arg_types[i]
      /\ i < Params(d) => /\ At(s, p + 1) = Comma /\ At(s, p + 2) = Space
                          /\ p + 2 \in 1..Len(s) /\ Place(d, i + 1) = p + 3
      /\ i = Params(d) => At(s, p + 1) = Close /\ Place(d, i + 1) = p + 1
  BY <1>1 DEF ArgAt, p
<1>3. i < Params(d) \/ i = Params(d)
  BY <1>1
<1>4. At(s, p + 1) \in {Comma, Close}
  BY <1>2, <1>3
<1>5. TypeAt(s, p) = d.arg_types[i] /\ d.arg_types[i] # "unknown"
  BY <1>1, <1>2, <1>4, TokensDiffer DEF TypeAt
<1>6. EatSpaces(s, p + 1) = p + 1
  <2>1. At(s, p + 1) # Space
    BY <1>4, TokensDiffer
  <2>2. p + 1 \in 1..(Len(s) + 1)
    BY <1>1, <1>2
  <2> QED
    BY <1>1, <2>1, <2>2, NoSpace
<1>7. ASSUME i < Params(d)
      PROVE  EatSpaces(s, p + 2) = Place(d, i + 1)
  <2>1. p + 2 + 1 = p + 3
    BY <1>1
  <2>2. At(s, p + 2 + 1) # Space
    BY <1>1, <1>2, <1>7, <2>1 DEF Holds
  <2>3. EatSpaces(s, p + 2) = p + 2 + 1
    BY <1>1, <1>2, <1>7, <2>2, OneSpace
  <2> QED
    BY <1>2, <1>7, <2>1, <2>3
<1> QED
  BY <1>2, <1>5, <1>6, <1>7 DEF Finds, p

\* How process_line begins
Ret(s) == Str2Type(s, EatSpaces(s, 1))
NameFrom(s) == EatSpaces(s, Ret(s).next)
Sig(s) == StartOfArgSig(s, NameFrom(s))
NameOf(s) == SubSeq(s, NameFrom(s), Sig(s) - 1)

LEMMA Slice ==
  ASSUME NEW s, NEW a \in Int, NEW b \in Int
  PROVE  /\ Len(SubSeq(s, a, b)) = IF a <= b THEN b - a + 1 ELSE 0
         /\ a = b => SubSeq(s, a, b) = <<s[a]>>
<1> DEFINE S == {s[i] : i \in a..b}
<1>1. \A i \in a..b : s[i] \in S
  OBVIOUS
<1> HIDE DEF S
<1>2. /\ SubSeq(s, a, b) \in Seq(S)
      /\ Len(SubSeq(s, a, b)) = IF a <= b THEN b - a + 1 ELSE 0
      /\ \A i \in 1..(b - a + 1) : SubSeq(s, a, b)[i] = s[a + i - 1]
  BY <1>1, SubSeqProperties
<1>3. ASSUME a = b
      PROVE  SubSeq(s, a, b) = <<s[a]>>
  <2> DEFINE part == SubSeq(s, a, b)
  <2>1. part \in Seq(S) /\ Len(part) = 1 /\ part[1] = s[a]
    <3>1. 1 \in 1..(b - a + 1) /\ a + 1 - 1 = a /\ b - a + 1 = 1 /\ a <= b
      BY <1>3
    <3> HIDE DEF part
    <3>2. part \in Seq(S) /\ Len(part) = 1 /\ part[1] = s[a + 1 - 1]
      BY <1>2, <3>1 DEF part
    <3> QED
      BY <3>1, <3>2
  <2>2. a \in a..b
    BY <1>3
  <2>3. <<s[a]>> \in Seq(S) /\ Len(<<s[a]>>) = 1 /\ <<s[a]>>[1] = s[a]
    BY <1>1, <2>2
  <2> HIDE DEF part
  <2>4. \A i \in 1..1 : part[i] = <<s[a]>>[i]
    BY <2>1, <2>3
  <2>5. part = <<s[a]>>
    BY <2>1, <2>3, <2>4, SeqEqual
  <2> QED
    BY <2>5 DEF part
<1> QED
  BY <1>2, <1>3

LEMMA TextBegins ==
  ASSUME NEW d \in Stated, NEW s, IsText(s, d)
  PROVE  /\ Ret(s).pt = d.return_type /\ Ret(s).pt # "unknown"
         /\ Sig(s) = 4 /\ NameOf(s) = d.name
<1>1. /\ d.return_type \in Type /\ d.name = <<Word(d)>> /\ Word(d) # Space
      /\ Len(s) \in Nat /\ Len(s) >= 5
      /\ At(s, 1) = d.return_type /\ At(s, 2) = Space /\ At(s, 3) = Word(d) /\ s[3] = Word(d)
  <2>1. Taken(d, Params(d)) \in Nat
    BY ArgsTextIs, LenProperties
  <2>2. Len(s) = Taken(d, Params(d)) + 5
    BY DEF IsText
  <2>3. 1 \in 1..Len(s) /\ 2 \in 1..Len(s) /\ 3 \in 1..Len(s) /\ Len(s) \in Nat /\ Len(s) >= 5
    BY <2>1, <2>2
  <2> QED
    BY <2>3, StatedIs DEF IsText, At
<1>2. EatSpaces(s, 1) = 1
  <2>1. 1 \in 1..(Len(s) + 1) /\ At(s, 1) # Space
    BY <1>1, TokensDiffer
  <2> QED
    BY <1>1, <2>1, NoSpace
<1>3. TypeAt(s, 1) = d.return_type /\ d.return_type # "unknown"
  BY <1>1, TokensDiffer DEF TypeAt
<1>4. Ret(s).pt = d.return_type /\ Ret(s).next = 2
  BY <1>2, <1>3 DEF Ret, Str2Type
<1>5. NameFrom(s) = 3
  <2>1. 2 \in 1..Len(s) /\ At(s, 2 + 1) # Space
    BY <1>1
  <2>2. EatSpaces(s, 2) = 2 + 1
    BY <1>1, <2>1, OneSpace
  <2> QED
    BY <1>4, <2>2 DEF NameFrom
<1>6. Sig(s) = 4
  BY <1>5, StartOfText DEF Sig
<1>7. NameOf(s) = <<s[3]>>
  <2>1. NameOf(s) = SubSeq(s, 3, 4 - 1)
    BY <1>5, <1>6 DEF NameOf
  <2>2. 4 - 1 = 3
    OBVIOUS
  <2> QED
    BY <2>1, <2>2, Slice
<1> QED
  BY <1>1, <1>3, <1>4, <1>6, <1>7

LEMMA LineBegins ==
  ASSUME NEW s, IsLine(s), Sig(s) # 0
  PROVE  /\ Sig(s) \in 1..Len(s)
         /\ \A w : NameOf(s) = <<w>> => \E i \in DOMAIN s : s[i] = w
<1>1. Len(s) \in Nat /\ DOMAIN s = 1..Len(s)
  BY DEF IsLine
<1> DEFINE p == EatSpaces(s, 1)
           e == NameFrom(s)
<1>2. p \in 1..(Len(s) + 1)
  <2>1. 1 \in 1..(Len(s) + 1)
    BY <1>1
  <2> QED
    BY <1>1, <2>1, EatSpacesIs
<1>3. Ret(s).next \in 1..(Len(s) + 1)
  <2>1. CASE TypeAt(s, p) = "unknown"
    BY <1>2, <2>1 DEF Ret, Str2Type
  <2>2. CASE TypeAt(s, p) # "unknown"
    <3>1. At(s, p) \in Type
      BY <2>2 DEF TypeAt
    <3>2. p \in 1..Len(s)
      BY <3>1, TokensDiffer DEF At
    <3>3. Ret(s).next = p + 1
      BY <2>2 DEF Ret, Str2Type
    <3> HIDE DEF p
    <3> QED
      BY <1>1, <3>2, <3>3
  <2> QED
    BY <2>1, <2>2
<1>4. e \in 1..(Len(s) + 1)
  <2>1. e \in Ret(s).next..(Len(s) + 1)
    BY <1>1, <1>3, EatSpacesIs DEF NameFrom
  <2> HIDE DEF e
  <2> QED
    BY <1>1, <1>3, <2>1
<1>5. Sig(s) \in e..Len(s)
  <2>1. e \in Nat
    BY <1>4
  <2> HIDE DEF e
  <2>2. Sig(s) = StartOfArgSig(s, e)
    BY DEF Sig, e
  <2> QED
    BY <1>1, <2>1, <2>2, StartIs
<1> HIDE DEF e
<1>6. ASSUME NEW w, NameOf(s) = <<w>>
      PROVE  \E i \in DOMAIN s : s[i] = w
  <2> DEFINE g == Sig(s) - 1
  <2>1. NameOf(s) = SubSeq(s, e, g) /\ e \in Int /\ g \in Int
    BY <1>4, <1>5 DEF NameOf, e
  <2>2. Len(<<w>>) = 1 /\ <<w>>[1] = w
    OBVIOUS
  <2> HIDE DEF g
  <2>3. Len(SubSeq(s, e, g)) = 1
    BY <1>6, <2>1, <2>2
  <2>4. e = g
    BY <2>1, <2>3, Slice
  <2>5. <<s[e]>> = <<w>> /\ <<s[e]>>[1] = s[e]
    BY <1>6, <2>1, <2>4, Slice
  <2>6. e \in 1..Len(s)
    BY <1>1, <1>4, <1>5
  <2> QED
    BY <1>1, <2>2, <2>5, <2>6
<1> QED
  BY <1>1, <1>4, <1>5, <1>6

----
(* The lines that are read.                                                *)

\* d with its first m arguments
UpToArg(d, m) ==
  [return_type |-> d.return_type, name |-> d.name,
   arg_types |-> [i \in 1..m |-> d.arg_types[i]],
   params_right |-> IF m <= Params(d) - d.params_right THEN 0
                    ELSE m - (Params(d) - d.params_right)]

\* f is what has been read of d, whose text is s, when the loop is at p
Partly(f, d, s, p) ==
  \E m \in 0..Params(d) : f = UpToArg(d, m) /\ EatSpaces(s, p) = Place(d, m + 1)

LEMMA UpToArgIs ==
  ASSUME NEW d \in Stated, NEW m \in 0..Params(d)
  PROVE  /\ num_params(UpToArg(d, m)) = m
         /\ m = Params(d) => UpToArg(d, m) = d
<1>1. /\ Params(d) \in Nat /\ d.params_right \in 0..Params(d)
      /\ d.arg_types = [i \in 1..Params(d) |-> d.arg_types[i]]
      /\ \A i \in 1..Params(d) : d.arg_types[i] \in Type
      /\ d = [return_type |-> d.return_type, name |-> d.name,
              arg_types |-> d.arg_types, params_right |-> d.params_right]
  BY StatedIs
<1>2. num_params(UpToArg(d, m)) = m
  <2> DEFINE list == [i \in 1..m |-> d.arg_types[i]]
  <2>1. IsList(list, m) /\ \A i \in 1..m : list[i] \in Type
    BY <1>1 DEF IsList
  <2>2. UpToArg(d, m).arg_types = list
    BY DEF UpToArg
  <2>3. m \in Nat
    BY <1>1
  <2> HIDE DEF list
  <2>4. Len(list) = m
    BY <2>1, <2>3, ListIsSeq
  <2> QED
    BY <2>2, <2>4 DEF num_params
<1>3. ASSUME m = Params(d)
      PROVE  UpToArg(d, m) = d
  <2>1. d.params_right = IF m <= Params(d) - d.params_right THEN 0
                         ELSE m - (Params(d) - d.params_right)
    BY <1>1, <1>3
  <2> QED
    BY <1>1, <1>3, <2>1 DEF UpToArg
<1> QED
  BY <1>2, <1>3

\* One argument more
LEMMA NextArg ==
  ASSUME NEW d \in Stated, NEW m \in 0..(Params(d) - 1), NEW f, f = UpToArg(d, m), NEW right,
         right = f.params_right
                  + (IF IsMarked(d, m + 1) \/ f.params_right > 0 THEN 1 ELSE 0)
  PROVE  [f EXCEPT !.arg_types = Append(@, d.arg_types[m + 1]), !.params_right = right]
           = UpToArg(d, m + 1)
<1> DEFINE list == [i \in 1..m |-> d.arg_types[i]]
           more == [i \in 1..(m + 1) |-> d.arg_types[i]]
           left == Params(d) - d.params_right
<1>1. /\ Params(d) \in Nat /\ d.params_right \in 0..Params(d) /\ m \in Nat
      /\ \A i \in 1..Params(d) : d.arg_types[i] \in Type
  <2>1. /\ Params(d) \in Nat /\ d.params_right \in 0..Params(d)
        /\ \A i \in 1..Params(d) : d.arg_types[i] \in Type
    BY StatedIs
  <2>2. m \in Nat
    BY <2>1
  <2> QED
    BY <2>1, <2>2
<1>2. Append(list, d.arg_types[m + 1]) = more
  <2>1. IsList(list, m) /\ IsList(more, m + 1)
    BY DEF IsList
  <2>2. list \in Seq(Type) /\ Len(list) = m /\ more \in Seq(Type) /\ Len(more) = m + 1
    <3>1. \A i \in 1..(m + 1) : i \in 1..Params(d)
      BY <1>1
    <3>2. (\A i \in 1..m : list[i] \in Type) /\ \A i \in 1..(m + 1) : more[i] \in Type
      BY <1>1, <3>1
    <3>3. m + 1 \in Nat
      BY <1>1
    <3> HIDE DEF list, more
    <3> QED
      BY <1>1, <2>1, <3>2, <3>3, ListIsSeq
  <2>3. d.arg_types[m + 1] \in Type
    BY <1>1
  <2>4. more[m + 1] = d.arg_types[m + 1] /\ \A i \in 1..m : more[i] = list[i]
    BY <1>1
  <2> HIDE DEF list, more
  <2>5. /\ Append(list, d.arg_types[m + 1]) \in Seq(Type)
        /\ Len(Append(list, d.arg_types[m + 1])) = m + 1
        /\ \A i \in 1..m : Append(list, d.arg_types[m + 1])[i] = list[i]
        /\ Append(list, d.arg_types[m + 1])[m + 1] = d.arg_types[m + 1]
    BY <2>2, <2>3, AppendProperties
  <2>6. \A i \in 1..(m + 1) : Append(list, d.arg_types[m + 1])[i] = more[i]
    BY <1>1, <2>4, <2>5
  <2> QED
    BY <2>2, <2>5, <2>6, SeqEqual
<1>3. right = IF m + 1 <= left THEN 0 ELSE (m + 1) - left
  <2>1. f.params_right = IF m <= left THEN 0 ELSE m - left
    BY DEF UpToArg
  <2>2. IsMarked(d, m + 1) <=> m = left
    BY <1>1 DEF IsMarked
  <2> HIDE DEF left
  <2>3. left \in Int
    BY <1>1 DEF left
  <2> QED
    BY <1>1, <2>1, <2>2, <2>3
<1>4. /\ f = [return_type |-> d.return_type, name |-> d.name, arg_types |-> list,
              params_right |-> f.params_right]
      /\ f.arg_types = list
  BY DEF UpToArg
<1>5. UpToArg(d, m + 1) = [return_type |-> d.return_type, name |-> d.name,
                           arg_types |-> more, params_right |-> right]
  BY Zenon, <1>3 DEF UpToArg
<1> HIDE DEF list, more
<1>6. [f EXCEPT !.arg_types = Append(@, d.arg_types[m + 1]), !.params_right = right]
        = [f EXCEPT !.arg_types = more, !.params_right = right]
  BY <1>2, <1>4
<1>7. [f EXCEPT !.arg_types = more, !.params_right = right]
        = [return_type |-> d.return_type, name |-> d.name,
           arg_types |-> more, params_right |-> right]
  <2> DEFINE ret == d.return_type
             name == d.name
             r == f.params_right
  <2>1. f = [return_type |-> ret, name |-> name, arg_types |-> list, params_right |-> r]
    BY <1>4
  <2> HIDE DEF ret, name, r
  <2> DEFINE g == [f EXCEPT !.arg_types = more]
  <2>2. g = [return_type |-> ret, name |-> name, arg_types |-> more, params_right |-> r]
    BY <2>1
  <2> HIDE DEF g
  <2>3. [g EXCEPT !.params_right = right]
          = [return_type |-> ret, name |-> name, arg_types |-> more, params_right |-> right]
    BY <2>2
  <2> QED
    BY <2>3 DEF g, ret, name
<1> QED
  BY Zenon, <1>5, <1>6, <1>7

FileOK == file \in Seq(Line)

\* In the loop: the line is the last one read, its name stands in it, and
\* what has been read of a statement is right
Building ==
  reading = "args" =>
    /\ Len(file) > 0 /\ buf = file[Len(file)]
    /\ \A d \in Stated : fun.name = d.name => \E i \in DOMAIN buf : buf[i] = Word(d)
    /\ \A d \in Stated : buf = Text(d) => Partly(fun, d, buf, str)

\* Line k of lines states d, and none after it mentions its name
LastLine(lines, d, k) ==
  /\ Text(d) = lines[k]
  /\ \A j \in (k + 1)..Len(lines) : \A i \in DOMAIN lines[j] : lines[j][i] # Word(d)

\* What the lines that have been dealt with state last is what is found
Settled ==
  \A d \in Stated, k \in 1..Len(file) :
    LastLine(file, d, k) /\ (k < Len(file) \/ reading # "args") => Name2Func(Word(d)) = d

StatedInv == FileOK /\ Building /\ Settled

\* One line more
LEMMA LineMore ==
  ASSUME NEW s \in Line, NEW lines \in Seq(Line), NEW more, IsAppend(more, lines, s)
  PROVE  /\ more \in Seq(Line) /\ Len(lines) \in Nat /\ Len(more) = Len(lines) + 1
         /\ more[Len(more)] = s
         /\ \A d \in Stated, k \in 1..Len(lines) : LastLine(more, d, k) => LastLine(lines, d, k)
<1>1. /\ more \in Seq(Line) /\ Len(lines) \in Nat /\ Len(more) = Len(lines) + 1
      /\ more[Len(more)] = s /\ \A i \in 1..Len(lines) : more[i] = lines[i]
  BY AppendProperties, LenProperties DEF IsAppend
<1>2. ASSUME NEW d \in Stated, NEW k \in 1..Len(lines), LastLine(more, d, k)
      PROVE  LastLine(lines, d, k)
  <2>1. \A j \in (k + 1)..Len(lines) : j \in (k + 1)..Len(more) /\ j \in 1..Len(lines)
    BY <1>1
  <2> QED
    BY <1>1, <1>2, <2>1 DEF LastLine
<1> QED
  BY <1>1, <1>2

LEMMA StatedReadLine ==
  ASSUME StatedInv, ReadLine
  PROVE  StatedInv'
<1>1. PICK s \in Line :
        /\ file' = Append(file, s)
        /\ IF Ret(s).pt = "unknown" \/ Sig(s) = 0
           THEN UNCHANGED <<buf, str, fun, reading>>
           ELSE BeginLine(s, Ret(s), Sig(s))
  BY DEF ReadLine, Ret, Sig, NameFrom
<1>2. reading = "line" /\ UNCHANGED list_of_functions
  BY DEF ReadLine
<1>3. /\ file' \in Seq(Line) /\ Len(file) \in Nat /\ Len(file') = Len(file) + 1
      /\ file'[Len(file')] = s
      /\ \A d \in Stated, k \in 1..Len(file) : LastLine(file', d, k) => LastLine(file, d, k)
  BY <1>1, LineMore DEF StatedInv, FileOK, IsAppend
<1>4. ASSUME NEW d \in Stated, s = Text(d)
      PROVE  /\ reading' = "args" /\ buf' = s /\ Partly(fun', d, s, str')
  <2>1. IsText(s, d)
    BY <1>4, TextIs
  <2>2. /\ Ret(s).pt = d.return_type /\ Ret(s).pt # "unknown"
        /\ Sig(s) = 4 /\ NameOf(s) = d.name
    BY <2>1, TextBegins
  <2>3. BeginLine(s, Ret(s), Sig(s))
    BY <1>1, <2>2
  <2>4. /\ buf' = s /\ str' = 5 /\ reading' = "args"
        /\ fun' = [return_type |-> d.return_type, name |-> d.name,
                   arg_types |-> << >>, params_right |-> 0]
    <3>1. /\ buf' = s /\ str' = Sig(s) + 1 /\ reading' = "args"
          /\ fun' = [return_type |-> Ret(s).pt, name |-> NameOf(s),
                     arg_types |-> << >>, params_right |-> 0]
      BY <2>3 DEF BeginLine, NameOf, NameFrom
    <3> QED
      BY <2>2, <3>1
  <2>5. Params(d) \in Nat /\ d.params_right \in 0..Params(d)
    BY StatedIs
  <2>6. fun' = UpToArg(d, 0)
    <3>1. [i \in 1..0 |-> d.arg_types[i]] = << >>
      OBVIOUS
    <3>2. 0 <= Params(d) - d.params_right
      BY <2>5
    <3> QED
      BY <2>4, <3>1, <3>2 DEF UpToArg
  <2>7. EatSpaces(s, 5) = Place(d, 0 + 1)
    <3>1. Holds(s, d, 1)
      BY <2>1, <2>5, HoldsIs
    <3>2. Place(d, 1) = 5
      BY DEF Place, Taken
    <3> QED
      BY <3>1, <3>2 DEF Holds
  <2>8. 0 \in 0..Params(d)
    BY <2>5
  <2> QED
    BY <2>4, <2>6, <2>7, <2>8 DEF Partly
<1>5. Building'
  <2> SUFFICES ASSUME reading' = "args"
               PROVE  /\ Len(file') > 0 /\ buf' = file'[Len(file')]
                      /\ \A d \in Stated : fun'.name = d.name => \E i \in DOMAIN buf' : buf'[i] = Word(d)
                      /\ \A d \in Stated : buf' = Text(d) => Partly(fun', d, buf', str')
    BY DEF Building, Partly
  <2>1. BeginLine(s, Ret(s), Sig(s)) /\ Sig(s) # 0
    BY <1>1, <1>2
  <2>2. buf' = s /\ fun'.name = NameOf(s)
    BY <2>1 DEF BeginLine, NameOf, NameFrom
  <2>3. ASSUME NEW d \in Stated, fun'.name = d.name
        PROVE  \E i \in DOMAIN buf' : buf'[i] = Word(d)
    <3>1. NameOf(s) = <<Word(d)>>
      BY <2>2, <2>3, StatedIs
    <3> QED
      BY <2>1, <2>2, <3>1, LinesAre, LineBegins
  <2> QED
    BY <1>3, <1>4, <2>2, <2>3
<1>6. Settled'
  <2> SUFFICES ASSUME NEW d \in Stated, NEW k \in 1..Len(file'),
                      LastLine(file', d, k), k < Len(file') \/ reading' # "args"
               PROVE  Name2Func(Word(d))' = d
    BY DEF Settled, LastLine
  <2>1. k < Len(file')
    <3>1. CASE k = Len(file')
      <4>1. Text(d) = s
        BY <1>3, <3>1 DEF LastLine
      <4> QED
        BY <1>3, <1>4, <4>1
    <3> QED
      BY <1>3, <3>1
  <2>2. k \in 1..Len(file)
    BY <1>3, <2>1
  <2>3. Name2Func(Word(d)) = d
    BY <1>2, <1>3, <2>2 DEF StatedInv, Settled
  <2> QED
    BY <1>2, <2>3 DEF Name2Func, Named
<1> QED
  BY <1>3, <1>5, <1>6 DEF StatedInv, FileOK

\* An iteration of the loop on a line that states d
LEMMA StatedArg ==
  ASSUME ReadArg, NEW d \in Stated, buf = Text(d), Partly(fun, d, buf, str)
  PROVE  reading' = reading /\ Partly(fun', d, buf, str')
<1>1. PICK m \in 0..Params(d) : fun = UpToArg(d, m) /\ Here = Place(d, m + 1)
  BY DEF Partly, Here
<1> DEFINE i == m + 1
           p == TypePlace(d, i)
<1>2. Params(d) \in Nat /\ IsText(buf, d) /\ m \in Nat
  <2>1. IsText(buf, d)
    BY TextIs
  <2>2. Params(d) \in Nat
    BY StatedIs
  <2> QED
    BY <2>1, <2>2
<1>3. i \in 1..(Params(d) + 1)
  BY <1>2
<1>4. Holds(buf, d, i)
  BY <1>2, <1>3, HoldsIs
<1>5. i \in 1..Params(d)
  <2>1. At(buf, Here) # Close
    BY DEF ReadArg, ArgsEnd
  <2> QED
    BY <1>1, <1>4, <2>1 DEF Holds
<1>6. ArgAt(buf, d, i) /\ Finds(buf, d, i)
  BY <1>2, <1>5, ArgAtIs, FindsIs
<1>7. Marked <=> IsMarked(d, i)
  BY <1>1, <1>4, <1>5 DEF Holds, Marked
<1>8. (IF Marked THEN Here + 1 ELSE Here) = p
  <2>1. Here \in Nat /\ Here = p - Mark(d, i) /\ p \in Int
    <3>1. p \in Int
      BY <1>2, <1>5, StatedIs DEF TypePlace, Taken
    <3> QED
      BY <1>1, <1>6, <3>1 DEF ArgAt
  <2>2. Mark(d, i) = IF Marked THEN 1 ELSE 0
    BY <1>7 DEF Mark
  <2> HIDE DEF p
  <2> QED
    BY <2>1, <2>2
<1> DEFINE arg == Str2Type(buf, IF Marked THEN Here + 1 ELSE Here)
<1>9. arg.pt = d.arg_types[i] /\ arg.next = p + 1 /\ EatSpaces(buf, arg.next) = p + 1
  <2>1. arg = Str2Type(buf, p)
    BY <1>8
  <2> HIDE DEF arg, p
  <2>2. TypeAt(buf, p) = d.arg_types[i] /\ d.arg_types[i] # "unknown"
        /\ EatSpaces(buf, p + 1) = p + 1
    BY <1>6 DEF Finds, p
  <2> QED
    BY <2>1, <2>2 DEF Str2Type
<1>10. /\ fun' = [fun EXCEPT !.arg_types = Append(@, arg.pt), !.params_right = NewParamsRight]
       /\ CASE At(buf, p + 1) = Comma -> str' = p + 2 /\ UNCHANGED reading
            [] At(buf, p + 1) = Close -> str' = p + 1 /\ UNCHANGED reading
            [] OTHER -> SyntaxError /\ UNCHANGED str
  <2> DEFINE after == EatSpaces(buf, arg.next)
  <2>1. /\ fun' = [fun EXCEPT !.arg_types = Append(@, arg.pt), !.params_right = NewParamsRight]
        /\ CASE At(buf, after) = Comma -> str' = after + 1 /\ UNCHANGED reading
             [] At(buf, after) = Close -> str' = after /\ UNCHANGED reading
             [] OTHER -> SyntaxError /\ UNCHANGED str
    BY DEF ReadArg
  <2>2. after = p + 1
    BY <1>9
  <2>3. p + 1 + 1 = p + 2
    BY <1>2, <1>5, StatedIs DEF TypePlace, Taken
  <2> HIDE DEF after, arg, p
  <2> QED
    BY <2>1, <2>2, <2>3
<1> HIDE DEF arg
<1>11. fun' = UpToArg(d, i)
  <2> DEFINE right == NewParamsRight
  <2>1. right = fun.params_right + (IF IsMarked(d, m + 1) \/ fun.params_right > 0 THEN 1 ELSE 0)
    BY <1>7 DEF NewParamsRight
  <2>2. m \in 0..(Params(d) - 1)
    BY <1>2, <1>5
  <2>3. fun' = [fun EXCEPT !.arg_types = Append(@, d.arg_types[m + 1]), !.params_right = right]
    BY <1>9, <1>10
  <2> HIDE DEF right
  <2> QED
    BY <1>1, <2>1, <2>2, <2>3, NextArg
<1> HIDE DEF p
<1>12. reading' = reading /\ EatSpaces(buf, str') = Place(d, i + 1)
  <2>1. CASE i < Params(d)
    <3>1. At(buf, p + 1) = Comma /\ EatSpaces(buf, p + 2) = Place(d, i + 1)
      BY <1>6, <2>1 DEF Finds, p
    <3>2. str' = p + 2 /\ reading' = reading
      BY <1>10, <3>1, TokensDiffer
    <3> QED
      BY <3>1, <3>2
  <2>2. CASE i = Params(d)
    <3>1. At(buf, p + 1) = Close /\ EatSpaces(buf, p + 1) = Place(d, i + 1)
      BY <1>6, <2>2 DEF Finds, p
    <3>2. str' = p + 1 /\ reading' = reading
      BY <1>10, <3>1, TokensDiffer
    <3> QED
      BY <3>1, <3>2
  <2> QED
    BY <1>2, <1>5, <2>1, <2>2
<1>13. i \in 0..Params(d)
  BY <1>5
<1> QED
  BY <1>11, <1>12, <1>13 DEF Partly

LEMMA StatedReadArg ==
  ASSUME ConfigInv, StatedInv, ReadArg
  PROVE  StatedInv'
<1>1. UNCHANGED <<list_of_functions, file, buf>> /\ reading = "args" /\ fun'.name = fun.name
  <2>1. \E t, r : fun' = [fun EXCEPT !.arg_types = t, !.params_right = r]
    BY DEF ReadArg
  <2>2. fun = [return_type |-> fun.return_type, name |-> fun.name,
               arg_types |-> fun.arg_types, params_right |-> fun.params_right]
    BY DEF ConfigInv, IsPrototype
  <2>3. fun'.name = fun.name
    BY <2>1, <2>2
  <2> QED
    BY <2>3 DEF ReadArg
<1>2. /\ file \in Seq(Line) /\ Len(file) \in Nat /\ Len(file) > 0 /\ buf = file[Len(file)]
      /\ \A d \in Stated : fun.name = d.name => \E i \in DOMAIN buf : buf[i] = Word(d)
      /\ \A d \in Stated : buf = Text(d) => Partly(fun, d, buf, str)
  BY <1>1, LenProperties DEF StatedInv, FileOK, Building
<1>3. ASSUME NEW d \in Stated, buf = Text(d)
      PROVE  reading' = "args" /\ Partly(fun', d, buf, str')
  BY <1>1, <1>2, <1>3, StatedArg
<1>4. Building'
  <2> SUFFICES ASSUME reading' = "args"
               PROVE  /\ Len(file') > 0 /\ buf' = file'[Len(file')]
                      /\ \A d \in Stated : fun'.name = d.name => \E i \in DOMAIN buf' : buf'[i] = Word(d)
                      /\ \A d \in Stated : buf' = Text(d) => Partly(fun', d, buf', str')
    BY DEF Building, Partly
  <2> QED
    BY <1>1, <1>2, <1>3
<1>5. Settled'
  <2> SUFFICES ASSUME NEW d \in Stated, NEW k \in 1..Len(file'),
                      LastLine(file', d, k), k < Len(file') \/ reading' # "args"
               PROVE  Name2Func(Word(d))' = d
    BY DEF Settled, LastLine
  <2>1. k < Len(file)
    <3>1. CASE k = Len(file)
      <4>1. Text(d) = buf
        BY <1>1, <1>2, <3>1 DEF LastLine
      <4> QED
        BY <1>1, <1>3, <3>1, <4>1
    <3> QED
      BY <1>1, <1>2, <3>1
  <2>2. Name2Func(Word(d)) = d
    BY <1>1, <2>1 DEF StatedInv, Settled
  <2> QED
    BY <1>1, <2>2 DEF Name2Func, Named
<1> QED
  BY <1>1, <1>2, <1>4, <1>5 DEF StatedInv, FileOK

\* The least element of a set
IsFirst(S, a) == a \in S /\ \A j \in S : a <= j

LEMMA FirstPlace ==
  ASSUME NEW S \in SUBSET Nat, NEW a, IsFirst(S, a)
  PROVE  (CHOOSE i \in S : \A j \in S : i <= j) = a
<1> DEFINE c == CHOOSE i \in S : \A j \in S : i <= j
<1>1. c \in S /\ \A j \in S : c <= j
  BY DEF IsFirst
<1> HIDE DEF c
<1>2. c <= a /\ a <= c /\ c \in Nat /\ a \in Nat
  BY <1>1 DEF IsFirst
<1> QED
  BY <1>2 DEF c

\* The first of a list: what name2func finds of a longer one
Found(list, w) ==
  LET named == {i \in DOMAIN list : list[i].name = <<w>>}
  IN IF named = {} THEN NoFunction ELSE list[CHOOSE i \in named : \A j \in named : i <= j]

LEMMA FoundIn ==
  ASSUME NEW n \in Nat, NEW list, IsList(list, n), NEW f, NEW more, IsConcat(more, <<f>>, list),
         NEW w
  PROVE  /\ f.name = <<w>> => Found(more, w) = f
         /\ f.name # <<w>> => Found(more, w) = Found(list, w)
<1> DEFINE old == {i \in DOMAIN list : list[i].name = <<w>>}
           new == {i \in DOMAIN more : more[i].name = <<w>>}
<1>1. /\ DOMAIN list = 1..n /\ DOMAIN more = 1..(n + 1)
      /\ more[1] = f /\ \A i \in 1..n : more[i + 1] = list[i]
  <2>1. IsList(<<f>>, 1) /\ <<f>>[1] = f
    <3>1. <<f>> \in Seq({f}) /\ Len(<<f>>) = 1 /\ <<f>>[1] = f
      OBVIOUS
    <3> QED
      BY <3>1, SeqIsList
  <2>2. /\ IsList(more, 1 + n) /\ \A i \in 1..1 : more[i] = <<f>>[i]
        /\ \A i \in (1 + 1)..(1 + n) : more[i] = list[i - 1]
    BY <2>1, ConcatIs
  <2>3. \A i \in 1..n : i + 1 \in (1 + 1)..(1 + n) /\ (i + 1) - 1 = i
    OBVIOUS
  <2>4. DOMAIN more = 1..(n + 1)
    <3>1. 1 + n = n + 1
      OBVIOUS
    <3> QED
      BY <2>2, <3>1 DEF IsList
  <2>5. more[1] = f
    BY <2>1, <2>2
  <2>6. ASSUME NEW i \in 1..n
        PROVE  more[i + 1] = list[i]
    BY <2>2, <2>3
  <2> QED
    BY <2>4, <2>5, <2>6 DEF IsList
<1>2. old \in SUBSET Nat /\ new \in SUBSET Nat
  BY <1>1
<1>3. ASSUME f.name = <<w>>
      PROVE  Found(more, w) = f
  <2>1. IsFirst(new, 1)
    BY <1>1, <1>3 DEF IsFirst
  <2>2. new # {}
    BY <2>1 DEF IsFirst
  <2>3. (CHOOSE i \in new : \A j \in new : i <= j) = 1
    <3> HIDE DEF new
    <3> QED
      BY <1>2, <2>1, FirstPlace
  <2>4. Found(more, w) = IF new = {} THEN NoFunction
                         ELSE more[CHOOSE i \in new : \A j \in new : i <= j]
    BY DEF Found
  <2> HIDE DEF new
  <2> QED
    BY <1>1, <2>2, <2>3, <2>4
<1>4. ASSUME f.name # <<w>>
      PROVE  Found(more, w) = Found(list, w)
  <2>1. new = {i + 1 : i \in old}
    <3>1. ASSUME NEW i \in new
          PROVE  i \in {j + 1 : j \in old}
      <4>1. i # 1 /\ i \in 1..(n + 1)
        BY <1>1, <1>4
      <4>2. i - 1 \in 1..n /\ i - 1 + 1 = i
        BY <4>1
      <4>3. list[i - 1] = more[i]
        BY <1>1, <4>2
      <4>4. i - 1 \in old
        BY <1>1, <4>2, <4>3
      <4> QED
        BY <4>2, <4>4
    <3>2. ASSUME NEW i \in old
          PROVE  i + 1 \in new
      BY <1>1
    <3> QED
      BY <3>1, <3>2
  <2>2. /\ Found(more, w) = IF new = {} THEN NoFunction
                            ELSE more[CHOOSE i \in new : \A j \in new : i <= j]
        /\ Found(list, w) = IF old = {} THEN NoFunction
                            ELSE list[CHOOSE i \in old : \A j \in old : i <= j]
    BY DEF Found
  <2>3. old \subseteq 1..n
    BY <1>1
  <2> HIDE DEF new, old
  <2>4. CASE old = {}
    <3>1. new = {}
      BY <2>1, <2>4
    <3> QED
      BY <2>2, <2>4, <3>1
  <2>5. CASE old # {}
    <3>1. PICK a \in old : \A j \in old : a <= j
      BY <1>2, <2>5, Least
    <3>2. IsFirst(old, a)
      BY <3>1 DEF IsFirst
    <3>3. IsFirst(new, a + 1)
      <4>1. ASSUME NEW j \in new
            PROVE  a + 1 <= j
        <5>1. PICK i \in old : j = i + 1
          BY <2>1
        <5>2. a <= i /\ a \in Nat /\ i \in Nat
          BY <1>2, <3>1
        <5> QED
          BY <5>1, <5>2
      <4>2. a + 1 \in new
        BY <2>1
      <4> QED
        BY <4>1, <4>2 DEF IsFirst
    <3>4. /\ (CHOOSE i \in old : \A j \in old : i <= j) = a
          /\ (CHOOSE i \in new : \A j \in new : i <= j) = a + 1
      BY <1>2, <3>2, <3>3, FirstPlace
    <3>5. new # {}
      BY <3>3 DEF IsFirst
    <3>6. more[a + 1] = list[a]
      BY <1>1, <2>3
    <3> QED
      BY <2>2, <2>5, <3>4, <3>5, <3>6
  <2> QED
    BY <2>4, <2>5
<1> QED
  BY <1>3, <1>4

LEMMA StatedAdd ==
  ASSUME ConfigInv, StatedInv, AddFunction
  PROVE  StatedInv'
<1>1. /\ reading = "args" /\ ArgsEnd /\ reading' = "line"
      /\ list_of_functions' = <<fun>> \o list_of_functions /\ UNCHANGED file
  BY DEF AddFunction
<1>2. /\ file \in Seq(Line) /\ Len(file) \in Nat /\ Len(file) > 0 /\ buf = file[Len(file)]
      /\ \A d \in Stated : fun.name = d.name => \E i \in DOMAIN buf : buf[i] = Word(d)
      /\ \A d \in Stated : buf = Text(d) => Partly(fun, d, buf, str)
  BY <1>1, LenProperties DEF StatedInv, FileOK, Building
<1>3. ASSUME NEW d \in Stated
      PROVE  /\ fun.name = d.name => Name2Func(Word(d))' = fun
             /\ fun.name # d.name => Name2Func(Word(d))' = Name2Func(Word(d))
  <2>1. PICK n \in Nat : IsList(list_of_functions, n)
    BY DEF ConfigInv, IsList
  <2>2. IsConcat(list_of_functions', <<fun>>, list_of_functions)
    BY <1>1 DEF IsConcat
  <2>3. d.name = <<Word(d)>>
    BY StatedIs
  <2>4. Name2Func(Word(d)) = Found(list_of_functions, Word(d))
    BY DEF Name2Func, Named, Found
  <2>5. Name2Func(Word(d))' = Found(list_of_functions', Word(d))
    BY DEF Name2Func, Named, Found
  <2> QED
    BY <2>1, <2>2, <2>3, <2>4, <2>5, FoundIn
<1>4. ASSUME NEW d \in Stated, buf = Text(d)
      PROVE  fun = d
  <2>1. PICK m \in 0..Params(d) : fun = UpToArg(d, m) /\ Here = Place(d, m + 1)
    BY <1>2, <1>4 DEF Partly, Here
  <2>2. Params(d) \in Nat /\ Params(d) <= MaxArgs /\ MaxArgs \in Nat /\ IsText(buf, d)
    BY <1>4, StatedIs, TextIs
  <2>3. num_params(fun) = m
    BY <2>1, UpToArgIs
  <2>4. m = Params(d)
    <3>1. CASE num_params(fun) = MaxArgs
      BY <2>2, <2>3, <3>1
    <3>2. CASE At(buf, Here) = Close
      <4>1. m + 1 \in 1..(Params(d) + 1)
        BY <2>2
      <4>2. m + 1 \notin 1..Params(d)
        BY <2>1, <2>2, <3>2, <4>1, HoldsIs DEF Holds
      <4> QED
        BY <2>2, <4>2
    <3> QED
      BY <1>1, <3>1, <3>2 DEF ArgsEnd
  <2> QED
    BY <2>1, <2>4, UpToArgIs
<1>5. Settled'
  <2> SUFFICES ASSUME NEW d \in Stated, NEW k \in 1..Len(file), LastLine(file, d, k)
               PROVE  Name2Func(Word(d))' = d
    BY <1>1 DEF Settled, LastLine
  <2>1. CASE k = Len(file)
    <3>1. fun = d
      BY <1>2, <1>4, <2>1 DEF LastLine
    <3> QED
      BY <1>3, <3>1
  <2>2. CASE k < Len(file)
    <3>1. Name2Func(Word(d)) = d
      BY <2>2 DEF StatedInv, Settled
    <3>2. Len(file) \in (k + 1)..Len(file)
      BY <1>2, <2>2
    <3>3. \A i \in DOMAIN buf : buf[i] # Word(d)
      BY <1>2, <3>2 DEF LastLine
    <3>4. fun.name # d.name
      BY <1>2, <3>3
    <3> QED
      BY <1>3, <3>1, <3>4
  <2> QED
    BY <1>2, <2>1, <2>2
<1>6. Building'
  BY <1>1 DEF Building
<1> QED
  BY <1>1, <1>2, <1>5, <1>6 DEF StatedInv, FileOK

LEMMA SettledKept ==
  ASSUME Settled, UNCHANGED <<list_of_functions, file>>, reading' # "args" => reading # "args"
  PROVE  Settled'
<1> SUFFICES ASSUME NEW d \in Stated, NEW k \in 1..Len(file),
                    LastLine(file, d, k), k < Len(file) \/ reading' # "args"
             PROVE  Name2Func(Word(d))' = d
  BY DEF Settled, LastLine
<1>1. Name2Func(Word(d)) = d
  BY DEF Settled
<1> QED
  BY <1>1 DEF Name2Func, Named

LEMMA StatedStep == ConfigInv /\ StatedInv /\ [ConfigNext]_configVars => StatedInv'
<1> SUFFICES ASSUME ConfigInv, StatedInv, [ConfigNext]_configVars
             PROVE  StatedInv'
  OBVIOUS
<1>1. CASE ReadLine
  BY <1>1, StatedReadLine
<1>2. CASE ReadArg
  BY <1>2, StatedReadArg
<1>3. CASE AddFunction
  BY <1>3, StatedAdd
<1>4. CASE CloseConfig
  <2>1. /\ reading = "line" /\ reading' = "closed"
        /\ UNCHANGED <<list_of_functions, file, buf, str, fun>>
    BY <1>4 DEF CloseConfig
  <2>2. Settled'
    BY <2>1, SettledKept DEF StatedInv
  <2>3. FileOK' /\ Building'
    BY <2>1 DEF StatedInv, FileOK, Building
  <2> QED
    BY <2>2, <2>3 DEF StatedInv
<1>5. CASE UNCHANGED configVars
  <2>1. UNCHANGED <<list_of_functions, file, buf, str, fun, reading>>
    BY <1>5 DEF configVars
  <2>2. Settled'
    BY <2>1, SettledKept DEF StatedInv
  <2>3. FileOK' /\ Building'
    BY <2>1 DEF StatedInv, FileOK, Building, Partly
  <2> QED
    BY <2>2, <2>3 DEF StatedInv
<1> QED
  BY <1>1, <1>2, <1>3, <1>4, <1>5 DEF ConfigNext

LEMMA StatedInitially == ConfigInit => StatedInv
<1> SUFFICES ASSUME ConfigInit
             PROVE  StatedInv
  OBVIOUS
<1>1. file = << >> /\ reading = "line"
  BY DEF ConfigInit
<1>2. file \in Seq(Line) /\ Len(file) = 0
  BY <1>1, EmptySeq
<1> QED
  BY <1>1, <1>2 DEF StatedInv, FileOK, Building, Settled

----
(* The texts.                                                              *)

\* An argument is shown as its type makes it, of the one text there is
ShowsText(arg) == arg.length \in Int /\ arg.what = What(arg.at, arg.length)

TextsInv ==
  /\ opt_s \in 0..Unlimited
  /\ Len(pieces) \in Nat /\ pieces \in [1..Len(pieces) -> Pieces]
  /\ \A c \in DOMAIN shown : \A i \in DOMAIN shown[c].args : ShowsText(shown[c].args[i])

\* The characters and the values of the pieces, one after the other
Chars == [k \in 1..Len(pieces) |-> pieces[k].chars]
Values == [k \in 1..Len(pieces) |-> pieces[k].values]

\* The text is the characters of its pieces one after the other.
LEMMA TheTextIs ==
  ASSUME TextsInv
  PROVE  /\ theText \in Seq(STRING)
         /\ \E after \in [0..Len(pieces) -> Nat] :
              /\ IsAfter(Len(pieces), Chars, after) /\ Len(theText) = after[Len(pieces)]
              /\ Has(Chars, after, theText, Len(pieces))
<1> DEFINE n == Len(pieces)
           Up(f) == f = [k \in 0..n |-> IF k = 0 THEN << >> ELSE f[k - 1] \o pieces[k].chars]
           upTo == CHOOSE f : Up(f)
<1>1. theText = upTo[n]
  BY DEF theText, Joined
<1>2. /\ n \in Nat /\ \A k \in 1..n : Chars[k] = pieces[k].chars
      /\ \A k \in 1..n : Chars[k] \in Seq(STRING)
  BY ReportAssumption DEF TextsInv, Chars
<1> HIDE DEF n
<1>3. \E f : Up(f)
  <2>1. PICK f : f = [k \in 0..n |-> IF k = 0 THEN << >> ELSE f[k - 1] \o Chars[k]]
    <3>1. \A k \in 1..n : Chars[k] \in Seq(STRING)
      BY <1>2
    <3>2. n \in Nat
      BY <1>2
    <3>3. ArePieced(n, Chars)
      BY <3>1, <3>2, PiecedExists
    <3> QED
      BY <3>3 DEF ArePieced
  <2>2. \A k \in 0..n : k # 0 => Chars[k] = pieces[k].chars
    BY <1>2
  <2>3. Up(f)
    BY <2>1, <2>2
  <2> QED
    BY <2>3
<1>4. Up(upTo)
  <2> HIDE DEF Up
  <2> QED
    BY <1>3
<1>5. \A k \in 0..n : upTo[k] = IF k = 0 THEN << >> ELSE upTo[k - 1] \o pieces[k].chars
  <2> HIDE DEF upTo
  <2> QED
    BY <1>4
<1> HIDE DEF upTo
<1>6. Pieced(n, Chars, upTo)
  <2>1. \A k \in 1..n : k \in 0..n /\ k # 0
    OBVIOUS
  <2>2. upTo[0] = << >>
    BY <1>2, <1>5
  <2> QED
    BY <1>2, <1>5, <2>1, <2>2 DEF Pieced
<1>7. PICK after \in [0..n -> Nat] : IsAfter(n, Chars, after)
  BY <1>2, AfterExists
<1>8. upTo[n] \in Seq(STRING) /\ Len(upTo[n]) = after[n] /\ Has(Chars, after, upTo[n], n)
  BY <1>2, <1>6, <1>7, PiecedIs
<1> QED
  BY <1>1, <1>7, <1>8 DEF n

\* A half is shown as the text is.
LEMMA HalfTexts ==
  ASSUME NEW f, NEW args, NEW sp, NEW n \in Int
  PROVE  \A i \in DOMAIN Half(f, args, sp, n) : ShowsText(Half(f, args, sp, n)[i])
<1>1. CASE args = {}
  BY <1>1 DEF Half
<1>2. CASE args # {}
  <2> DEFINE least == CHOOSE k \in args : \A j \in args : k <= j
             at(k) == IF Known(f) THEN f.arg_types[k + 1] ELSE "unknown"
             arg(i) == [arg |-> least + i - 1, at |-> at(least + i - 1), from |-> sp,
                        length |-> n, what |-> What(at(least + i - 1), n)]
  <2>1. Half(f, args, sp, n) = [i \in 1..Cardinality(args) |-> arg(i)]
    BY <1>2, Zenon DEF Half
  <2> HIDE DEF least, at
  <2>2. ASSUME NEW i
        PROVE  ShowsText(arg(i))
    BY DEF ShowsText
  <2> HIDE DEF arg
  <2> QED
    BY <2>1, <2>2
<1> QED
  BY <1>1, <1>2

LEMMA BothTexts ==
  ASSUME NEW m \in Nat, NEW s, NEW n \in Nat, NEW t, IsList(s, m), IsList(t, n),
         NEW st, IsConcat(st, s, t),
         \A i \in DOMAIN s : ShowsText(s[i]), \A i \in DOMAIN t : ShowsText(t[i])
  PROVE  \A i \in DOMAIN st : ShowsText(st[i])
<1>1. /\ IsList(st, m + n)
      /\ \A i \in 1..m : st[i] = s[i]
      /\ \A i \in (m + 1)..(m + n) : st[i] = t[i - m]
  BY ConcatIs
<1>2. ASSUME NEW i \in DOMAIN st
      PROVE  i \in 1..m \/ (i \in (m + 1)..(m + n) /\ i - m \in 1..n)
  <2>1. i \in 1..(m + n)
    BY <1>1, <1>2 DEF IsList
  <2> QED
    BY <2>1
<1>3. \A i \in 1..m : ShowsText(s[i])
  BY DEF IsList
<1>4. \A i \in 1..n : ShowsText(t[i])
  BY DEF IsList
<1> QED
  BY <1>1, <1>2, <1>3, <1>4

LEMMA LengthIs ==
  ASSUME NEW f, NEW args, NEW n \in LengthsOf(f, args)
  PROVE  n \in Int
BY ReportAssumption DEF LengthsOf, Unlimited

\* As long as the text and -s are the same, so is what is shown of them.
LEMMA TextPrimed ==
  ASSUME UNCHANGED <<pieces, null, opt_s>>, NEW arg
  PROVE  ShowsText(arg)' = ShowsText(arg)
BY DEF ShowsText, What, Displayed, theText, Joined

LEMMA TextsKept ==
  ASSUME TextsInv, UNCHANGED <<pieces, null, opt_s, shown>>
  PROVE  TextsInv'
<1>1. \A arg : ShowsText(arg)' = ShowsText(arg)
  BY TextPrimed
<1> QED
  BY <1>1 DEF TextsInv

LEMMA TextsStep ==
  TimesInv /\ ShownInv /\ TextsInv /\ [Next]_vars => TextsInv'
<1> SUFFICES ASSUME TimesInv, ShownInv, TextsInv, [Next]_vars
             PROVE  TextsInv'
  OBVIOUS
<1>1. CASE UNCHANGED <<pieces, null, opt_s, shown>>
  BY <1>1, TextsKept
<1>2. ASSUME UNCHANGED <<pieces, null, opt_s>>,
             NEW d, d \in DOMAIN shown', \A c \in DOMAIN shown' : c # d => c \in DOMAIN shown,
             \A c \in DOMAIN shown' : c # d => shown'[c] = shown[c],
             \A i \in DOMAIN shown'[d].args : ShowsText(shown'[d].args[i])
      PROVE  TextsInv'
  <2>1. \A arg : ShowsText(arg)' = ShowsText(arg)
    BY <1>2, TextPrimed
  <2>2. ASSUME NEW c \in DOMAIN shown', NEW i \in DOMAIN shown'[c].args
        PROVE  ShowsText(shown'[c].args[i])
    BY <1>2 DEF TextsInv
  <2> QED
    BY <1>2, <2>1, <2>2 DEF TextsInv
<1>3. ASSUME NEW name \in Name, Enter(name)
      PROVE  TextsInv'
  <2> DEFINE f == Name2Func(name)
             args == LeftArgs(Known(f), num_params(f), f.params_right)
  <2>1. PICK n \in LengthsOf(f, args) :
          shown'[calls + 1] =
            [func |-> f, ended |-> 0,
             args |-> IF opt_c THEN << >> ELSE Half(f, args, calls + 1, n)]
    BY <1>3, EnterIs
  <2>2. /\ DOMAIN shown' = 1..(calls + 1) /\ DOMAIN shown = 1..calls /\ calls \in Nat
        /\ \A c \in 1..calls : shown'[c] = shown[c]
    BY <1>3, EnterIs DEF ShownInv, IsList, TimesInv
  <2> HIDE DEF f, args
  <2>3. \A i \in DOMAIN shown'[calls + 1].args : ShowsText(shown'[calls + 1].args[i])
    <3>1. n \in Int
      BY LengthIs
    <3> QED
      BY <2>1, <3>1, HalfTexts
  <2>4. /\ UNCHANGED <<pieces, null, opt_s>> /\ calls + 1 \in DOMAIN shown'
        /\ \A c \in DOMAIN shown' : c # calls + 1 => c \in DOMAIN shown /\ c \in 1..calls
    BY <1>3, <2>2 DEF Enter
  <2> QED
    BY <1>2, <2>2, <2>3, <2>4
<1>4. ASSUME NEW k \in DOMAIN callstack, Return(k)
      PROVE  TextsInv'
  <2> DEFINE c == callstack[k].call
             f == Name2Func(callstack[k].name)
             args == RightArgs(Known(f), num_params(f), f.params_right)
             right(n) == Half(f, args, stack_pointer, n)
  <2>1. PICK n \in LengthsOf(f, args) :
          shown'[c] = [func |-> f, ended |-> calls,
                       args |-> IF opt_c THEN shown[c].args ELSE shown[c].args \o right(n)]
    BY <1>4, ReturnIs
  <2>2. /\ DOMAIN shown' = 1..calls /\ DOMAIN shown = 1..calls
        /\ c \in 1..calls /\ \A d \in 1..calls : d # c => shown'[d] = shown[d]
    BY <1>4, ReturnIs DEF ShownInv, IsList
  <2>3. IsCall(shown[c], c) /\ shown[c].ended = 0 /\ shown[c].func = f
    BY <1>4, <2>2, ReturnIs DEF ShownInv
  <2>4. IsPrototype(f)
    <3> HIDE DEF f, c
    <3> QED
      BY <2>3 DEF IsCall
  <2>5. n \in Int
    BY LengthIs
  <2>6. IsRight(right(n), f, stack_pointer)
    BY <2>4, RightIs
  <2>7. \A j \in DOMAIN right(n) : ShowsText(right(n)[j])
    BY <2>5, HalfTexts
  <2> HIDE DEF c, f, args, right
  <2>8. ASSUME NEW i \in DOMAIN shown'[c].args
        PROVE  ShowsText(shown'[c].args[i])
    <3>1. CASE opt_c
      BY <2>1, <2>2, <2>8, <3>1 DEF TextsInv
    <3>2. CASE ~opt_c
      <4> DEFINE l == Left(f)
                 r == All(f) - Left(f)
                 left == shown[c].args
                 both == shown'[c].args
      <4>1. IsList(left, l)
        BY <2>3, <3>2 DEF IsCall, ArgsShown
      <4>2. l \in Nat /\ r \in Nat /\ IsList(right(n), r)
        <5>1. Left(f) \in Nat /\ All(f) \in Nat /\ Left(f) <= All(f)
          BY <2>4, Counts
        <5> QED
          BY <2>6, <5>1 DEF IsRight
      <4>3. IsConcat(both, left, right(n))
        BY <2>1, <3>2 DEF IsConcat
      <4>4. \A j \in DOMAIN left : ShowsText(left[j])
        BY <2>2 DEF TextsInv
      <4> HIDE DEF l, r, left, both
      <4>5. \A j \in DOMAIN both : ShowsText(both[j])
        BY <2>7, <4>1, <4>2, <4>3, <4>4, BothTexts
      <4> QED
        BY <2>8, <4>5 DEF both
    <3> QED
      BY <3>1, <3>2
  <2>9. /\ UNCHANGED <<pieces, null, opt_s>> /\ c \in DOMAIN shown'
        /\ \A d \in DOMAIN shown' : d # c => d \in DOMAIN shown /\ d \in 1..calls
    BY <1>4, <2>2 DEF Return
  <2> QED
    BY <1>2, <2>2, <2>8, <2>9
<1> QED
  BY <1>1, <1>3, <1>4 DEF Next, ReadConfig, Finish, vars, reportVars

LEMMA TextsInitially == Init => TextsInv
<1> SUFFICES ASSUME Init
             PROVE  TextsInv
  OBVIOUS
<1>1. opt_s \in 0..Unlimited /\ shown = << >>
  BY ReportAssumption DEF Init
<1>2. PICK n \in 0..MaxPieces : pieces \in [1..n -> Pieces]
  BY DEF Init
<1>3. n \in Nat
  BY ReportAssumption
<1>4. Len(pieces) = n
  <2>1. pieces \in Seq(Pieces) /\ DOMAIN pieces = 1..n
    BY <1>2, <1>3, SeqDef
  <2> QED
    BY <1>3, <2>1, LenProperties
<1> QED
  BY <1>1, <1>2, <1>3, <1>4 DEF TextsInv

\* The beginning of a beginning
LEMMA BeginningOf ==
  ASSUME NEW S, NEW text \in Seq(S), NEW n \in 0..Len(text), NEW i \in 0..n
  PROVE  /\ SubSeq(text, 1, n) \in Seq(S) /\ Len(SubSeq(text, 1, n)) = n
         /\ SubSeq(SubSeq(text, 1, n), 1, i) = SubSeq(text, 1, i)
         /\ Len(SubSeq(text, 1, i)) = i
<1>1. Len(text) \in Nat
  BY LenProperties
<1>2. ASSUME NEW t \in Seq(S), NEW j \in 0..Len(t)
      PROVE  /\ SubSeq(t, 1, j) = [k \in 1..j |-> t[k]]
             /\ SubSeq(t, 1, j) \in Seq(S) /\ Len(SubSeq(t, 1, j)) = j
  <2>1. Len(t) \in Nat
    BY LenProperties
  <2>2. 1 \in 1..(Len(t) + 1) /\ j \in 0..Len(t) /\ j - 1 + 1 = j
    BY <2>1
  <2>3. /\ SubSeq(t, 1, j) \in Seq(S) /\ Len(SubSeq(t, 1, j)) = j
        /\ \A k \in 1..j : SubSeq(t, 1, j)[k] = t[k]
    BY <2>1, <2>2, SubSeqProperties
  <2>4. SubSeq(t, 1, j) = [k \in 1..j |-> SubSeq(t, 1, j)[k]]
    BY <2>3, LenProperties
  <2> QED
    BY <2>3, <2>4
<1> DEFINE begin == SubSeq(text, 1, n)
<1>3. /\ begin \in Seq(S) /\ Len(begin) = n /\ begin = [k \in 1..n |-> text[k]]
      /\ i \in 0..Len(begin) /\ i \in 0..Len(text)
  BY <1>1, <1>2
<1>4. SubSeq(begin, 1, i) = [k \in 1..i |-> begin[k]]
  BY <1>2, <1>3
<1>5. \A k \in 1..i : begin[k] = text[k]
  BY <1>3
<1> HIDE DEF begin
<1>6. SubSeq(begin, 1, i) = [k \in 1..i |-> text[k]]
  BY <1>4, <1>5
<1>7. SubSeq(text, 1, i) = [k \in 1..i |-> text[k]] /\ Len(SubSeq(text, 1, i)) = i
  BY <1>2, <1>3
<1> QED
  BY <1>3, <1>6, <1>7 DEF begin

\* display_string shows a beginning of the text: all of it or up to the limit.
IsBeginning(d, text, s, max) ==
  LET limit == Smaller(s, max)
  IN /\ d.chars = SubSeq(text, 1, Len(d.chars))
     /\ \/ Len(d.chars) = Len(text)
        \/ Len(d.chars) = limit
        \/ limit < 0 /\ d.chars = << >>
     /\ 0 <= s /\ s <= max => (d.dots <=> Len(text) > s)

LEMMA StringIs ==
  ASSUME NEW text \in Seq(STRING), NEW s \in Int, NEW max \in Int,
         DisplayString(text, s, max).why = "text"
  PROVE  IsBeginning(DisplayString(text, s, max), text, s, max)
<1> DEFINE d == DisplayString(text, s, max)
           chars == d.chars
           limit == Smaller(s, max)
           str1 == IF limit < 0 THEN << >> ELSE Umovestr(text, limit + 1)
           i == IF limit < 0 THEN 0 ELSE Smaller(Len(str1), limit)
<1>1. Len(text) \in Nat /\ limit \in Int /\ (s <= max => limit = s)
  BY LenProperties DEF Smaller
<1>2. d = [chars |-> SubSeq(str1, 1, i), dots |-> i < Len(str1) /\ s <= max, why |-> "text"]
  <2>1. NotShown.why # "text"
    BY DEF NotShown
  <2>2. d.why = "text" /\ (Refused(limit) => d = NotShown)
    BY DEF DisplayString, Limit
  <2>3. ~Refused(limit) =>
          d = [chars |-> SubSeq(str1, 1, i), dots |-> i < Len(str1) /\ s <= max, why |-> "text"]
    BY Zenon DEF DisplayString, Limit
  <2> HIDE DEF d, limit, str1, i
  <2>4. ~Refused(limit)
    BY <2>1, <2>2
  <2> QED
    BY <2>3, <2>4
<1>3. d.chars = SubSeq(str1, 1, i) /\ d.dots = (i < Len(str1) /\ s <= max)
  <2> HIDE DEF d, limit, str1, i
  <2> QED
    BY <1>2
<1> SUFFICES /\ chars = SubSeq(text, 1, Len(chars))
             /\ \/ Len(chars) = Len(text)
                \/ Len(chars) = limit
                \/ limit < 0 /\ chars = << >>
             /\ 0 <= s /\ s <= max => (d.dots <=> Len(text) > s)
  BY DEF IsBeginning
<1> HIDE DEF d, limit
<1>4. CASE limit < 0
  <2>1. chars = << >>
    BY <1>3, <1>4
  <2>2. ~(0 <= s /\ s <= max)
    BY <1>1, <1>4
  <2>3. SubSeq(text, 1, 0) = << >> /\ Len(<< >>) = 0
    OBVIOUS
  <2> QED
    BY <1>4, <2>1, <2>2, <2>3
<1>5. CASE ~(limit < 0)
  <2> DEFINE n == Smaller(Len(text), limit + 1)
             m == Smaller(n, limit)
  <2>1. n \in 0..Len(text) /\ m \in 0..n
    BY <1>1, <1>5 DEF Smaller
  <2>2. str1 = SubSeq(text, 1, n) /\ i = Smaller(Len(str1), limit)
    BY <1>5 DEF Umovestr
  <2>3. m = Len(text) \/ m = limit
    BY <1>1, <1>5 DEF Smaller
  <2>4. m < n <=> Len(text) > limit
    BY <1>1, <1>5 DEF Smaller
  <2> HIDE DEF n
  <2>5. Len(str1) = n /\ i = m
    BY <2>1, <2>2, BeginningOf
  <2> HIDE DEF m, str1, i
  <2>6. chars = SubSeq(text, 1, m) /\ Len(chars) = m
    BY <1>3, <2>1, <2>2, <2>5, BeginningOf
  <2>7. d.dots = (m < n /\ s <= max)
    BY <1>3, <2>5
  <2> HIDE DEF chars
  <2> QED
    BY <1>1, <2>3, <2>4, <2>6, <2>7
<1> QED
  BY <1>4, <1>5

----
(* What display_format shows after the text.                               *)

\* What next[k] makes of a function depends on its values below k only
LooksBelow(n, V, next) ==
  \A k \in 0..n : \A g, h \in [0..n -> V] :
    (\A j \in 0..n : j < k => g[j] = h[j]) => next[k][g] = next[k][h]

IsNext(n, V, next) == next \in [0..n -> [[0..n -> V] -> V]]
HasCourse(n, V, next) == \E f \in [0..n -> V] : \A k \in 0..n : f[k] = next[k][f]

LEMMA CourseExists ==
  ASSUME NEW n \in Nat, NEW V, V # {}, NEW next, IsNext(n, V, next), LooksBelow(n, V, next)
  PROVE  HasCourse(n, V, next)
<1> DEFINE W == [0..n -> V]
           Upto(f, k) == \A j \in 0..n : j < k => f[j] = next[j][f]
           Good(k) == \E f \in W : Upto(f, k)
           Bad == {k \in 0..(n + 1) : ~Good(k)}
<1>1. Good(0)
  <2>1. PICK x \in V : TRUE
    OBVIOUS
  <2>2. [j \in 0..n |-> x] \in W
    OBVIOUS
  <2>3. \A j \in 0..n : ~(j < 0)
    OBVIOUS
  <2> QED
    BY <2>2, <2>3
<1>2. ASSUME NEW k \in 0..n, Good(k)
      PROVE  Good(k + 1)
  <2>1. PICK f \in W : Upto(f, k)
    BY <1>2
  <2>2. next[k][f] \in V
    BY <2>1 DEF IsNext
  <2> DEFINE g == [j \in 0..n |-> IF j = k THEN next[k][f] ELSE f[j]]
  <2>3. g \in W /\ g[k] = next[k][f] /\ \A j \in 0..n : j < k => g[j] = f[j]
    BY <2>1, <2>2
  <2> HIDE DEF g
  <2>4. ASSUME NEW j \in 0..n, j < k + 1
        PROVE  g[j] = next[j][g]
    <3>1. \A i \in 0..n : i < j => f[i] = g[i]
      BY <2>3, <2>4
    <3>2. next[j][f] = next[j][g]
      BY <2>1, <2>3, <3>1 DEF LooksBelow
    <3>3. CASE j = k
      BY <2>3, <3>2, <3>3
    <3>4. CASE j # k
      <4>1. j < k
        BY <2>4, <3>4
      <4> QED
        BY <2>1, <2>3, <3>2, <4>1
    <3> QED
      BY <3>3, <3>4
  <2> QED
    BY <2>3, <2>4
<1> HIDE DEF Good
<1>3. Bad = {}
  <2> SUFFICES ASSUME Bad # {}
               PROVE  FALSE
    OBVIOUS
  <2>1. Bad \in SUBSET Nat
    OBVIOUS
  <2>2. PICK k \in Bad : \A j \in Bad : k <= j
    BY <2>1, Least
  <2>3. k - 1 \in 0..n /\ k - 1 \in 0..(n + 1) /\ (k - 1) + 1 = k /\ ~(k <= k - 1)
    BY <1>1, <2>2
  <2>4. Good(k - 1)
    BY <2>2, <2>3
  <2> QED
    BY <1>2, <2>2, <2>3, <2>4
<1>4. Good(n + 1)
  <2>1. n + 1 \in 0..(n + 1)
    OBVIOUS
  <2> QED
    BY <1>3, <2>1
<1>5. PICK f \in W : Upto(f, n + 1)
  BY <1>4 DEF Good
<1>6. \A k \in 0..n : k < n + 1
  OBVIOUS
<1> QED
  BY <1>5, <1>6 DEF HasCourse

\* What display_format shows for an argument, and in place of one
Value == STRING \cup EndLetter \cup {Star, Real, "beyond"}

LEMMA Characters ==
  /\ Star # Real /\ Real \notin EndLetter
  /\ Percent \in EndLetter /\ Percent \notin RealLetter /\ RealLetter \subseteq EndLetter
<1>1. Star # Real
  BY Zenon DEF Star, Real
<1>2. Real \notin EndLetter
  <2>1. /\ Real # Percent /\ Real # "s"
        /\ Real # "d" /\ Real # "i" /\ Real # "u" /\ Real # "o" /\ Real # "x" /\ Real # "X"
        /\ Real # "c" /\ Real # "e" /\ Real # "E" /\ Real # "f" /\ Real # "g"
    BY Zenon DEF Real, Percent
  <2> QED
    BY <2>1 DEF EndLetter, IntegerLetter, RealLetter
<1>3. Percent \notin RealLetter
  <2>1. Percent # "e" /\ Percent # "E" /\ Percent # "f" /\ Percent # "g"
    BY Zenon DEF Percent
  <2> QED
    BY <2>1 DEF RealLetter
<1> QED
  BY <1>1, <1>2, <1>3 DEF EndLetter

LEMMA StarsAre ==
  ASSUME NEW S, NEW chars \in Seq(S)
  PROVE  /\ StarsIn(chars) \in Seq(Value)
         /\ \A j \in DOMAIN StarsIn(chars) : StarsIn(chars)[j] = Star
<1> DEFINE R == {r \in DOMAIN chars : chars[r] = Star}
           n == Cardinality(R)
<1>1. n \in Nat
  <2>1. DOMAIN chars = 1..Len(chars) /\ Len(chars) \in Nat
    BY LenProperties
  <2>2. IsFiniteSet(1..Len(chars))
    BY <2>1, FS_Interval
  <2>3. IsFiniteSet(R)
    BY <2>1, <2>2, FS_Subset
  <2> QED
    BY <2>3, FS_CardinalityType
<1>2. StarsIn(chars) = [j \in 1..n |-> Star]
  BY DEF StarsIn
<1> HIDE DEF n
<1>3. [j \in 1..n |-> Star] \in Seq(Value)
  <2>1. [j \in 1..n |-> Star] \in [1..n -> Value]
    BY DEF Value
  <2> QED
    BY <1>1, <2>1, SeqDef
<1> QED
  BY <1>2, <1>3

LEMMA EndIs ==
  ASSUME NEW s, Len(s) \in Nat, NEW i \in 1..Len(s)
  PROVE  /\ ConversionEnd(s, i) \in (i + 1)..(Len(s) + 1)
         /\ ConversionEnd(s, i) = Len(s) + 1 \/ s[ConversionEnd(s, i)] \in EndLetter
         /\ \A r \in (i + 1)..(ConversionEnd(s, i) - 1) : s[r] \notin EndLetter
<1> DEFINE P == (i + 1)..(Len(s) + 1)
           T == {q \in P : q = Len(s) + 1 \/ s[q] \in EndLetter}
           Ends(q) == /\ q = Len(s) + 1 \/ s[q] \in EndLetter
                      /\ \A r \in (i + 1)..(q - 1) : s[r] \notin EndLetter
<1>1. T \in SUBSET Nat /\ Len(s) + 1 \in T
  OBVIOUS
<1>2. PICK q \in T : \A r \in T : q <= r
  <2>1. T # {}
    BY <1>1
  <2> HIDE DEF T
  <2> QED
    BY <1>1, <2>1, Least
<1>3. q \in P /\ Ends(q)
  <2>1. \A r \in (i + 1)..(q - 1) : r \in P /\ ~(q <= r)
    BY <1>2
  <2> QED
    BY <1>2, <2>1
<1>4. ConversionEnd(s, i) = CHOOSE r \in P : Ends(r)
  BY DEF ConversionEnd
<1> HIDE DEF Ends, P
<1>5. ConversionEnd(s, i) \in P /\ Ends(ConversionEnd(s, i))
  BY <1>3, <1>4
<1> QED
  BY <1>5 DEF Ends, P

LEMMA EndAt ==
  ASSUME NEW s, Len(s) \in Nat, NEW i \in 1..Len(s), NEW e \in (i + 1)..Len(s),
         s[e] \in EndLetter, \A r \in (i + 1)..(e - 1) : s[r] \notin EndLetter
  PROVE  ConversionEnd(s, i) = e
<1> DEFINE q == ConversionEnd(s, i)
<1>1. /\ q \in (i + 1)..(Len(s) + 1) /\ (q = Len(s) + 1 \/ s[q] \in EndLetter)
      /\ \A r \in (i + 1)..(q - 1) : s[r] \notin EndLetter
  BY EndIs
<1> HIDE DEF q
<1>2. ~(q < e)
  <2> SUFFICES ASSUME q < e
               PROVE  FALSE
    OBVIOUS
  <2>1. q \in (i + 1)..(e - 1) /\ q # Len(s) + 1
    BY <1>1
  <2> QED
    BY <1>1, <2>1
<1>3. ~(e < q)
  <2> SUFFICES ASSUME e < q
               PROVE  FALSE
    OBVIOUS
  <2>1. e \in (i + 1)..(q - 1)
    BY <1>1
  <2> QED
    BY <1>1, <2>1
<1>4. q = e
  BY <1>1, <1>2, <1>3
<1> QED
  BY <1>4 DEF q

\* The values from a place k before the end of s on, when f has the later ones
NextValues(s, f, k) ==
  LET i == Len(s) + 2 - k
      q == ConversionEnd(s, i)
  IN CASE k = 0 -> Beyond
       [] k = 1 -> << >>
       [] k > 1 /\ s[i] # Percent -> f[k - 1]
       [] OTHER ->
            Stars(s, i, q) \o
            IF q > Len(s) THEN f[0]
            ELSE IF s[q] \in RealLetter THEN <<Real>>
            ELSE (IF s[q] = Percent THEN << >> ELSE <<s[q]>>) \o f[Len(s) + 1 - q]

\* What a conversion that ends at q shows, when rest is shown after it
Converted(s, i, q, rest) ==
  Stars(s, i, q) \o
  IF s[q] \in RealLetter THEN <<Real>>
  ELSE (IF s[q] = Percent THEN << >> ELSE <<s[q]>>) \o rest

\* What those are, at i and with the end q of a conversion that begins there
ValuesAre(s, f, k, i, q) ==
  /\ k = 0 => NextValues(s, f, k) = Beyond
  /\ k = 1 => NextValues(s, f, k) = << >>
  /\ k > 1 =>
       /\ i \in 1..Len(s) /\ q \in (i + 1)..(Len(s) + 1)
       /\ s[i] # Percent => NextValues(s, f, k) = f[k - 1]
       /\ s[i] = Percent /\ q > Len(s) => NextValues(s, f, k) = Stars(s, i, q) \o f[0]
       /\ s[i] = Percent /\ ~(q > Len(s)) =>
            /\ NextValues(s, f, k) = Converted(s, i, q, f[Len(s) + 1 - q])
            /\ Len(s) + 1 - q \in 0..(k - 2)

LEMMA NextValuesIs ==
  ASSUME NEW s \in Seq(STRING), NEW k \in 0..(Len(s) + 1), NEW f, NEW i, i = Len(s) + 2 - k,
         NEW q, q = ConversionEnd(s, i)
  PROVE  ValuesAre(s, f, k, i, q)
<1> DEFINE L == Len(s)
<1>1. L \in Nat
  BY LenProperties
<1>2. NextValues(s, f, k)
        = CASE k = 0 -> Beyond
            [] k = 1 -> << >>
            [] k > 1 /\ s[i] # Percent -> f[k - 1]
            [] OTHER ->
                 Stars(s, i, q) \o
                 IF q > L THEN f[0]
                 ELSE IF s[q] \in RealLetter THEN <<Real>>
                 ELSE (IF s[q] = Percent THEN << >> ELSE <<s[q]>>) \o f[L + 1 - q]
  BY DEF NextValues
<1>3. ASSUME k > 1
      PROVE  i \in 1..L /\ q \in (i + 1)..(L + 1)
  <2>1. i \in 1..L
    BY <1>1, <1>3
  <2> QED
    BY <1>1, <2>1, EndIs
<1>4. ASSUME k > 1, s[i] = Percent, ~(q > L)
      PROVE  L + 1 - q \in 0..(k - 2)
  BY <1>1, <1>3, <1>4
<1> HIDE DEF L
<1>5. /\ k = 0 => NextValues(s, f, k) = Beyond
      /\ k = 1 => NextValues(s, f, k) = << >>
      /\ k > 1 /\ s[i] # Percent => NextValues(s, f, k) = f[k - 1]
  <2>1. k = 0 => NextValues(s, f, k) = Beyond
    <3>1. k = 0 => k # 1 /\ ~(k > 1)
      OBVIOUS
    <3> QED
      BY <1>2, <3>1
  <2>2. k = 1 => NextValues(s, f, k) = << >>
    <3>1. k = 1 => k # 0 /\ ~(k > 1)
      OBVIOUS
    <3> QED
      BY <1>2, <3>1
  <2>3. k > 1 /\ s[i] # Percent => NextValues(s, f, k) = f[k - 1]
    <3>1. k > 1 => k # 0 /\ k # 1
      OBVIOUS
    <3> QED
      BY <1>2, <3>1
  <2> QED
    BY <2>1, <2>2, <2>3
<1>6. ASSUME k > 1, s[i] = Percent
      PROVE  NextValues(s, f, k)
               = Stars(s, i, q) \o
                 IF q > L THEN f[0]
                 ELSE IF s[q] \in RealLetter THEN <<Real>>
                 ELSE (IF s[q] = Percent THEN << >> ELSE <<s[q]>>) \o f[L + 1 - q]
  <2>1. k # 0 /\ k # 1
    BY <1>6
  <2> QED
    BY <1>2, <1>6, <2>1
<1>7. ASSUME k > 1, s[i] = Percent, q > L
      PROVE  NextValues(s, f, k) = Stars(s, i, q) \o f[0]
  BY <1>6, <1>7
<1>8. ASSUME k > 1, s[i] = Percent, ~(q > L)
      PROVE  NextValues(s, f, k) = Converted(s, i, q, f[L + 1 - q])
  BY <1>6, <1>8 DEF Converted
<1> QED
  BY <1>3, <1>4, <1>5, <1>7, <1>8 DEF L, ValuesAre

LEMMA ConvertedIs ==
  ASSUME NEW s \in Seq(STRING), NEW i \in 1..Len(s), NEW q \in 1..Len(s),
         NEW rest, s[q] \notin RealLetter => rest \in Seq(Value)
  PROVE  Stars(s, i, q) \in Seq(Value) /\ Converted(s, i, q, rest) \in Seq(Value)
<1>1. s[q] \in Value
  BY LenProperties DEF Value
<1>2. Stars(s, i, q) \in Seq(Value)
  <2>1. SubSeq(s, i + 1, q - 1) \in Seq(STRING)
    <3>1. i + 1 \in Int /\ q - 1 \in Int /\ Len(s) \in Nat
      BY LenProperties
    <3>2. \A r \in (i + 1)..(q - 1) : s[r] \in STRING
      BY <3>1, LenProperties
    <3> QED
      BY <3>1, <3>2, SubSeqProperties
  <2> QED
    BY <2>1, StarsAre DEF Stars
<1> DEFINE stars == Stars(s, i, q)
           letter == IF s[q] = Percent THEN << >> ELSE <<s[q]>>
<1>3. letter \in Seq(Value) /\ <<Real>> \in Seq(Value)
  <2>1. <<s[q]>> \in Seq(Value)
    BY <1>1
  <2>2. << >> \in Seq(Value)
    BY EmptySeq
  <2>3. <<Real>> \in Seq(Value)
    <3>1. Real \in Value
      BY DEF Value
    <3> QED
      BY <3>1
  <2> QED
    BY <2>1, <2>2, <2>3
<1>4. Converted(s, i, q, rest) = stars \o IF s[q] \in RealLetter THEN <<Real>> ELSE letter \o rest
  BY DEF Converted
<1> HIDE DEF stars, letter
<1>5. stars \in Seq(Value)
  BY <1>2 DEF stars
<1>6. CASE s[q] \in RealLetter
  <2>1. Converted(s, i, q, rest) = stars \o <<Real>>
    BY <1>4, <1>6
  <2> QED
    BY <1>2, <1>3, <1>5, <2>1, ConcatProperties
<1>7. CASE s[q] \notin RealLetter
  <2>1. Converted(s, i, q, rest) = stars \o (letter \o rest)
    BY <1>4, <1>7
  <2>2. letter \o rest \in Seq(Value)
    BY <1>3, <1>7, ConcatProperties
  <2> QED
    BY <1>2, <1>5, <2>1, <2>2, ConcatProperties
<1> QED
  BY <1>6, <1>7

LEMMA NextValuesType ==
  ASSUME NEW s \in Seq(STRING), NEW k \in 0..(Len(s) + 1), NEW f,
         \A j \in 0..(Len(s) + 1) : j < k => f[j] \in Seq(Value)
  PROVE  NextValues(s, f, k) \in Seq(Value)
<1> DEFINE i == Len(s) + 2 - k
           q == ConversionEnd(s, i)
<1>1. Len(s) \in Nat
  BY LenProperties
<1>2. i = Len(s) + 2 - k /\ q = ConversionEnd(s, i)
  OBVIOUS
<1> HIDE DEF i, q
<1>3. ValuesAre(s, f, k, i, q)
  BY <1>2, NextValuesIs
<1>4. CASE k = 0
  <2>1. Beyond \in Seq(Value)
    <3>1. "beyond" \in Value
      BY DEF Value
    <3> QED
      BY <3>1 DEF Beyond
  <2> QED
    BY <1>3, <1>4, <2>1 DEF ValuesAre
<1>5. CASE k = 1
  <2>1. << >> \in Seq(Value)
    BY EmptySeq
  <2> QED
    BY <1>3, <1>5, <2>1 DEF ValuesAre
<1>6. CASE k > 1
  <2>1. /\ i \in 1..Len(s) /\ q \in (i + 1)..(Len(s) + 1)
        /\ s[i] # Percent => NextValues(s, f, k) = f[k - 1]
        /\ s[i] = Percent /\ q > Len(s) => NextValues(s, f, k) = Stars(s, i, q) \o f[0]
        /\ s[i] = Percent /\ ~(q > Len(s)) =>
             /\ NextValues(s, f, k) = Converted(s, i, q, f[Len(s) + 1 - q])
             /\ Len(s) + 1 - q \in 0..(k - 2)
    BY <1>3, <1>6 DEF ValuesAre
  <2>2. CASE s[i] # Percent
    <3>1. k - 1 \in 0..(Len(s) + 1) /\ k - 1 < k
      BY <1>1, <1>6
    <3> QED
      BY <2>1, <2>2, <3>1
  <2>3. CASE s[i] = Percent /\ q > Len(s)
    <3>1. f[0] \in Seq(Value)
      BY <1>1, <1>6
    <3>2. Stars(s, i, q) \in Seq(Value)
      <4>1. SubSeq(s, i + 1, q - 1) \in Seq(STRING)
        <5>1. i + 1 \in Int /\ q - 1 \in Int
          BY <1>1, <2>1
        <5>2. \A r \in (i + 1)..(q - 1) : s[r] \in STRING
          <6>1. \A r \in (i + 1)..(q - 1) : r \in 1..Len(s)
            BY <1>1, <2>1
          <6> QED
            BY <6>1, LenProperties
        <5> QED
          BY <5>1, <5>2, SubSeqProperties
      <4> QED
        BY <4>1, StarsAre DEF Stars
    <3> QED
      BY <2>1, <2>3, <3>1, <3>2, ConcatProperties
  <2>4. CASE s[i] = Percent /\ ~(q > Len(s))
    <3>1. q \in 1..Len(s)
      BY <1>1, <2>1, <2>4
    <3>2. Len(s) + 1 - q \in 0..(Len(s) + 1) /\ Len(s) + 1 - q < k
      BY <1>1, <2>1, <2>4
    <3>3. f[Len(s) + 1 - q] \in Seq(Value)
      BY <3>2
    <3> QED
      BY <2>1, <2>4, <3>1, <3>3, ConvertedIs
  <2> QED
    BY <2>2, <2>3, <2>4
<1> QED
  BY <1>1, <1>4, <1>5, <1>6

LEMMA NextLooksBelow ==
  ASSUME NEW s \in Seq(STRING), NEW n, n = Len(s) + 1, NEW V, NEW next,
         next = [k \in 0..n |-> [f \in [0..n -> V] |-> NextValues(s, f, k)]]
  PROVE  LooksBelow(n, V, next)
<1> SUFFICES ASSUME NEW k \in 0..n, NEW g \in [0..n -> V], NEW h \in [0..n -> V],
                    \A j \in 0..n : j < k => g[j] = h[j]
             PROVE  next[k][g] = next[k][h]
  BY DEF LooksBelow
<1> DEFINE i == Len(s) + 2 - k
           q == ConversionEnd(s, i)
<1>1. Len(s) \in Nat
  BY LenProperties
<1>2. i = Len(s) + 2 - k /\ q = ConversionEnd(s, i)
  OBVIOUS
<1> HIDE DEF i, q
<1>3. ValuesAre(s, g, k, i, q) /\ ValuesAre(s, h, k, i, q)
  BY <1>2, NextValuesIs
<1>4. NextValues(s, g, k) = NextValues(s, h, k)
  <2>1. CASE k = 0 \/ k = 1
    BY <1>3, <2>1 DEF ValuesAre
  <2>2. CASE k > 1
    <3>1. i \in 1..Len(s) /\ q \in (i + 1)..(Len(s) + 1)
      BY <1>3, <2>2 DEF ValuesAre
    <3>2. CASE s[i] # Percent
      <4>1. k - 1 \in 0..n /\ k - 1 < k
        BY <1>1, <2>2
      <4>2. NextValues(s, g, k) = g[k - 1] /\ NextValues(s, h, k) = h[k - 1]
        BY <1>3, <2>2, <3>2 DEF ValuesAre
      <4> QED
        BY <4>1, <4>2
    <3>3. CASE s[i] = Percent /\ q > Len(s)
      <4>1. 0 \in 0..n /\ 0 < k
        BY <1>1, <2>2
      <4>2. /\ NextValues(s, g, k) = Stars(s, i, q) \o g[0]
            /\ NextValues(s, h, k) = Stars(s, i, q) \o h[0]
        BY <1>3, <2>2, <3>3 DEF ValuesAre
      <4> QED
        BY <4>1, <4>2
    <3>4. CASE s[i] = Percent /\ ~(q > Len(s))
      <4> DEFINE j == Len(s) + 1 - q
      <4>1. j \in 0..n /\ j < k
        <5>1. j \in 0..(k - 2)
          BY <1>3, <2>2, <3>4 DEF ValuesAre
        <5> HIDE DEF j
        <5> QED
          BY <1>1, <5>1
      <4>2. /\ NextValues(s, g, k) = Converted(s, i, q, g[j])
            /\ NextValues(s, h, k) = Converted(s, i, q, h[j])
        BY <1>3, <2>2, <3>4 DEF ValuesAre
      <4> HIDE DEF j
      <4> QED
        BY <4>1, <4>2
    <3> QED
      BY <3>2, <3>3, <3>4
  <2> QED
    BY <1>1, <2>1, <2>2
<1> QED
  BY <1>4

\* The values from a place on, for every text
IsFrom(s, from) ==
  \A k \in 0..(Len(s) + 1) : from[k] \in Seq(Value) /\ from[k] = NextValues(s, from, k)

LEMMA FormatValuesAre ==
  ASSUME NEW s \in Seq(STRING)
  PROVE  \E from : IsFrom(s, from) /\ FormatValues(s) = from[Len(s) + 1]
<1> DEFINE n == Len(s) + 1
           V == Seq(Value)
           Up(f) == f = [k \in 0..n |-> NextValues(s, f, k)]
           from == CHOOSE f : Up(f)
           next == [k \in 0..n |-> [f \in [0..n -> V] |-> NextValues(s, f, k)]]
<1>1. FormatValues(s) = from[n]
  BY DEF FormatValues, NextValues
<1>2. n \in Nat /\ n = Len(s) + 1
  BY LenProperties
<1>3. \A k \in 0..n : \A f : (\A j \in 0..n : j < k => f[j] \in V) => NextValues(s, f, k) \in V
  BY NextValuesType
<1>4. LooksBelow(n, V, next)
  <2>1. next = [k \in 0..n |-> [f \in [0..n -> V] |-> NextValues(s, f, k)]]
    OBVIOUS
  <2> HIDE DEF next, n
  <2> QED
    BY <1>2, <2>1, NextLooksBelow
<1>5. << >> \in V
  BY EmptySeq
<1> HIDE DEF n, V
<1>6. IsNext(n, V, next)
  BY <1>3 DEF IsNext
<1>7. \E f : Up(f)
  <2>1. PICK f \in [0..n -> V] : \A k \in 0..n : f[k] = next[k][f]
    <3>1. V # {}
      BY <1>5
    <3> HIDE DEF next
    <3>2. HasCourse(n, V, next)
      BY <1>2, <1>4, <1>6, <3>1, CourseExists
    <3> QED
      BY <3>2 DEF HasCourse
  <2>2. \A k \in 0..n : f[k] = NextValues(s, f, k)
    BY <2>1
  <2>3. Up(f)
    BY <2>2
  <2> QED
    BY <2>3
<1>8. Up(from)
  <2> HIDE DEF Up
  <2> QED
    BY <1>7
<1>9. \A k \in 0..n : from[k] = NextValues(s, from, k)
  <2> HIDE DEF from
  <2> QED
    BY <1>8
<1> HIDE DEF from
<1> DEFINE Bad == {k \in 0..n : from[k] \notin V}
<1>10. Bad = {}
  <2> SUFFICES ASSUME Bad # {}
               PROVE  FALSE
    OBVIOUS
  <2>1. Bad \in SUBSET Nat
    OBVIOUS
  <2>2. PICK k \in Bad : \A j \in Bad : k <= j
    BY <2>1, Least
  <2>3. \A j \in 0..n : j < k => from[j] \in V
    BY <2>2
  <2> QED
    BY <1>3, <1>9, <2>2, <2>3
<1>11. IsFrom(s, from)
  BY <1>2, <1>9, <1>10 DEF IsFrom, V
<1> QED
  BY <1>1, <1>2, <1>11

LEMMA JoinAssociative ==
  ASSUME NEW s \in Seq(Value), NEW t \in Seq(Value), NEW u \in Seq(Value)
  PROVE  (s \o t) \o u = s \o (t \o u)
BY ConcatAssociative

LEMMA LastOfConcat ==
  ASSUME NEW S, NEW s \in Seq(S), NEW x \in S
  PROVE  s \o <<x>> # << >> /\ (s \o <<x>>)[Len(s \o <<x>>)] = x
<1> DEFINE one == <<x>>
           t == s \o one
<1>1. one \in Seq(S) /\ Len(one) = 1 /\ one[1] = x
  OBVIOUS
<1>2. Len(s) \in Nat
  BY LenProperties
<1> HIDE DEF one
<1>3. /\ Len(t) = Len(s) + 1
      /\ \A i \in 1..(Len(s) + 1) : t[i] = IF i <= Len(s) THEN s[i] ELSE one[i - Len(s)]
  <2>1. /\ Len(t) = Len(s) + Len(one)
        /\ \A i \in 1..(Len(s) + Len(one)) :
             t[i] = IF i <= Len(s) THEN s[i] ELSE one[i - Len(s)]
    BY <1>1, ConcatProperties
  <2> HIDE DEF t
  <2> QED
    BY <1>1, <2>1
<1> HIDE DEF t
<1>4. Len(t) \in 1..(Len(s) + 1) /\ ~(Len(t) <= Len(s)) /\ Len(t) - Len(s) = 1
  BY <1>2, <1>3
<1>5. t[Len(t)] = x
  BY <1>1, <1>3, <1>4
<1>6. t # << >>
  <2>1. Len(<< >>) = 0
    BY EmptySeq
  <2> QED
    BY <1>2, <1>3, <2>1
<1> QED
  BY <1>5, <1>6 DEF t, one

IsAt(s, chars, a, last) == \A j \in 1..last : s[a + j] = chars[j]

LEMMA StarsOfPiece ==
  ASSUME NEW S, NEW s \in Seq(S), NEW chars \in Seq(S), NEW a \in Nat, NEW last \in Nat,
         last > 1, last <= Len(chars), a + last <= Len(s),
         IsAt(s, chars, a, last)
  PROVE  SubSeq(s, a + 2, a + last - 1) = SubSeq(chars, 2, last - 1)
<1> DEFINE b == a + 2
           c == a + last - 1
           l == SubSeq(s, b, c)
           r == SubSeq(chars, 2, last - 1)
<1>1. Len(s) \in Nat /\ Len(chars) \in Nat
  BY LenProperties
<1>2. b \in Int /\ c \in Int /\ \A i \in b..c : s[i] \in S
  BY <1>1, LenProperties
<1>3. last - 1 \in Int /\ \A i \in 2..(last - 1) : chars[i] \in S
  BY <1>1, LenProperties
<1>4. /\ l \in Seq(S) /\ Len(l) = (IF b <= c THEN c - b + 1 ELSE 0)
      /\ \A i \in 1..(c - b + 1) : l[i] = s[b + i - 1]
  <2> HIDE DEF b, c
  <2> QED
    BY <1>2, SubSeqProperties
<1>5. /\ r \in Seq(S) /\ Len(r) = (IF 2 <= last - 1 THEN last - 1 - 2 + 1 ELSE 0)
      /\ \A i \in 1..(last - 1 - 2 + 1) : r[i] = chars[2 + i - 1]
  BY <1>3, SubSeqProperties
<1>6. c - b + 1 = last - 2 /\ (b <= c <=> last > 2)
  BY <1>1
<1> HIDE DEF l, r
<1>7. Len(l) = last - 2 /\ Len(r) = last - 2
  BY <1>4, <1>5, <1>6
<1>8. ASSUME NEW i \in 1..(last - 2)
      PROVE  l[i] = r[i]
  <2>1. l[i] = s[b + i - 1] /\ r[i] = chars[2 + i - 1]
    BY <1>4, <1>5, <1>6
  <2>2. b + i - 1 = a + (i + 1) /\ 2 + i - 1 = i + 1 /\ i + 1 \in 1..last
    OBVIOUS
  <2> HIDE DEF b
  <2> QED
    BY <2>1, <2>2 DEF IsAt
<1> HIDE DEF b, c
<1>9. l = r
  BY <1>4, <1>5, <1>7, <1>8, SeqEqual
<1> QED
  BY <1>9 DEF l, r, b, c

\* What is shown from a piece on: its values, and what is shown after it
\* unless they end in a real.  a characters are before it
ShownFrom(s, from, values, a, b) ==
  from[Len(s) + 1 - a] = IF EndsInReal(values) THEN values ELSE values \o from[Len(s) + 1 - b]

LEMMA PieceIs ==
  ASSUME NEW s \in Seq(STRING), NEW from, IsFrom(s, from), NEW p, p.chars \in Seq(STRING),
         p.values \in Seq(Value), Literal(p) \/ Conversion(p),
         NEW a \in Nat, NEW last \in Nat, last = Len(p.chars), a + last <= Len(s),
         IsAt(s, p.chars, a, last)
  PROVE  ShownFrom(s, from, p.values, a, a + last)
<1> DEFINE k == Len(s) + 1 - a
           i == Len(s) + 2 - k
           q == ConversionEnd(s, i)
           rest == from[Len(s) + 1 - (a + last)]
<1>1. Len(s) \in Nat /\ \A j \in 1..last : s[a + j] = p.chars[j]
  BY LenProperties DEF IsAt
<1>2. last >= 1
  BY DEF Literal, Conversion
<1>3. k \in 0..(Len(s) + 1) /\ k > 1 /\ i = a + 1 /\ k - 1 \in 0..(Len(s) + 1)
  BY <1>1, <1>2
<1>4. from[k] = NextValues(s, from, k) /\ from[k - 1] \in Seq(Value)
  BY <1>3 DEF IsFrom
<1>5. i = Len(s) + 2 - k /\ q = ConversionEnd(s, i)
  OBVIOUS
<1>6. Len(s) + 1 - (a + last) \in 0..(Len(s) + 1)
  <2> DEFINE x == a + last
             l == Len(s)
  <2>1. x \in Nat /\ l \in Nat /\ x <= l
    BY <1>1
  <2> HIDE DEF x, l
  <2>2. l + 1 - x \in 0..(l + 1)
    BY <2>1
  <2> QED
    BY <2>2 DEF x, l
<1>7. rest \in Seq(Value)
  <2> DEFINE x == Len(s) + 1 - (a + last)
  <2>1. x \in 0..(Len(s) + 1)
    BY <1>6
  <2> HIDE DEF x
  <2>2. from[x] \in Seq(Value)
    BY <2>1 DEF IsFrom
  <2> QED
    BY <2>2 DEF x
<1> HIDE DEF k, i, q, rest
<1>8. ValuesAre(s, from, k, i, q)
  BY <1>3, <1>5, NextValuesIs
<1>9. CASE Literal(p)
  <2>1. last = 1 /\ s[i] # Percent /\ p.values = << >> /\ ~EndsInReal(p.values)
    BY <1>1, <1>3, <1>9 DEF Literal, EndsInReal
  <2>2. from[k] = from[k - 1]
    BY <1>3, <1>4, <1>8, <2>1 DEF ValuesAre
  <2>3. rest = from[k - 1]
    <3>1. Len(s) + 1 - (a + last) = k - 1
      BY <1>1, <2>1 DEF k
    <3> QED
      BY <3>1 DEF rest
  <2>4. p.values \o rest = rest
    BY <1>7, <2>1, ConcatEmptySeq
  <2> QED
    BY <2>1, <2>2, <2>3, <2>4 DEF k, rest, ShownFrom
<1>10. CASE Conversion(p)
  <2> DEFINE letter == p.chars[last]
             stars == StarsIn(SubSeq(p.chars, 2, last - 1))
  <2>1. /\ last > 1 /\ p.chars[1] = Percent /\ letter \in EndLetter
        /\ \A j \in 2..(last - 1) : p.chars[j] \notin EndLetter
        /\ p.values = stars \o (IF letter \in RealLetter THEN <<Real>>
                                ELSE IF letter = Percent THEN << >> ELSE <<letter>>)
    BY <1>10 DEF Conversion
  <2>2. s[i] = Percent /\ s[a + last] = letter /\ i \in 1..Len(s)
    <3>1. 1 \in 1..last /\ last \in 1..last
      BY <2>1
    <3>2. i \in 1..Len(s)
      BY <1>1, <1>3, <2>1
    <3> HIDE DEF letter, stars
    <3> QED
      BY <1>1, <1>3, <2>1, <3>1, <3>2 DEF letter
  <2>3. q = a + last
    <3>1. a + last \in (i + 1)..Len(s)
      BY <1>1, <1>3, <2>1
    <3>2. ASSUME NEW r \in (i + 1)..(a + last - 1)
          PROVE  s[r] \notin EndLetter
      <4>1. r - a \in 2..(last - 1) /\ r - a \in 1..last /\ a + (r - a) = r
        BY <1>1, <1>3
      <4> QED
        BY <1>1, <2>1, <4>1
    <3> DEFINE e == a + last
    <3>3. e \in (i + 1)..Len(s) /\ s[e] \in EndLetter /\ \A r \in (i + 1)..(e - 1) : s[r] \notin EndLetter
      BY <2>1, <2>2, <3>1, <3>2
    <3> HIDE DEF e
    <3>4. ConversionEnd(s, i) = e
      BY <1>1, <2>2, <3>3, EndAt
    <3> QED
      BY <1>5, <3>4 DEF e
  <2>4. from[k] = Converted(s, i, q, rest)
    <3>1. ~(q > Len(s)) /\ Len(s) + 1 - q = Len(s) + 1 - (a + last)
      BY <1>1, <2>3
    <3>2. from[k] = Converted(s, i, q, from[Len(s) + 1 - q])
      BY <1>3, <1>4, <1>8, <2>2, <3>1 DEF ValuesAre
    <3> QED
      BY <2>3, <3>2 DEF rest
  <2>5. Stars(s, i, q) = stars
    <3>1. SubSeq(s, a + 2, a + last - 1) = SubSeq(p.chars, 2, last - 1)
      <4>1. last > 1 /\ last <= Len(p.chars)
        BY <2>1
      <4>2. last > 1
        BY <4>1
      <4>3. last <= Len(p.chars)
        BY <4>1
      <4> QED
        BY <4>2, <4>3, StarsOfPiece
    <3>2. i + 1 = a + 2
      BY <1>3
    <3>3. q - 1 = a + last - 1
      BY <1>1, <2>3
    <3> QED
      BY <3>1, <3>2, <3>3 DEF Stars
  <2>6. stars \in Seq(Value) /\ \A j \in DOMAIN stars : stars[j] = Star
    <3>1. SubSeq(p.chars, 2, last - 1) \in Seq(STRING)
      <4>1. \A r \in 2..(last - 1) : p.chars[r] \in STRING
        <5>1. \A r \in 2..(last - 1) : r \in 1..last
          BY <1>1
        <5> QED
          BY <5>1, LenProperties
      <4>2. last - 1 \in Int
        BY <1>1
      <4> QED
        BY <4>1, <4>2, SubSeqProperties
    <3> QED
      BY <3>1, StarsAre
  <2>7. s[q] = letter
    BY <2>2, <2>3
  <2>8. from[k] = stars \o IF letter \in RealLetter THEN <<Real>>
                           ELSE (IF letter = Percent THEN << >> ELSE <<letter>>) \o rest
    <3> HIDE DEF stars, letter
    <3> QED
      BY <2>4, <2>5, <2>7 DEF Converted
  <2>9. letter \in Value /\ Real \in Value
    BY <2>1 DEF Value
  <2> HIDE DEF stars, letter
  <2>10. CASE letter \in RealLetter
    <3>1. p.values = stars \o <<Real>> /\ from[k] = p.values
      BY <2>1, <2>8, <2>10
    <3>2. EndsInReal(p.values)
      BY <2>6, <2>9, <3>1, LastOfConcat DEF EndsInReal
    <3> QED
      BY <3>1, <3>2 DEF k, ShownFrom
  <2>11. CASE letter \notin RealLetter /\ letter = Percent
    <3>1. p.values = stars \o << >> /\ from[k] = stars \o (<< >> \o rest)
      BY <2>1, <2>8, <2>11
    <3>2. p.values = stars /\ << >> \o rest = rest
      BY <1>7, <2>6, <3>1, ConcatEmptySeq
    <3>3. ~EndsInReal(p.values)
      <4>1. stars # << >> => Len(stars) \in DOMAIN stars
        BY <2>6, LenProperties, EmptySeq
      <4> QED
        BY <2>6, <3>2, <4>1, Characters DEF EndsInReal
    <3> QED
      BY <3>1, <3>2, <3>3 DEF k, rest, ShownFrom
  <2>12. CASE letter \notin RealLetter /\ letter # Percent
    <3>1. p.values = stars \o <<letter>> /\ from[k] = stars \o (<<letter>> \o rest)
      BY <2>1, <2>8, <2>12
    <3>2. ~EndsInReal(p.values)
      <4>1. p.values[Len(p.values)] = letter
        BY <2>6, <2>9, <3>1, LastOfConcat
      <4> QED
        BY <2>1, <4>1, Characters DEF EndsInReal
    <3>3. from[k] = (stars \o <<letter>>) \o rest
      <4> DEFINE one == <<letter>>
      <4>1. one \in Seq(Value)
        BY <2>9
      <4>2. from[k] = stars \o (one \o rest)
        BY <3>1
      <4>3. stars \in Seq(Value)
        BY <2>6
      <4> HIDE DEF one
      <4>4. (stars \o one) \o rest = stars \o (one \o rest)
        BY <1>7, <4>1, <4>3, JoinAssociative
      <4>5. from[k] = (stars \o one) \o rest
        BY <4>2, <4>4
      <4> QED
        BY <4>5 DEF one
    <3> QED
      BY <3>1, <3>2, <3>3 DEF k, rest, ShownFrom
  <2> QED
    BY <2>10, <2>11, <2>12
<1> QED
  BY <1>9, <1>10

LEMMA AfterGrows ==
  ASSUME NEW n \in Nat, NEW part, \A k \in 1..n : Len(part[k]) \in Nat,
         NEW after \in [0..n -> Nat], IsAfter(n, part, after)
  PROVE  \A k \in 0..n : after[k] \in 0..after[n]
<1> DEFINE Bad == {j \in 0..n : ~(after[n - j] <= after[n])}
<1>1. Bad = {}
  <2> SUFFICES ASSUME Bad # {}
               PROVE  FALSE
    OBVIOUS
  <2>1. Bad \in SUBSET Nat
    OBVIOUS
  <2>2. PICK j \in Bad : \A i \in Bad : j <= i
    BY <2>1, Least
  <2>3. j # 0
    <3>1. n - 0 = n /\ after[n] <= after[n]
      OBVIOUS
    <3> QED
      BY <2>2, <3>1
  <2>4. /\ j - 1 \in 0..n /\ ~(j <= j - 1) /\ n - (j - 1) \in 1..n /\ n - j \in 0..n
        /\ (n - (j - 1)) - 1 = n - j
    BY <2>2, <2>3
  <2>5. after[n - (j - 1)] <= after[n]
    BY <2>2, <2>4
  <2> DEFINE k == n - (j - 1)
             i == n - j
  <2>6. k \in 1..n /\ k \in 0..n /\ i \in 0..n /\ k - 1 = i
    BY <2>4
  <2>7. after[k] <= after[n] /\ ~(after[i] <= after[n])
    BY <2>2, <2>5
  <2> HIDE DEF k, i
  <2>8. after[k] = after[i] + Len(part[k])
    BY <2>6 DEF IsAfter
  <2>9. after[k] \in Nat /\ after[i] \in Nat /\ after[n] \in Nat /\ Len(part[k]) \in Nat
    BY <2>6
  <2> QED
    BY <2>7, <2>8, <2>9
<1>2. ASSUME NEW k \in 0..n
      PROVE  after[k] <= after[n]
  <2>1. n - k \in 0..n /\ n - (n - k) = k
    OBVIOUS
  <2> QED
    BY <1>1, <2>1
<1> QED
  BY <1>2

LEMMA UpToRealIs ==
  ASSUME Len(pieces) \in Nat, DOMAIN pieces = 1..Len(pieces)
  PROVE  /\ UpToReal \in 0..Len(pieces)
         /\ \A k \in 1..Len(pieces) : k < UpToReal => ~EndsInReal(pieces[k].values)
         /\ \/ UpToReal > 0 /\ EndsInReal(pieces[UpToReal].values)
            \/ UpToReal = Len(pieces) /\ \A k \in DOMAIN pieces : ~EndsInReal(pieces[k].values)
<1> DEFINE reals == {k \in DOMAIN pieces : EndsInReal(pieces[k].values)}
           Earliest(k) == \A m \in reals : k <= m
<1>1. UpToReal = IF reals = {} THEN Len(pieces) ELSE CHOOSE k \in reals : Earliest(k)
  BY DEF UpToReal
<1>2. reals \in SUBSET Nat
  OBVIOUS
<1>3. CASE reals = {}
  <2>1. UpToReal = Len(pieces)
    BY <1>1, <1>3
  <2>2. \A k \in DOMAIN pieces : ~EndsInReal(pieces[k].values)
    BY <1>3
  <2> QED
    BY <2>1, <2>2
<1>4. CASE reals # {}
  <2> HIDE DEF reals
  <2>1. \E k \in reals : Earliest(k)
    BY <1>2, <1>4, Least
  <2> HIDE DEF Earliest
  <2>2. UpToReal \in reals /\ Earliest(UpToReal)
    BY <1>1, <1>4, <2>1
  <2>3. UpToReal \in 1..Len(pieces) /\ EndsInReal(pieces[UpToReal].values)
    BY <2>2 DEF reals
  <2>4. \A k \in 1..Len(pieces) : k < UpToReal => k \notin reals
    BY <2>2, <2>3 DEF Earliest
  <2>5. \A k \in 1..Len(pieces) : k < UpToReal => ~EndsInReal(pieces[k].values)
    BY <2>4 DEF reals
  <2>6. UpToReal \in 0..Len(pieces) /\ UpToReal > 0
    <3> DEFINE u == UpToReal
               l == Len(pieces)
    <3>1. u \in 1..l /\ l \in Nat
      BY <2>3
    <3> HIDE DEF u, l
    <3>2. u \in 0..l /\ u > 0
      BY <3>1
    <3> QED
      BY <3>2 DEF u, l
  <2> QED
    BY <2>3, <2>5, <2>6, Zenon
<1> QED
  BY <1>3, <1>4

LEMMA ValuesType ==
  ASSUME NEW values \in Seq(STRING)
  PROVE  values \in Seq(Value)
<1>1. Len(values) \in Nat /\ values \in [1..Len(values) -> Value]
  BY LenProperties DEF Value
<1> QED
  BY <1>1, SeqDef

\* The expected values are those of the pieces up to the first real.
LEMMA ExpectedIs ==
  ASSUME TextsInv, NEW m, m = UpToReal, m \in 0..Len(pieces)
  PROVE  \E expected : /\ Pieced(m, Values, expected) /\ expectedValues = expected[m]
                       /\ \A j \in 0..m : expected[j] \in Seq(Value)
<1> DEFINE Up(f) == f = [k \in 0..m |-> IF k = 0 THEN << >> ELSE f[k - 1] \o pieces[k].values]
           upTo == CHOOSE f : Up(f)
<1>1. expectedValues = upTo[m]
  BY DEF expectedValues, Joined
<1>2. /\ m \in Nat /\ \A k \in 1..m : Values[k] = pieces[k].values
      /\ \A k \in 1..m : Values[k] \in Seq(Value)
  <2>1. \A k \in 1..m : k \in 1..Len(pieces)
    BY DEF TextsInv
  <2>2. \A k \in 1..m : Values[k] = pieces[k].values /\ pieces[k].values \in Seq(STRING)
    BY <2>1, ReportAssumption DEF TextsInv, Values
  <2> QED
    BY <2>2, ValuesType DEF TextsInv
<1>3. \E f : Up(f)
  <2>1. PICK f : f = [k \in 0..m |-> IF k = 0 THEN << >> ELSE f[k - 1] \o Values[k]]
    <3>1. \A k \in 1..m : Values[k] \in Seq(Value)
      BY <1>2
    <3>2. m \in Nat
      BY <1>2
    <3>3. ArePieced(m, Values)
      BY <3>1, <3>2, PiecedExists
    <3> QED
      BY <3>3 DEF ArePieced
  <2>2. \A k \in 0..m : k # 0 => Values[k] = pieces[k].values
    BY <1>2
  <2>3. Up(f)
    BY <2>1, <2>2
  <2> QED
    BY <2>3
<1>4. Up(upTo)
  <2> HIDE DEF Up
  <2> QED
    BY <1>3
<1>5. \A k \in 0..m : upTo[k] = IF k = 0 THEN << >> ELSE upTo[k - 1] \o pieces[k].values
  <2> HIDE DEF upTo
  <2> QED
    BY <1>4
<1> HIDE DEF upTo
<1>6. Pieced(m, Values, upTo)
  <2>1. \A k \in 1..m : k \in 0..m /\ k # 0
    OBVIOUS
  <2>2. upTo[0] = << >>
    BY <1>2, <1>5
  <2> QED
    BY <1>2, <1>5, <2>1, <2>2 DEF Pieced
<1>7. \A j \in 0..m : upTo[j] \in Seq(Value)
  BY <1>2, <1>6, PiecedTypes
<1> QED
  BY <1>1, <1>6, <1>7

LEMMA LimitType == TextsInv => opt_s \in Nat
BY DEF TextsInv, Unlimited

LEMMA WholeIs ==
  ASSUME NEW S, NEW s \in Seq(S)
  PROVE  SubSeq(s, 1, Len(s)) = s
<1>1. Len(s) \in Nat /\ \A i \in 1..Len(s) : s[i] \in S
  BY LenProperties
<1>2. /\ SubSeq(s, 1, Len(s)) \in Seq(S)
      /\ Len(SubSeq(s, 1, Len(s))) = (IF 1 <= Len(s) THEN Len(s) - 1 + 1 ELSE 0)
      /\ \A i \in 1..(Len(s) - 1 + 1) : SubSeq(s, 1, Len(s))[i] = s[1 + i - 1]
  BY <1>1, SubSeqProperties
<1> DEFINE t == SubSeq(s, 1, Len(s))
<1>3. t \in Seq(S) /\ Len(t) = Len(s)
  BY <1>1, <1>2
<1>4. \A i \in 1..Len(s) : t[i] = s[i]
  <2>1. \A i \in 1..Len(s) : i \in 1..(Len(s) - 1 + 1) /\ 1 + i - 1 = i
    BY <1>1
  <2> HIDE DEF t
  <2> QED
    BY <1>2, <2>1 DEF t
<1> HIDE DEF t
<1>5. t = s
  BY <1>3, <1>4, SeqEqual
<1> QED
  BY <1>5 DEF t

\* For every text that is read whole and whose pieces printf knows.
LEMMA FormatIs ==
  ASSUME TextsInv, \A k \in DOMAIN pieces : pieces[k].values # Beyond
  PROVE  FormatValues(theText) = expectedValues
<1> DEFINE n == Len(pieces)
           s == theText
           m == UpToReal
           real == m > 0 /\ EndsInReal(pieces[m].values)
           stop == IF real THEN m - 1 ELSE m
<1>1. n \in Nat /\ DOMAIN pieces = 1..n /\ s \in Seq(STRING)
  BY TheTextIs DEF TextsInv
<1>2. PICK after \in [0..n -> Nat] : /\ IsAfter(n, Chars, after) /\ Len(s) = after[n]
                                     /\ Has(Chars, after, s, n)
  BY TheTextIs
<1>3. PICK from : IsFrom(s, from) /\ FormatValues(s) = from[Len(s) + 1]
  BY <1>1, FormatValuesAre
<1>4. /\ m \in 0..n /\ \A k \in 1..n : k < m => ~EndsInReal(pieces[k].values)
      /\ ~real => m = n /\ \A k \in 1..n : ~EndsInReal(pieces[k].values)
  BY <1>1, UpToRealIs
<1>5. PICK expected : /\ Pieced(m, Values, expected) /\ expectedValues = expected[m]
                      /\ \A j \in 0..m : expected[j] \in Seq(Value)
  BY <1>4, ExpectedIs
<1> HIDE DEF n, s, m
<1>6. stop \in 0..m /\ stop \in 0..n /\ \A k \in 1..stop : ~EndsInReal(pieces[k].values)
  BY <1>1, <1>4
<1> DEFINE v(k) == from[Len(s) + 1 - after[k]]
<1>7. \A k \in 0..n : after[k] \in 0..Len(s) /\ v(k) \in Seq(Value)
  <2>1. \A k \in 0..n : after[k] \in 0..after[n]
    <3>1. \A k \in 1..n : Len(Chars[k]) \in Nat
      <4>1. \A k \in 1..n : pieces[k] \in Pieces
        BY DEF TextsInv, n
      <4>2. \A k \in 1..n : Chars[k] \in Seq(STRING)
        BY <4>1, ReportAssumption DEF Chars, n
      <4> QED
        BY <4>2, LenProperties
    <3> QED
      BY <1>1, <1>2, <3>1, AfterGrows
  <2>2. Len(s) \in Nat
    BY <1>1, LenProperties
  <2>3. \A x \in 0..Len(s) : from[Len(s) + 1 - x] \in Seq(Value)
    BY <1>3, <2>2 DEF IsFrom
  <2> QED
    BY <1>2, <2>1, <2>3
<1>8. ASSUME NEW k \in 1..n
      PROVE  v(k - 1) = IF EndsInReal(pieces[k].values) THEN pieces[k].values
                        ELSE pieces[k].values \o v(k)
  <2> DEFINE p == pieces[k]
             a == after[k - 1]
             last == Len(p.chars)
  <2>1. p \in Pieces /\ p.values # Beyond /\ Chars[k] = p.chars
    BY <1>1, <1>8 DEF TextsInv, Chars, n
  <2>2. /\ p.chars \in Seq(STRING) /\ p.values \in Seq(STRING)
        /\ Literal(p) \/ Conversion(p)
    BY <2>1, ReportAssumption, PieceAssumption
  <2>3. p.values \in Seq(Value)
    BY <2>2, ValuesType
  <2>4. a \in Nat /\ after[k] = a + last /\ after[k] <= Len(s) /\ last \in Nat
    <3>1. k - 1 \in 0..n /\ k \in 0..n
      BY <1>1
    <3>2. after[k] = a + Len(Chars[k])
      BY <1>2 DEF IsAfter
    <3>3. last \in Nat
      BY <2>2, LenProperties
    <3>4. a \in 0..Len(s) /\ after[k] \in 0..Len(s)
      BY <1>7, <3>1
    <3>5. Len(s) \in Nat
      BY <1>1, LenProperties
    <3> QED
      BY <2>1, <3>2, <3>3, <3>4, <3>5
  <2>5. IsAt(s, p.chars, a, last)
    BY <1>2, <2>1 DEF Has, IsAt
  <2> HIDE DEF p, a
  <2>6. last = Len(p.chars)
    OBVIOUS
  <2> HIDE DEF last
  <2>7. ShownFrom(s, from, p.values, a, a + last)
    <3>1. a \in Nat /\ last \in Nat /\ a + last <= Len(s)
      BY <2>4
    <3>2. s \in Seq(STRING)
      BY <1>1
    <3>3. IsFrom(s, from)
      BY <1>3
    <3>4. p.chars \in Seq(STRING)
      BY <2>2
    <3>5. Literal(p) \/ Conversion(p)
      BY <2>2
    <3>6. a \in Nat
      BY <3>1
    <3>7. last \in Nat
      BY <3>1
    <3>8. a + last <= Len(s)
      BY <3>1
    <3> QED
      BY <2>3, <2>5, <2>6, <3>2, <3>3, <3>4, <3>5, <3>6, <3>7, <3>8, PieceIs
  <2>8. from[Len(s) + 1 - a] = IF EndsInReal(p.values) THEN p.values ELSE p.values \o v(k)
    BY <2>4, <2>7 DEF ShownFrom
  <2> QED
    BY <2>8 DEF p, a
<1>9. /\ expected[0] = << >>
      /\ \A k \in 1..m : /\ k \in 1..n /\ k - 1 \in 0..m /\ k \in 0..m
                         /\ expected[k] = expected[k - 1] \o pieces[k].values
                         /\ pieces[k].values \in Seq(Value)
  <2>1. ASSUME NEW k \in 1..m
        PROVE  k \in 1..n /\ k - 1 \in 0..m /\ k \in 0..m
    BY <1>1, <1>4
  <2>2. ASSUME NEW k \in 1..n
        PROVE  Values[k] = pieces[k].values /\ pieces[k].values \in Seq(Value)
    <3>1. pieces[k] \in Pieces /\ Values[k] = pieces[k].values
      BY <1>1, <2>2 DEF TextsInv, Values, n
    <3>2. pieces[k].values \in Seq(STRING)
      BY <3>1, ReportAssumption
    <3> QED
      BY <3>1, <3>2, ValuesType
  <2> QED
    BY <1>5, <2>1, <2>2 DEF Pieced
<1> HIDE DEF v, stop
<1> DEFINE Good(k) == from[Len(s) + 1] = expected[k] \o v(k)
           Bad == {k \in 0..stop : ~Good(k)}
<1>10. Good(0)
  <2>1. v(0) = from[Len(s) + 1] /\ v(0) \in Seq(Value)
    <3>1. after[0] = 0 /\ 0 \in 0..n
      BY <1>1, <1>2 DEF IsAfter
    <3>2. Len(s) + 1 - 0 = Len(s) + 1
      BY <1>1, LenProperties
    <3> QED
      BY <1>7, <3>1, <3>2 DEF v
  <2> QED
    BY <1>9, <2>1, ConcatEmptySeq
<1>11. ASSUME NEW k \in 1..stop, Good(k - 1)
       PROVE  Good(k)
  <2> DEFINE values == pieces[k].values
  <2>1. k \in 1..m /\ k \in 1..n /\ k - 1 \in 0..m /\ k \in 0..n
    BY <1>1, <1>4, <1>6
  <2>2. v(k - 1) = values \o v(k)
    BY <1>6, <1>8, <2>1
  <2>3. expected[k - 1] \in Seq(Value) /\ values \in Seq(Value) /\ v(k) \in Seq(Value)
    BY <1>5, <1>7, <1>9, <2>1
  <2>4. expected[k] = expected[k - 1] \o values
    BY <1>9, <2>1
  <2> DEFINE e == expected[k - 1]
             w == v(k)
  <2> HIDE DEF values, e, w
  <2>5. (e \o values) \o w = e \o (values \o w)
    <3>1. e \in Seq(Value) /\ values \in Seq(Value) /\ w \in Seq(Value)
      BY <2>3 DEF e, w
    <3> QED
      BY <3>1, JoinAssociative
  <2> QED
    BY <1>11, <2>2, <2>4, <2>5 DEF e, w
<1> HIDE DEF Good
<1>12. Bad = {}
  <2> SUFFICES ASSUME Bad # {}
               PROVE  FALSE
    OBVIOUS
  <2>1. Bad \in SUBSET Nat
    OBVIOUS
  <2>2. PICK k \in Bad : \A j \in Bad : k <= j
    BY <2>1, Least
  <2>3. k \in 1..stop /\ k - 1 \in 0..stop /\ ~(k <= k - 1)
    <3>1. k # 0 /\ k \in 0..stop
      BY <1>10, <2>2
    <3>2. stop \in Nat
      BY <1>1, <1>6
    <3> QED
      BY <3>1, <3>2
  <2>4. Good(k - 1)
    BY <2>2, <2>3
  <2> QED
    BY <1>11, <2>2, <2>3, <2>4
<1>13. from[Len(s) + 1] = expected[stop] \o v(stop)
  <2>1. stop \in 0..stop
    BY <1>6
  <2> QED
    BY <1>12, <2>1 DEF Good
<1>14. CASE real
  <2>1. m \in 1..m /\ stop = m - 1 /\ m \in 1..n
    BY <1>1, <1>4, <1>14 DEF stop
  <2>2. v(stop) = pieces[m].values
    BY <1>8, <1>14, <2>1
  <2>3. expected[m] = expected[stop] \o pieces[m].values
    BY <1>9, <2>1
  <2> QED
    BY <1>3, <1>5, <1>13, <2>2, <2>3 DEF s
<1>15. CASE ~real
  <2>1. stop = n /\ stop = m
    BY <1>4, <1>15 DEF stop
  <2>2. v(n) = << >>
    <3>1. Len(s) + 1 - after[n] = 1 /\ 1 \in 0..(Len(s) + 1) /\ Len(s) \in Nat
      BY <1>1, <1>2, LenProperties
    <3>2. from[1] = NextValues(s, from, 1)
      BY <1>3, <3>1 DEF IsFrom
    <3>3. NextValues(s, from, 1) = << >>
      BY DEF NextValues
    <3> QED
      BY <3>1, <3>2, <3>3 DEF v
  <2>3. expected[m] \o << >> = expected[m]
    <3>1. expected[m] \in Seq(Value)
      BY <1>4, <1>5
    <3> QED
      BY <3>1, ConcatEmptySeq
  <2> QED
    BY <1>3, <1>5, <1>13, <2>1, <2>2, <2>3 DEF s
<1> QED
  BY <1>14, <1>15

----
\* The temporal facts the theorems rest on
LEMMA AlwaysConfigInv == Spec => []ConfigInv
<1>1. Init => ConfigInv
  BY ConfigInitially DEF Init
<1>2. ConfigInv /\ [Next]_vars => ConfigInv'
  BY ReportConfig, ConfigStep
<1> QED
  BY <1>1, <1>2, PTL DEF Spec

LEMMA AlwaysStatedInv == Spec => []StatedInv
<1>1. Init => StatedInv
  BY StatedInitially DEF Init
<1>2. ConfigInv /\ StatedInv /\ [Next]_vars => StatedInv'
  BY ReportConfig, StatedStep
<1> QED
  BY <1>1, <1>2, AlwaysConfigInv, PTL DEF Spec

LEMMA AlwaysTimesInv == Spec => []TimesInv
<1>1. Init => TimesInv
  BY TimesInitially DEF Init
<1>2. TimesInv /\ [Next]_vars => TimesInv'
  BY ReportTimes, TimesStep
<1> QED
  BY <1>1, <1>2, PTL DEF Spec

LEMMA AlwaysSummaryInv == Spec => [](TimesInv /\ TallyInv /\ SummaryInv)
<1>1. Init => TallyInv /\ SummaryInv
  BY SummaryInitially DEF Init
<1>2. TimesInv /\ TallyInv /\ SummaryInv /\ [Next]_vars => TallyInv' /\ SummaryInv'
  BY ReportTimes, TallyStep, SummaryStep
<1> QED
  BY <1>1, <1>2, AlwaysTimesInv, PTL DEF Spec

LEMMA AlwaysShownInv == Spec => []ShownInv
<1>1. Init => ShownInv
  BY ShownInitially
<1>2. ConfigInv /\ TimesInv /\ ShownInv /\ [Next]_vars => ShownInv'
  BY ShownStep
<1> QED
  BY <1>1, <1>2, AlwaysConfigInv, AlwaysTimesInv, PTL DEF Spec

LEMMA AlwaysTextsInv == Spec => [](ShownInv /\ TextsInv)
<1>1. Init => TextsInv
  BY TextsInitially
<1>2. TimesInv /\ ShownInv /\ TextsInv /\ [Next]_vars => TextsInv'
  BY TextsStep
<1> QED
  BY <1>1, <1>2, AlwaysTimesInv, AlwaysShownInv, PTL DEF Spec

----
(* The theorems.                                                           *)

\* Whatever lines the configuration files have, a prototype never shows more
\* arguments than it has, nor has more than fit arg_types: output_left and
\* output_right stay inside of it (read_config_file.c 125-153)
THEOREM PrototypesAreSound == Spec => []PrototypesSound
<1>1. ConfigInv => PrototypesSound
  BY DEF ConfigInv, IsPrototype, PrototypesSound
<1> QED
  BY <1>1, AlwaysConfigInv, PTL

\* Whatever other lines the files have, and for every MAX_ARGS: when they are
\* read, name2func finds what the last line that mentions the name states, its
\* return type, its arguments and the + among them (read_config_file.c 98-183,
\* output.c 103-124)
THEOREM LastStatementIsUsed == Spec => []LastStatementHolds
<1>1. StatedInv => LastStatementHolds
  <2> SUFFICES ASSUME StatedInv, reading = "closed", NEW d \in Stated, NEW k \in DOMAIN file,
                      Text(d) = file[k],
                      \A j \in (k + 1)..Len(file) : \A i \in DOMAIN file[j] : file[j][i] # d.name[1]
               PROVE  Name2Func(d.name[1]) = d
    BY DEF LastStatementHolds
  <2>1. k \in 1..Len(file)
    BY LenProperties DEF StatedInv, FileOK
  <2>2. LastLine(file, d, k)
    BY DEF LastLine, Word
  <2> QED
    BY <2>1, <2>2 DEF StatedInv, Settled, Word
<1> QED
  BY <1>1, AlwaysStatedInv, PTL

\* For every function, clock and number of calls, the entries of -c count the
\* returns and add up their times, and at most a full second is not carried
\* (output.c 230-255)
THEOREM TableOfTimesAddsUp == Spec => []TableAddsUp
<1>1. TimesInv => TableAddsUp
  BY DEF TimesInv, TableOK, Statistics, Sum, TableAddsUp
<1> QED
  BY <1>1, AlwaysTimesInv, PTL

\* The times of -r, added up, are the time of the last line (output.c 47-70)
THEOREM RelativeTimesAreRight == Spec => []RelativeTimesAddUp
<1>1. TimesInv => RelativeTimesAddUp
  BY DEF TimesInv, LinesOK
<1> QED
  BY <1>1, AlwaysTimesInv, PTL

\* For every clock, what -T shows of a return is the time since that call was
\* entered, and its microseconds are right even when calc_time_spent should
\* have borrowed a second (process_event.c 177-196)
THEOREM TimesAreShown == Spec => TimeShown
<1>1. TimesInv => [\A i \in DOMAIN callstack :
        TimedReturn(i) /\ opt_T =>
          /\ current_time_spent'.tv_usec = Elapsed(i) % UsecPerSec
          /\ now % UsecPerSec >= callstack[i].time_spent.tv_usec
               => Usecs(current_time_spent') = Elapsed(i)]_timesVars
  <2> SUFFICES ASSUME TimesInv, NEW i \in DOMAIN callstack, TimedReturn(i), opt_T
               PROVE  /\ current_time_spent'.tv_usec = Elapsed(i) % UsecPerSec
                      /\ now % UsecPerSec >= callstack[i].time_spent.tv_usec
                           => Usecs(current_time_spent') = Elapsed(i)
    OBVIOUS
  <2> DEFINE t == callstack[i].time_spent
  <2>1. t \in Time /\ now \in Nat
    <3>1. callstack[i] \in Frame
      BY LenProperties, ElementOfSeq DEF TimesInv
    <3> QED
      BY <3>1 DEF Frame, TimesInv
  <2>2. current_time_spent' = TimeSpent(t)
    BY DEF TimedReturn, Ended
  <2>3. Elapsed(i) = now - Usecs(t) /\ Usecs(t) \in Int
    BY <2>1, TimeType DEF Elapsed
  <2> HIDE DEF t
  <2>4. current_time_spent'.tv_usec = Elapsed(i) % UsecPerSec
    BY <2>1, <2>2, <2>3, MicrosecondsSpent
  <2>5. ASSUME now % UsecPerSec >= t.tv_usec
        PROVE  Usecs(current_time_spent') = Elapsed(i)
    <3>1. ~Borrows(t)
      <4>1. Gettimeofday.tv_usec = now % UsecPerSec
        BY DEF Gettimeofday, Timeval
      <4>2. now % UsecPerSec \in Int /\ t.tv_usec \in Int
        BY <2>1, TimeType, ClockAssumption
      <4> QED
        BY <2>5, <4>1, <4>2 DEF Borrows
    <3>2. Usecs(TimeSpent(t)) = now - Usecs(t) + 0
      BY <2>1, <3>1, TimeSpentIs
    <3> QED
      BY <2>1, <2>2, <2>3, <3>2
  <2> QED
    BY <2>4, <2>5 DEF t
<1> QED
  BY <1>1, AlwaysTimesInv, PTL DEF TimeShown

\* The summary is lost, in a division by zero, only when no call took any
\* time or the times do not fit a word, for every table (summary.c 67)
THEOREM SummaryIsLostOnlySo == Spec => []SummaryShown
<1>1. TimesInv /\ TallyInv /\ SummaryInv => SummaryShown
  <2> SUFFICES ASSUME TimesInv, TallyInv, SummaryInv, summary.state = "crashed",
                      ~(SumUsecs(DOMAIN dict_opt_c) >= WordSize), NEW n \in Name
               PROVE  spent[n] = 0
    BY DEF SummaryShown
  <2>1. opt_c /\ TotUsecs = 0
    BY DEF SummaryInv
  <2>2. /\ SumUsecs(DOMAIN dict_opt_c) = 0
        /\ \A m \in DOMAIN dict_opt_c : UsecsOf[m] <= SumUsecs(DOMAIN dict_opt_c)
    <3>1. SumUsecs(DOMAIN dict_opt_c) \in Nat
      BY <2>1, TotUsecsIs
    <3>2. SumUsecs(DOMAIN dict_opt_c) < WordSize
      BY <3>1, WordAssumption
    <3> QED
      BY <2>1, <3>2, TotUsecsIs
  <2>3. CASE n \in DOMAIN dict_opt_c
    <3>1. UsecsOf[n] <= 0 /\ UsecsOf[n] = spent[n] /\ UsecsOf[n] \in Nat
      BY <2>1, <2>2, <2>3, TableIs
    <3> QED
      BY <3>1
  <2>4. CASE n \notin DOMAIN dict_opt_c
    BY <2>1, <2>4, TableIs
  <2> QED
    BY <2>3, <2>4
<1> QED
  BY <1>1, AlwaysSummaryInv, PTL

\* For every table whose times fit an int, and whatever order qsort leaves
\* equal ones in, the summary has one row for each name called, the longest
\* first, and each share loses less than a thousandth of a percent
\* (summary.c 37-79)
THEOREM SummaryIsRight == Spec => []SummaryRight
<1>1. TimesInv /\ TallyInv /\ SummaryInv => SummaryRight
  <2> DEFINE rows == summary.rows
             D == DOMAIN dict_opt_c
             t == SumUsecs(D)
             n == Cardinality(D)
  <2> SUFFICES ASSUME TimesInv, TallyInv, SummaryInv, summary.state = "shown",
                      t < WordSize \div 2
               PROVE  /\ {rows[i].name : i \in DOMAIN rows} = {m \in Name : returns[m] > 0}
                      /\ \A i \in DOMAIN rows : Usecs(rows[i].tv) = spent[rows[i].name]
                      /\ \A i, j \in DOMAIN rows : i < j => Usecs(rows[i].tv) >= Usecs(rows[j].tv)
                      /\ rows # << >> => SharesUpTo(rows) \in (100000 - Len(rows) + 1)..100000
    BY DEF SummaryRight
  <2> HIDE DEF rows, D, t, n
  <2>1. opt_c /\ (TotUsecs # 0 \/ D = {})
    BY DEF SummaryInv, D
  <2>2. PICK order \in Sorted : rows = [i \in DOMAIN order |-> Row(order[i])]
    BY DEF SummaryInv, rows
  <2>3. /\ n \in Nat /\ order \in [1..n -> D]
        /\ \A i, j \in 1..n : i # j => order[i] # order[j]
        /\ \A i, j \in 1..n : i < j => Before(order[i], order[j])
        /\ {order[i] : i \in 1..n} = D
    BY SortedIs DEF TallyInv, n, D
  <2>4. /\ UsecsOf \in [D -> Nat] /\ UsecsOf \in [D -> Int]
        /\ \A m \in D : /\ m \in Name /\ UsecsOf[m] = spent[m]
                        /\ UsecsOf[m] = Usecs(dict_opt_c[m].tv)
                        /\ dict_opt_c[m] \in Statistics
        /\ \A m \in Name \ D : spent[m] = 0 /\ returns[m] = 0
    BY <2>1, TableIs DEF D
  <2>5. DOMAIN rows = 1..n /\ Len(rows) = n
    BY <2>2, <2>3
  <2>6. ASSUME NEW i \in 1..n
        PROVE  /\ order[i] \in D /\ rows[i].name = order[i]
               /\ rows[i].tv = dict_opt_c[order[i]].tv
               /\ rows[i].share = (100000 * UsecsOf[order[i]]) \div TotUsecs
    <3>1. order[i] \in D /\ rows[i] = Row(order[i])
      BY <2>2, <2>3
    <3> QED
      BY <2>1, <3>1, RowIs DEF D, t
  <2>7. {rows[i].name : i \in DOMAIN rows} = {m \in Name : returns[m] > 0}
    <3>1. {rows[i].name : i \in DOMAIN rows} = D
      BY <2>3, <2>5, <2>6
    <3>2. \A m \in D : m \in Name /\ returns[m] > 0
      BY <2>4 DEF TallyInv, D
    <3>3. \A m \in Name : returns[m] > 0 => m \in D
      BY <2>4
    <3> QED
      BY <3>1, <3>2, <3>3
  <2>8. \A i \in 1..n : Usecs(rows[i].tv) = spent[rows[i].name]
    BY <2>4, <2>6
  <2>9. ASSUME NEW i \in 1..n, NEW j \in 1..n, i < j
        PROVE  Usecs(rows[i].tv) >= Usecs(rows[j].tv)
    <3>1. Before(order[i], order[j]) /\ order[i] \in D /\ order[j] \in D
      BY <2>3, <2>9
    <3>2. dict_opt_c[order[i]].tv \in Sum /\ dict_opt_c[order[j]].tv \in Sum
      BY <2>4, <3>1 DEF Statistics
    <3>3. Usecs(dict_opt_c[order[i]].tv) >= Usecs(dict_opt_c[order[j]].tv)
      BY <3>1, <3>2, LongerFirst DEF Before
    <3> QED
      BY <2>6, <3>3
  <2>10. ASSUME rows # << >>
         PROVE  SharesUpTo(rows) \in (100000 - Len(rows) + 1)..100000
    <3> DEFINE c == [k \in 1..n |-> UsecsOf[order[k]]]
               q == [k \in 1..n |-> rows[k].share]
    <3>1. n # 0
      BY <2>2, <2>3, <2>10
    <3>2. D # {}
      BY <2>3, <3>1
    <3>3. t = TotUsecs /\ t \in Nat
      <4>1. t \in Nat /\ (t < WordSize => TotUsecs = t)
        BY <2>1, TotUsecsIs DEF t, D
      <4>2. WordSize \div 2 \in Int /\ WordSize \div 2 < WordSize /\ WordSize \in Int
        BY WordAssumption
      <4>3. t < WordSize
        BY <4>1, <4>2
      <4> QED
        BY <4>1, <4>3
    <3>4. t # 0
      BY <2>1, <3>2, <3>3
    <3>5. PICK f : IsSum(D, UsecsOf, f) /\ f[D] = t
      BY <2>1, TotUsecsIs DEF t, D
    <3>6. PICK C : RunningSum(n, c, C) /\ C[n] = t
      <4>1. Lists(n, order, D)
        BY <2>3 DEF Lists
      <4>2. n \in Nat /\ UsecsOf \in [D -> Int]
        BY <2>3, <2>4
      <4>3. Along(n, UsecsOf, order, c)
        BY DEF Along
      <4> HIDE DEF c
      <4> QED
        BY <3>5, <4>1, <4>2, <4>3, RowsAddUp
    <3>7. ASSUME NEW k \in 1..n
          PROVE  c[k] \in Nat /\ IsShare(t, c[k], q[k])
      <4> DEFINE ck == c[k]
                 qk == q[k]
      <4>1. ck \in Nat /\ qk = (100000 * ck) \div t
        BY <2>4, <2>6, <3>3
      <4> HIDE DEF c, q, ck, qk
      <4>2. IsShare(t, ck, qk)
        BY <3>3, <3>4, <4>1, ShareIs
      <4> QED
        BY <4>1, <4>2 DEF ck, qk
    <3>8. PICK R : SharesUpTo(rows) = R[n] /\ RunningSum(n, q, R)
      <4>1. \A k \in 1..n : rows[k].share \in Int
        BY <3>7 DEF IsShare
      <4> QED
        BY <2>3, <2>5, <4>1, SharesUpToIs
    <3>9. c \in [1..n -> Nat]
      BY <3>7
    <3> HIDE DEF c, q
    <3>10. Shares(n, t, c, q)
      BY <3>7 DEF Shares
    <3>11. R[n] \in (100000 - n + 1)..100000
      BY <2>3, <3>1, <3>3, <3>4, <3>6, <3>8, <3>9, <3>10, SharesAddUp
    <3> QED
      BY <2>5, <3>8, <3>11
  <2> QED
    BY <2>5, <2>7, <2>8, <2>9, <2>10 DEF rows
<1> QED
  BY <1>1, AlwaysSummaryInv, PTL

\* For every prototype and every order of calls, an argument shown at the
\* entry of a call is of that call, and so is one shown on return when no
\* other call was entered in between (process_event.c 292, output.c 215-220,
\* 285-290)
THEOREM ArgumentsAreOwn == Spec => []OwnArgs
<1>1. ConfigInv /\ ShownInv => OwnArgs
  <2> SUFFICES ASSUME ShownInv, NEW c \in DOMAIN shown, NEW i \in DOMAIN shown[c].args,
                      \/ ~(Known(shown[c].func)
                             /\ i > num_params(shown[c].func) - shown[c].func.params_right)
                      \/ shown[c].ended = c
               PROVE  shown[c].args[i].from = c
    BY DEF OwnArgs
  <2> DEFINE call == shown[c]
             f == shown[c].func
             n == IF shown[c].ended = 0 THEN Left(f) ELSE All(f)
  <2>1. IsCall(call, c)
    BY DEF ShownInv, IsList
  <2>2. ~opt_c
    BY <2>1 DEF IsCall
  <2>3. /\ i \in 1..n
        /\ call.args[i].from = IF i <= Left(f) THEN c ELSE call.ended
    BY <2>1, <2>2 DEF IsCall, ArgsShown, IsList
  <2>4. /\ Left(f) \in Nat /\ All(f) \in Nat /\ Left(f) <= All(f)
        /\ num_params(f) \in Nat /\ f.params_right \in Nat
    BY <2>1, Counts DEF IsCall
  <2>5. CASE Known(f)
    BY <2>3, <2>4, <2>5 DEF Left
  <2>6. CASE ~Known(f)
    <3>1. n = 5 /\ Left(f) = 5
      BY <2>6 DEF Left, All
    <3> QED
      BY <2>3, <2>6, <3>1
  <2> QED
    BY <2>5, <2>6
<1> QED
  BY <1>1, AlwaysConfigInv, AlwaysShownInv, PTL

\* For every prototype, wherever the + is, the two halves of a call show its
\* arguments in order and each once (output.c 199-222, 278-291)
THEOREM EachArgumentOnce == Spec => []EachArgOnce
<1>1. ShownInv => EachArgOnce
  <2> SUFFICES ASSUME ShownInv, NEW c \in DOMAIN shown, ~opt_c
               PROVE  /\ \A i \in DOMAIN shown[c].args : shown[c].args[i].arg = i - 1
                      /\ shown[c].ended > 0 /\ Known(shown[c].func)
                           => Len(shown[c].args) = num_params(shown[c].func)
    BY DEF EachArgOnce
  <2> DEFINE f == shown[c].func
             n == IF shown[c].ended = 0 THEN Left(f) ELSE All(f)
  <2>1. IsCall(shown[c], c)
    BY DEF ShownInv, IsList
  <2>2. IsList(shown[c].args, n) /\ \A i \in 1..n : shown[c].args[i].arg = i - 1
    BY <2>1 DEF IsCall, ArgsShown
  <2>3. \A i \in DOMAIN shown[c].args : shown[c].args[i].arg = i - 1
    BY <2>2 DEF IsList
  <2>4. ASSUME shown[c].ended > 0, Known(f)
        PROVE  Len(shown[c].args) = num_params(f)
    <3>1. n = num_params(f) /\ num_params(f) \in Nat
      BY <2>1, <2>4, Counts DEF All, IsCall
    <3> DEFINE S == {shown[c].args[i] : i \in 1..n}
    <3>2. \A i \in 1..n : shown[c].args[i] \in S
      OBVIOUS
    <3> HIDE DEF S, n, f
    <3> QED
      BY <2>2, <3>1, <3>2, ListIsSeq
  <2> QED
    BY <2>3, <2>4
<1> QED
  BY <1>1, AlwaysShownInv, PTL

\* Whatever is in the memory of the program and however long it may be, a
\* text is shown from its beginning up to -s and up to its length, and the
\* dots say that there is more of it (display_args.c 85-127,
\* sysdeps/linux-gnu/trace.c 175-195)
THEOREM TextsAreShown == Spec => []TextsShown
<1>1. TextsInv => TextsShown
  <2> SUFFICES ASSUME TextsInv,
                      NEW c \in DOMAIN shown, NEW i \in DOMAIN shown[c].args,
                      shown[c].args[i].what.why = "text"
               PROVE  LET arg == shown[c].args[i]
                          limit == IF arg.at = "string" THEN opt_s
                                   ELSE Smaller(opt_s, arg.length)
                          text == arg.what.chars
                      IN /\ text = SubSeq(theText, 1, Len(text))
                         /\ \/ Len(text) = Len(theText)
                            \/ Len(text) = limit
                            \/ limit < 0 /\ text = << >>
                         /\ arg.at = "string" => (arg.what.dots <=> Len(theText) > opt_s)
    BY DEF TextsShown
  <2> DEFINE arg == shown[c].args[i]
  <2>1. arg.length \in Int /\ arg.what = Displayed(arg.at, arg.length) /\ arg.what.why = "text"
    BY DEF TextsInv, ShowsText, What, Null
  <2>2. /\ theText \in Seq(STRING) /\ opt_s \in Int /\ Unlimited \in Int
        /\ 0 <= opt_s /\ opt_s <= Unlimited
    <3>1. theText \in Seq(STRING)
      BY TheTextIs
    <3>2. opt_s \in Int /\ Unlimited \in Int /\ 0 <= opt_s /\ opt_s <= Unlimited
      BY DEF TextsInv, Unlimited
    <3> QED
      BY <3>1, <3>2
  <2> SUFFICES /\ arg.what.chars = SubSeq(theText, 1, Len(arg.what.chars))
               /\ LET limit == IF arg.at = "string" THEN opt_s
                               ELSE Smaller(opt_s, arg.length)
                  IN \/ Len(arg.what.chars) = Len(theText)
                     \/ Len(arg.what.chars) = limit
                     \/ limit < 0 /\ arg.what.chars = << >>
               /\ arg.at = "string" => (arg.what.dots <=> Len(theText) > opt_s)
    OBVIOUS
  <2> HIDE DEF arg
  <2>3. CASE arg.at = "string"
    <3>1. arg.what = DisplayString(theText, opt_s, Unlimited)
      <4>1. arg.at \notin LengthType /\ arg.at # "format"
        BY <2>3 DEF LengthType
      <4> QED
        BY <2>1, <2>3, <4>1 DEF Displayed
    <3>2. Smaller(opt_s, Unlimited) = opt_s
      BY <2>2 DEF Smaller
    <3>3. IsBeginning(arg.what, theText, opt_s, Unlimited)
      BY <2>1, <2>2, <3>1, StringIs
    <3> QED
      BY <2>2, <2>3, <3>2, <3>3 DEF IsBeginning
  <2>4. CASE arg.at \in LengthType
    <3>1. arg.at # "string" /\ arg.at # "format"
      BY <2>4 DEF LengthType, TextType
    <3>2. arg.what = DisplayString(theText, opt_s, arg.length)
      BY <2>1, <2>4, <3>1 DEF Displayed
    <3>3. IsBeginning(arg.what, theText, opt_s, arg.length)
      BY <2>1, <2>2, <3>2, StringIs
    <3> QED
      BY <3>1, <3>3 DEF IsBeginning
  <2>5. CASE arg.at \notin LengthType /\ arg.at # "string"
    <3>1. \/ arg.what = DisplayFormat(theText, opt_s)
          \/ arg.what = [why |-> "value"]
      BY <2>1, <2>5 DEF Displayed
    <3>2. DisplayFormat(theText, opt_s).why = "format"
      BY DEF DisplayFormat
    <3> QED
      BY <2>1, <3>1, <3>2
  <2> QED
    BY <2>3, <2>4, <2>5
<1> QED
  BY <1>1, AlwaysTextsInv, PTL

\* Whatever format is in the memory of the program, of characters and of the
\* conversions display_format knows: as long as umovestr reads all of it, an
\* argument is shown for each one that printf takes, up to the first real
\* (display_args.c 170-207)
THEOREM FormatsAreShown == Spec => []FormatsShown
<1>1. TextsInv => FormatsShown
  <2> SUFFICES ASSUME TextsInv,
                      NEW c \in DOMAIN shown, NEW i \in DOMAIN shown[c].args,
                      shown[c].args[i].what.why = "format",
                      Len(theText) <= opt_s + 1,
                      \A k \in DOMAIN pieces : pieces[k].values # Beyond
               PROVE  shown[c].args[i].what.values = expectedValues
    BY DEF FormatsShown
  <2> DEFINE arg == shown[c].args[i]
  <2>1. arg.what = Displayed(arg.at, arg.length) /\ arg.what.why = "format"
    BY DEF TextsInv, ShowsText, What, Null
  <2>2. FormatValues(theText) = expectedValues
    BY FormatIs
  <2> SUFFICES arg.what.values = expectedValues
    OBVIOUS
  <2> HIDE DEF arg
  <2>3. arg.what = DisplayFormat(theText, opt_s)
    <3>1. \A s, max : DisplayString(theText, s, max).why # "format"
      BY DEF DisplayString, NotShown
    <3>2. [why |-> "value"].why # "format"
      OBVIOUS
    <3>3. CASE arg.at = "string"
      <4>1. arg.at \notin LengthType /\ arg.at # "format"
        BY <3>3 DEF LengthType
      <4> QED
        BY <2>1, <3>1, <3>3, <4>1 DEF Displayed
    <3>4. CASE arg.at \in LengthType
      <4>1. arg.at # "string" /\ arg.at # "format"
        BY <3>4 DEF LengthType, TextType
      <4> QED
        BY <2>1, <3>1, <3>4, <4>1 DEF Displayed
    <3>5. CASE arg.at = "format"
      <4>1. arg.at # "string" /\ arg.at \notin LengthType
        BY <3>5 DEF LengthType
      <4> QED
        BY <2>1, <3>5, <4>1 DEF Displayed
    <3>6. CASE arg.at \notin LengthType /\ arg.at # "string" /\ arg.at # "format"
      BY <2>1, <3>2, <3>6 DEF Displayed
    <3> QED
      BY <3>3, <3>4, <3>5, <3>6
  <2>4. Umovestr(theText, opt_s + 1) = theText
    <3> DEFINE l == Len(theText)
    <3>1. theText \in Seq(STRING) /\ opt_s \in Nat
      <4>1. theText \in Seq(STRING)
        BY TheTextIs
      <4>2. opt_s \in Nat
        BY LimitType
      <4> QED
        BY <4>1, <4>2
    <3>2. l \in Nat /\ l <= opt_s + 1
      BY <3>1, LenProperties
    <3> HIDE DEF l
    <3>3. Smaller(l, opt_s + 1) = l
      BY <3>1, <3>2 DEF Smaller
    <3>4. SubSeq(theText, 1, l) = theText
      BY <3>1, WholeIs DEF l
    <3> QED
      BY <3>3, <3>4 DEF Umovestr, l
  <2>5. DisplayFormat(theText, opt_s).values = FormatValues(Umovestr(theText, opt_s + 1))
    BY DEF DisplayFormat
  <2> QED
    BY <2>2, <2>3, <2>4, <2>5
<1> QED
  BY <1>1, AlwaysTextsInv, PTL

====
