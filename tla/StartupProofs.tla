---- MODULE StartupProofs ----
(***************************************************************************)
(* The list of processes, from the command line to the end, for any number *)
(* of processes that pid2tgid can remember, of options and of directories: *)
(* who can send an event and is not on it, and why nobody who outlives an  *)
(* ordinary exit keeps a breakpoint.                                       *)
(***************************************************************************)
EXTENDS Startup, SequenceTheorems, FiniteSetTheorems, WellFoundedInduction, TLAPS

----
(* The invariant.                                                          *)

Early == {"options", "open", "fork"}
BeforeLoop == Early \cup {"attach", "name"}
Loop == {"loop", "disabled", "untraced", "removed"}
States ==
  {"unborn", "run", "stop", "other", "zombie", "dead", "free", "halted", "killed"}
TracedStates == {"run", "stop", "other", "zombie"}
FreeStates == {"free", "halted"}

Members(L) == {L[i] : i \in 1..Len(L)}
Distinct(L) == \A i, j \in 1..Len(L) : i # j => L[i] # L[j]

Types ==
  /\ opt_p \in Seq(Proc) /\ list_of_processes \in Seq(Proc)
  /\ enabled \in [Proc -> {-1, 0, 1}]
  /\ exiting \in BOOLEAN /\ alarm \in BOOLEAN /\ missed \in BOOLEAN
  /\ unnamed \subseteq Proc
  /\ at \in BeforeLoop \cup Loop \cup {"exited", "failed", "crashed"}
  /\ cur \in Proc \cup {NoProc}
  /\ state \in [Proc -> States]
  /\ sigstop \in [Proc -> BOOLEAN]
  /\ opt_p_tmp \in Nat /\ opt_p_tmp >= 1

\* Nobody is traced before the fork
EarlyInv ==
  /\ at \in {"options", "open"} => list_of_processes = << >>
  /\ at = "fork" => list_of_processes = <<Command>>
  /\ at \in Early => /\ state[Command] = "unborn"
                     /\ \A p \in Proc : state[p] \notin TracedStates

\* Whoever is listed during the start is not to be had for another attach
StartingInv ==
  at \in BeforeLoop =>
    \A p \in Proc : enabled[p] = -1 /\ (p \in Listed => state[p] \notin FreeStates)

\* Why an event of p finds its process, or does not
LetGone(p) == enabled[p] = 0 /\ state[p] \notin Living
SomeDisplacer == \E q \in Proc : Displacer(q)
Accounted(p) == p \in Listed \cup unnamed \/ LetGone(p) \/ SomeDisplacer

ListInv ==
  /\ Distinct(list_of_processes)
  /\ at = "attach" => Traced \subseteq Listed \cup unnamed
  /\ at \in Loop => \A p \in Traced : Accounted(p)

\* Between PTRACE_ATTACH and open_pid's last line
NameInv ==
  at = "name" =>
    /\ opt_p_tmp <= Len(opt_p)
    /\ Opening \in Traced \ Listed
    /\ Traced \subseteq Listed \cup unnamed \cup {Opening}

\* Between the steps of letting cur go
LetGoInv ==
  /\ at \in {"disabled", "untraced"} => cur \in Listed /\ enabled[cur] = 0
  /\ at = "disabled" => cur \in Traced
  /\ at = "untraced" => state[cur] \notin Living

\* Who runs on his own has no breakpoint, and a command was let go
FreeInv ==
  \A p \in Proc : state[p] \in FreeStates => enabled[p] # 1 /\ (p = Command => enabled[p] = 0)

UnnamedInv == \A p \in unnamed : state[p] \in {"zombie", "dead"}

Inv ==
  /\ Types /\ EarlyInv /\ StartingInv /\ ListInv /\ NameInv /\ LetGoInv /\ FreeInv
  /\ UnnamedInv /\ LeavesNoInt3

----
(* Lists.                                                                  *)

LEMMA OpeningIs ==
  ASSUME Types, opt_p_tmp <= Len(opt_p)
  PROVE  Opening \in Proc
<1>1. opt_p_tmp \in 1..Len(opt_p)
  BY LenProperties DEF Types
<1> QED
  BY <1>1, ElementOfSeq DEF Types, Opening

LEMMA ListedIs == Types => Listed \subseteq Proc /\ Listed = Members(list_of_processes)
BY ElementOfSeq DEF Types, Listed, Members

\* A process that is not listed becomes the head.
LEMMA ListingIs ==
  ASSUME NEW L \in Seq(Proc), Distinct(L), NEW p \in Proc, p \notin Members(L)
  PROVE  /\ <<p>> \o L \in Seq(Proc)
         /\ Distinct(<<p>> \o L)
         /\ Members(<<p>> \o L) = Members(L) \cup {p}
<1> DEFINE new == <<p>> \o L
           n == Len(L)
<1>1. <<p>> \in Seq(Proc) /\ Len(<<p>>) = 1 /\ <<p>>[1] = p /\ n \in Nat
  BY LenProperties
<1>2. /\ new \in Seq(Proc) /\ Len(new) = n + 1
      /\ \A i \in 1..(n + 1) : new[i] = IF i <= 1 THEN <<p>>[i] ELSE L[i - 1]
  BY <1>1, ConcatProperties
<1>3. new[1] = p /\ \A i \in 2..(n + 1) : i - 1 \in 1..n /\ new[i] = L[i - 1]
  <2>1. new[1] = p
    BY <1>1, <1>2
  <2>2. ASSUME NEW i \in 2..(n + 1)
        PROVE  i - 1 \in 1..n /\ new[i] = L[i - 1]
    <3>1. i \in 1..(n + 1) /\ ~(i <= 1) /\ i - 1 \in 1..n
      BY <1>1
    <3> QED
      BY <1>2, <3>1
  <2> QED
    BY <2>1, <2>2
<1> HIDE DEF new
<1>4. \A i \in 1..(n + 1) : i = 1 \/ i \in 2..(n + 1)
  BY <1>1
<1>5. \A i \in 1..n : i + 1 \in 2..(n + 1) /\ i + 1 \in 1..(n + 1) /\ (i + 1) - 1 = i
  BY <1>1
<1>6. Members(new) = Members(L) \cup {p}
  <2>1. \A i \in 1..(n + 1) : new[i] \in Members(L) \cup {p}
    BY <1>3, <1>4 DEF Members
  <2>2. \A i \in 1..n : L[i] = new[i + 1]
    BY <1>3, <1>5
  <2>3. \A i \in 1..n : L[i] \in Members(new)
    BY <1>2, <1>5, <2>2 DEF Members
  <2>4. p \in Members(new)
    <3>1. 1 \in 1..Len(new)
      BY <1>1, <1>2
    <3> QED
      BY <1>3, <3>1 DEF Members
  <2> QED
    BY <1>2, <2>1, <2>3, <2>4 DEF Members
<1>7. Distinct(new)
  <2>1. ASSUME NEW i \in 1..(n + 1), NEW j \in 1..(n + 1), i # j
        PROVE  new[i] # new[j]
    <3>1. \A k \in 1..n : L[k] # p
      BY DEF Members
    <3>2. CASE i = 1
      BY <1>3, <1>4, <2>1, <3>1, <3>2
    <3>3. CASE j = 1
      BY <1>3, <1>4, <2>1, <3>1, <3>3
    <3>4. CASE i # 1 /\ j # 1
      <4>1. /\ i - 1 \in 1..n /\ new[i] = L[i - 1]
            /\ j - 1 \in 1..n /\ new[j] = L[j - 1]
        BY <1>3, <1>4, <3>4
      <4>2. i - 1 # j - 1
        BY <2>1
      <4> QED
        BY <4>1, <4>2 DEF Distinct
    <3> QED
      BY <3>2, <3>3, <3>4
  <2> QED
    BY <1>2, <2>1 DEF Distinct
<1> QED
  BY <1>2, <1>6, <1>7 DEF new

\* remove_proc takes one entry out.
LEMMA WithoutIs ==
  ASSUME Types, Distinct(list_of_processes), NEW p \in Listed
  PROVE  /\ Without(p) \in Seq(Proc)
         /\ Distinct(Without(p))
         /\ Members(Without(p)) = Listed \ {p}
<1> DEFINE L == list_of_processes
           n == Len(L)
           k == CHOOSE i \in 1..n : L[i] = p
           before == SubSeq(L, 1, k - 1)
           after == SubSeq(L, k + 1, n)
           new == before \o after
<1>1. Without(p) = new
  BY DEF Without
<1>2. L \in Seq(Proc) /\ n \in Nat /\ \A i \in 1..n : L[i] \in Proc
  BY LenProperties, ElementOfSeq DEF Types
<1>3. k \in 1..n /\ L[k] = p
  BY DEF Listed
<1> HIDE DEF k
<1>4. /\ before \in Seq(Proc) /\ Len(before) = k - 1
      /\ \A i \in 1..(k - 1) : before[i] = L[i]
  <2>1. /\ 1 \in Int /\ k - 1 \in Int /\ \A i \in 1..(k - 1) : L[i] \in Proc
        /\ (k - 1) - 1 + 1 = k - 1 /\ (~(1 <= k - 1) => k - 1 = 0)
        /\ \A i \in 1..(k - 1) : 1 + i - 1 = i
    BY <1>2, <1>3
  <2> QED
    BY <2>1, SubSeqProperties
<1>5. /\ after \in Seq(Proc) /\ Len(after) = n - k
      /\ \A i \in 1..(n - k) : after[i] = L[k + i]
  <2>1. /\ k + 1 \in Int /\ n \in Int /\ \A i \in (k + 1)..n : L[i] \in Proc
        /\ n - (k + 1) + 1 = n - k /\ (~(k + 1 <= n) => n - k = 0)
        /\ \A i \in 1..(n - k) : (k + 1) + i - 1 = k + i
    BY <1>2, <1>3
  <2> QED
    BY <2>1, SubSeqProperties
<1> HIDE DEF before, after
<1>6. /\ new \in Seq(Proc) /\ Len(new) = n - 1
      /\ \A i \in 1..(n - 1) : new[i] = IF i < k THEN L[i] ELSE L[i + 1]
  <2>1. /\ new \in Seq(Proc) /\ Len(new) = (k - 1) + (n - k)
        /\ \A i \in 1..((k - 1) + (n - k)) :
             new[i] = IF i <= k - 1 THEN before[i] ELSE after[i - (k - 1)]
    <3>1. /\ new \in Seq(Proc) /\ Len(new) = Len(before) + Len(after)
          /\ \A i \in 1..(Len(before) + Len(after)) :
               new[i] = IF i <= Len(before) THEN before[i] ELSE after[i - Len(before)]
      BY <1>4, <1>5, ConcatProperties
    <3> HIDE DEF new
    <3> QED
      BY <1>4, <1>5, <3>1
  <2>2. (k - 1) + (n - k) = n - 1
    BY <1>2, <1>3
  <2>3. ASSUME NEW i \in 1..(n - 1)
        PROVE  new[i] = IF i < k THEN L[i] ELSE L[i + 1]
    <3>1. CASE i < k
      <4>1. i <= k - 1 /\ i \in 1..(k - 1)
        BY <1>2, <1>3, <3>1
      <4> QED
        BY <1>4, <2>1, <2>2, <3>1, <4>1
    <3>2. CASE ~(i < k)
      <4>1. ~(i <= k - 1) /\ i - (k - 1) \in 1..(n - k) /\ k + (i - (k - 1)) = i + 1
        BY <1>2, <1>3, <3>2
      <4> QED
        BY <1>5, <2>1, <2>2, <3>2, <4>1
    <3> QED
      BY <3>1, <3>2
  <2> QED
    BY <2>1, <2>2, <2>3
<1> HIDE DEF new
<1>7. ASSUME NEW i \in 1..(n - 1)
      PROVE  \E j \in 1..n : j # k /\ new[i] = L[j] /\ j = IF i < k THEN i ELSE i + 1
  <2>1. CASE i < k
    <3>1. i \in 1..n /\ i # k
      BY <1>2, <1>3, <2>1
    <3> QED
      BY <1>6, <2>1, <3>1
  <2>2. CASE ~(i < k)
    <3>1. i + 1 \in 1..n /\ i + 1 # k
      BY <1>2, <1>3, <2>2
    <3> QED
      BY <1>6, <2>2, <3>1
  <2> QED
    BY <2>1, <2>2
<1>8. ASSUME NEW j \in 1..n, j # k
      PROVE  \E i \in 1..(n - 1) : new[i] = L[j]
  <2>1. CASE j < k
    <3>1. j \in 1..(n - 1)
      BY <1>2, <1>3, <2>1
    <3> QED
      BY <1>6, <2>1, <3>1
  <2>2. CASE ~(j < k)
    <3>1. j - 1 \in 1..(n - 1) /\ ~(j - 1 < k) /\ (j - 1) + 1 = j
      BY <1>2, <1>3, <1>8, <2>2
    <3> QED
      BY <1>6, <3>1
  <2> QED
    BY <2>1, <2>2
<1>9. Members(new) = Listed \ {p}
  <2>1. \A j \in 1..n : j # k => L[j] # p
    BY <1>3 DEF Distinct
  <2>2. \A i \in 1..(n - 1) : new[i] \in Listed \ {p}
    BY <1>7, <2>1 DEF Listed
  <2>3. \A j \in 1..n : L[j] # p => L[j] \in {new[i] : i \in 1..(n - 1)}
    BY <1>3, <1>8
  <2> QED
    BY <1>6, <2>2, <2>3 DEF Listed, Members
<1>10. Distinct(new)
  <2>1. ASSUME NEW i \in 1..(n - 1), NEW j \in 1..(n - 1), i # j
        PROVE  new[i] # new[j]
    <3>1. PICK a \in 1..n : new[i] = L[a] /\ a = IF i < k THEN i ELSE i + 1
      BY <1>7
    <3>2. PICK b \in 1..n : new[j] = L[b] /\ b = IF j < k THEN j ELSE j + 1
      BY <1>7
    <3>3. a # b
      BY <1>2, <1>3, <2>1, <3>1, <3>2
    <3> QED
      BY <3>1, <3>2, <3>3 DEF Distinct
  <2> QED
    BY <1>6, <2>1 DEF Distinct
<1> QED
  BY <1>1, <1>6, <1>9, <1>10

----
(* The processes, and the signal handlers of utrace.                       *)

\* What may happen to p behind utrace's back
Moves(p) ==
  \/ state'[p] = state[p]
  \/ state[p] \in Living /\ state'[p] \in {"stop", "other", "zombie"}
  \/ state[p] \in FreeStates /\ state'[p] = "halted"
  \/ state[p] \in FreeStates /\ state'[p] = IF p = Command THEN "zombie" ELSE "dead"
  \/ UtraceGone /\ state[p] \in Living /\ state'[p] = "killed"

LeavesList ==
  UNCHANGED <<opt_p, list_of_processes, enabled, unnamed, at, cur, opt_p_tmp>>

\* Nothing of it disturbs the invariant.
LEMMA MovesKeep ==
  ASSUME Inv, LeavesList, \A p \in Proc : Moves(p), Types'
  PROVE  Inv'
<1>1. ASSUME NEW p \in Proc
      PROVE  /\ state'[p] \in TracedStates => state[p] \in TracedStates
                                               \/ (p = Command /\ state[p] \in FreeStates)
             /\ state'[p] \in FreeStates => state[p] \in FreeStates
             /\ ~UtraceGone /\ state[p] \in TracedStates => state'[p] \in TracedStates
             /\ state[p] = "unborn" => state'[p] = "unborn"
             /\ state[p] = "dead" => state'[p] = "dead"
             /\ state[p] \in {"zombie", "dead"} => state'[p] \in {"zombie", "dead"}
             /\ state'[p] \in Living => state[p] \in Living
             /\ state'[p] \in Living \cup Detached => state[p] \in Living \cup Detached
  BY DEF Moves, TracedStates, FreeStates, Living, Detached
<1>2. at \in BeforeLoop \cup Loop => ~UtraceGone
  BY DEF UtraceGone, BeforeLoop, Early, Loop
<1>3. /\ at' = at /\ enabled' = enabled /\ unnamed' = unnamed /\ cur' = cur
      /\ list_of_processes' = list_of_processes /\ Listed' = Listed /\ Opening' = Opening
      /\ opt_p_tmp' = opt_p_tmp /\ opt_p' = opt_p
  BY DEF LeavesList, Listed, Opening
<1>4. /\ \A p \in Traced' : p \in Traced \/ (p = Command /\ state[p] \in FreeStates)
      /\ at \in BeforeLoop \cup Loop => Traced \subseteq Traced'
  BY <1>1, <1>2 DEF Traced, TracedStates, Living
<1>5. ASSUME NEW p \in Proc, p = Command, state[p] \in FreeStates
      PROVE  enabled[p] = 0 /\ at \notin BeforeLoop
  BY <1>5 DEF Inv, FreeInv, StartingInv
<1>6. at \in BeforeLoop => Traced' = Traced
  BY <1>4, <1>5 DEF Traced
<1>7. EarlyInv'
  <2>1. at \in Early => at \in BeforeLoop
    BY DEF BeforeLoop
  <2>2. \A p \in Proc : p \in Traced <=> state[p] \in TracedStates
    BY DEF Traced, TracedStates, Living
  <2>3. \A p \in Proc : p \in Traced' <=> state'[p] \in TracedStates
    BY DEF Traced, TracedStates, Living
  <2>4. at \in Early => \A p \in Proc : state'[p] \notin TracedStates
    BY <1>6, <2>1, <2>2, <2>3 DEF EarlyInv, Inv
  <2> QED
    BY <1>1, <1>3, <2>4, ProcAssumption DEF EarlyInv, Inv
<1>8. StartingInv'
  BY <1>1, <1>3 DEF StartingInv, Inv
<1>9. \A p \in Proc : Displacer(p) => Displacer(p)'
  BY <1>1, <1>3 DEF Displacer
<1>10. ListInv'
  <2>1. Distinct(list_of_processes') /\ (at = "attach" => Traced' \subseteq Listed \cup unnamed)
    BY <1>3, <1>6 DEF ListInv, Inv, Distinct, BeforeLoop
  <2>2. ASSUME at \in Loop, NEW p \in Traced'
        PROVE  Accounted(p)'
    <3>1. p \in Proc /\ state'[p] \in TracedStates
      BY DEF Traced, TracedStates, Living
    <3>2. CASE p \in Traced
      <4>1. Accounted(p)
        BY <2>2, <3>2 DEF ListInv, Inv
      <4>2. LetGone(p) => LetGone(p)'
        BY <1>1, <1>3, <3>1 DEF LetGone
      <4> QED
        BY <1>3, <1>9, <4>1, <4>2 DEF Accounted, SomeDisplacer
    <3>3. CASE p \notin Traced
      <4>1. enabled[p] = 0 /\ state[p] \in FreeStates
        BY <1>4, <1>5, <3>1, <3>3
      <4>2. state[p] \notin Living
        BY <4>1 DEF FreeStates, Living
      <4> QED
        BY <1>1, <1>3, <3>1, <4>1, <4>2 DEF Accounted, LetGone
    <3> QED
      BY <3>2, <3>3
  <2> QED
    BY <1>3, <2>1, <2>2 DEF ListInv
<1>11. NameInv'
  BY <1>3, <1>6 DEF NameInv, Inv, BeforeLoop
<1>12. LetGoInv'
  <2>1. at \in {"disabled", "untraced"} => cur \in Proc
    BY ListedIs DEF Inv, LetGoInv
  <2> QED
    BY <1>1, <1>3, <1>4, <2>1 DEF LetGoInv, Inv, Loop
<1>13. FreeInv'
  BY <1>1, <1>3 DEF FreeInv, Inv
<1>14. UnnamedInv'
  BY <1>1, <1>3 DEF UnnamedInv, Inv, Types
<1>15. LeavesNoInt3'
  <2>1. (\E q \in unnamed : Displacer(q)) => \E q \in unnamed' : Displacer(q)'
    BY <1>3, <1>9 DEF Inv, Types
  <2> QED
    BY <1>1, <1>3, <2>1 DEF LeavesNoInt3, Planted, Inv
<1> QED
  BY <1>7, <1>8, <1>10, <1>11, <1>12, <1>13, <1>14, <1>15 DEF Inv

\* Of a single process
LEMMA BecomesIs ==
  ASSUME Types, NEW p \in Proc, NEW s \in States, Becomes(p, s)
  PROVE  /\ state' \in [Proc -> States]
         /\ state'[p] = s
         /\ \A q \in Proc : q # p => state'[q] = state[q]
BY DEF Types, Becomes

\* The ways to s
Goes(p, s) ==
  CASE s = "killed" -> UtraceGone /\ state[p] \in Living
    [] s = "dead" -> p # Command /\ state[p] \in FreeStates
    [] s = "zombie" -> state[p] \in Living \/ (p = Command /\ state[p] \in FreeStates)
    [] OTHER -> state[p] = "run"

LEMMA EnvironmentStep ==
  ASSUME Inv, UNCHANGED startVars, Environment \/ SignalExit \/ SignalAlarm
  PROVE  Inv'
<1>1. Types
  BY DEF Inv
<1>2. ASSUME NEW p \in Proc, TakeStop(p) \/ Other(p) \/ Die(p) \/ Killed(p)
      PROVE  Inv'
  <2>1. UNCHANGED tracerVars /\ opt_p_tmp' = opt_p_tmp
    BY <1>2 DEF TakeStop, Other, Die, Killed, startVars
  <2>2. sigstop' \in [Proc -> BOOLEAN]
    BY <1>1, <1>2 DEF TakeStop, Other, Die, Killed, Types
  <2>3. \E s \in {"stop", "other", "zombie", "dead", "killed"} : Becomes(p, s) /\ Goes(p, s)
    BY <1>2, <1>1 DEF TakeStop, Other, Die, Killed, Goes, Children, Traced, Living, Detached,
                      FreeStates, Types
  <2>4. PICK s \in {"stop", "other", "zombie", "dead", "killed"} : Becomes(p, s) /\ Goes(p, s)
    BY <2>3
  <2>5. s \in States
    BY DEF States
  <2>6. /\ state' \in [Proc -> States] /\ state'[p] = s
        /\ \A q \in Proc : q # p => state'[q] = state[q]
    BY <1>1, <2>4, <2>5, BecomesIs
  <2>7. \A q \in Proc : Moves(q)
    BY <2>4, <2>6 DEF Moves, Goes, Living, FreeStates
  <2>8. LeavesList /\ Types'
    BY <1>1, <2>1, <2>2, <2>6 DEF tracerVars, LeavesList, Types
  <2> QED
    BY <2>7, <2>8, MovesKeep
<1>3. CASE SignalExit \/ SignalAlarm
  <2>1. LeavesList /\ exiting' \in BOOLEAN /\ alarm' \in BOOLEAN /\ missed' \in BOOLEAN
    BY <1>1, <1>3 DEF SignalExit, SignalAlarm, LeavesList, startVars, TooEarly, Types
  <2>2. PICK S : Stopped(S)
    BY <1>3 DEF SignalExit, SignalAlarm
  <2>3. state' \in [Proc -> States] /\ \A q \in Proc : Moves(q)
    BY <1>1, <2>2 DEF Stopped, Moves, Types, States, FreeStates
  <2>4. sigstop' \in [Proc -> BOOLEAN]
    BY <1>1, <2>2 DEF Stopped, Types
  <2>5. Types'
    BY <1>1, <2>1, <2>3, <2>4 DEF Types, LeavesList
  <2> QED
    BY <2>1, <2>3, <2>5, MovesKeep
<1> QED
  BY <1>2, <1>3 DEF Environment

----
(* The main loop.                                                          *)

\* The process that pid2tgid finds is the one that waitpid reports, or the text
\* is an earlier one.
LEMMA LookupIs ==
  ASSUME Types, NEW p \in Proc, NEW g, Waits(p, g), g \in Listed
  PROVE  /\ at = "loop" /\ g \in Proc /\ state[p] \in {"stop", "other", "zombie"}
         /\ g = p \/ (state[p] = "zombie" /\ enabled[p] = -1 /\ enabled[g] # -1)
<1>1. g \in Proc /\ g # NoProc
  BY ListedIs, ProcAssumption
<1> QED
  BY <1>1 DEF Waits, Lookup, Stale

\* A step of the loop that leaves whoever took another's entry where he is
LEMMA LoopKeeps ==
  ASSUME Inv, Types', at \in Loop, at' \in Loop, unnamed' = unnamed,
         Distinct(list_of_processes'), LetGoInv', FreeInv',
         \A q \in Proc : state[q] = "dead" => state'[q] = "dead",
         \A q \in Proc : state[q] = "zombie" => state'[q] \in {"zombie", "dead"},
         \A q \in Proc : Displacer(q) => enabled'[q] = -1,
         \A q \in Listed : Displacer(q) => q \in Listed',
         (\A q \in Proc : ~Displacer(q)) => \A q \in Traced' : Accounted(q)'
  PROVE  Inv'
<1>1. \A q \in Proc : Displacer(q) => Displacer(q)'
  BY DEF Displacer
<1>2. ListInv'
  <2>1. (\E q \in Proc : Displacer(q)) => \A q \in Traced' : Accounted(q)'
    BY <1>1 DEF Accounted, SomeDisplacer
  <2> QED
    BY <2>1 DEF ListInv, Loop
<1>3. UnnamedInv'
  BY DEF UnnamedInv, Inv, Types
<1> QED
  BY <1>2, <1>3 DEF Loop, Inv, EarlyInv, StartingInv, NameInv, LeavesNoInt3, BeforeLoop, Early

\* The event of a listed process that is resumed
LEMMA ResumedStep ==
  ASSUME Inv, UNCHANGED startVars, NEW p \in Proc, NEW g, FirstEvent(p, g) \/ Resume(p, g)
  PROVE  Inv'
<1>1. Types /\ ListInv /\ FreeInv
  BY DEF Inv
<1>2. /\ Waits(p, g) /\ g \in Listed /\ at = "loop" /\ at' = "loop"
      /\ UNCHANGED <<opt_p, list_of_processes, exiting, alarm, missed, unnamed, cur, sigstop>>
      /\ opt_p_tmp' = opt_p_tmp
      /\ \/ /\ enabled[g] = -1 /\ enabled' = [enabled EXCEPT ![g] = 1]
            /\ Becomes(p, IF state[p] = "zombie" THEN "dead" ELSE "run")
         \/ state[p] # "zombie" /\ enabled' = enabled /\ Becomes(p, "run")
  BY DEF FirstEvent, Resume, Opened, Waits, tracerVars, startVars
<1>3. g = p /\ state[p] \in {"stop", "other", "zombie"}
  BY <1>1, <1>2, LookupIs
<1>4. PICK s \in {"run", "dead"} : Becomes(p, s) /\ (state[p] = "zombie" => s = "dead")
  BY <1>2
<1>5. /\ state' \in [Proc -> States] /\ state'[p] = s
      /\ \A q \in Proc : q # p => state'[q] = state[q]
  BY <1>1, <1>4, BecomesIs DEF States
<1>6. /\ enabled' \in [Proc -> {-1, 0, 1}]
      /\ \A q \in Proc : q # p => enabled'[q] = enabled[q]
  BY <1>1, <1>2, <1>3 DEF Types
<1>7. Types' /\ LetGoInv' /\ Listed' = Listed /\ Distinct(list_of_processes')
  BY <1>1, <1>2, <1>5, <1>6 DEF Types, Loop, LetGoInv, Listed, ListInv, Distinct
<1>8. FreeInv'
  <2>1. \A q \in Proc : q # p => (state'[q] \in FreeStates
                                  => enabled'[q] # 1 /\ (q = Command => enabled'[q] = 0))
    BY <1>1, <1>5, <1>6 DEF FreeInv
  <2>2. state'[p] \notin FreeStates
    BY <1>5 DEF FreeStates
  <2> QED
    BY <2>1, <2>2 DEF FreeInv
<1>9. \A q \in Proc : Displacer(q) => q # p
  BY <1>3 DEF Displacer
<1>10. ASSUME \A q \in Proc : ~Displacer(q), NEW q \in Traced'
       PROVE  Accounted(q)'
  <2>1. q \in Proc
    BY DEF Traced
  <2>2. CASE q = p
    BY <1>2, <1>3, <1>7, <2>2 DEF Accounted
  <2>3. CASE q # p
    <3>1. q \in Traced /\ state'[q] = state[q] /\ enabled'[q] = enabled[q]
      BY <1>5, <1>6, <2>1, <2>3 DEF Traced
    <3>2. Accounted(q)
      BY <1>1, <1>2, <3>1 DEF ListInv, Loop
    <3> QED
      BY <1>2, <1>7, <1>10, <3>1, <3>2 DEF Accounted, LetGone, SomeDisplacer
  <2> QED
    BY <2>2, <2>3
<1>11. /\ \A q \in Proc : state[q] = "dead" => state'[q] = "dead"
       /\ \A q \in Proc : state[q] = "zombie" => state'[q] \in {"zombie", "dead"}
       /\ \A q \in Proc : Displacer(q) => enabled'[q] = -1
       /\ at \in Loop /\ at' \in Loop
  BY <1>2, <1>3, <1>4, <1>5, <1>6, <1>9 DEF Displacer, Loop
<1> QED
  BY <1>2, <1>7, <1>8, <1>10, <1>11, LoopKeeps

\* One entry leaves the list: of the process that died, or of another, and
\* then the one that died stays where he is.
LEMMA ProcessExitStep ==
  ASSUME Inv, UNCHANGED startVars, NEW p \in Proc, NEW g, ProcessExit(p, g)
  PROVE  Inv'
<1>1. Types /\ ListInv /\ FreeInv
  BY DEF Inv
<1>2. /\ Waits(p, g) /\ g \in Listed /\ enabled[g] # -1 /\ state[p] = "zombie"
      /\ at = "loop" /\ at' = "loop"
      /\ UNCHANGED <<opt_p, enabled, exiting, alarm, missed, unnamed, cur, sigstop, opt_p_tmp>>
      /\ list_of_processes' = Without(g)
      /\ Becomes(p, "dead")
  BY DEF ProcessExit, Opened, Waits, startVars
<1>3. g \in Proc /\ (g = p \/ enabled[p] = -1)
  BY <1>1, <1>2, LookupIs
<1>4. /\ state' \in [Proc -> States] /\ state'[p] = "dead"
      /\ \A q \in Proc : q # p => state'[q] = state[q]
  BY <1>1, <1>2, BecomesIs DEF States
<1>5. /\ list_of_processes' \in Seq(Proc) /\ Distinct(list_of_processes')
      /\ Members(list_of_processes') = Listed \ {g}
  BY <1>1, <1>2, WithoutIs DEF ListInv
<1>6. Types' /\ LetGoInv' /\ Listed' = Listed \ {g}
  BY <1>1, <1>2, <1>4, <1>5 DEF Types, Loop, LetGoInv, Listed, Members
<1>7. FreeInv'
  BY <1>1, <1>2, <1>4 DEF FreeInv, FreeStates
<1>8. /\ \A q \in Proc : state[q] = "dead" => state'[q] = "dead"
      /\ \A q \in Proc : state[q] = "zombie" => state'[q] \in {"zombie", "dead"}
      /\ \A q \in Proc : Displacer(q) => enabled'[q] = -1
      /\ \A q \in Listed : Displacer(q) => q \in Listed'
      /\ at \in Loop /\ at' \in Loop
  BY <1>2, <1>4, <1>6 DEF Displacer, Loop
<1>9. ASSUME \A q \in Proc : ~Displacer(q), NEW q \in Traced'
      PROVE  Accounted(q)'
  <2>1. q \in Traced /\ q # p /\ q \in Proc /\ state'[q] = state[q]
    BY <1>4 DEF Traced, Living
  <2>2. q \in Listed \cup unnamed \/ LetGone(q)
    BY <1>1, <1>2, <1>9, <2>1 DEF ListInv, Loop, Accounted, SomeDisplacer
  <2>3. CASE g = p
    BY <1>2, <1>6, <2>1, <2>2, <2>3 DEF Accounted, LetGone
  <2>4. CASE g # p
    <3>1. p \in Traced /\ ~LetGone(p)
      BY <1>2, <1>3, <2>4 DEF Traced, LetGone
    <3>2. p \in Listed \cup unnamed
      BY <1>1, <1>2, <1>9, <3>1 DEF ListInv, Loop, Accounted, SomeDisplacer
    <3>3. Displacer(p)'
      BY <1>2, <1>3, <1>4, <1>6, <2>4, <3>2 DEF Displacer
    <3> QED
      BY <3>3 DEF Accounted, SomeDisplacer
  <2> QED
    BY <2>3, <2>4
<1> QED
  BY <1>2, <1>5, <1>6, <1>7, <1>8, <1>9, LoopKeeps

\* The four steps that let a process go
LEMMA LetGoStep ==
  ASSUME Inv, UNCHANGED startVars,
         LetGo \/ \E p \in Proc, g \in Proc \cup {NoProc} : DisableAll(p, g)
  PROVE  Inv'
<1>1. Types /\ ListInv /\ FreeInv /\ LetGoInv
  BY DEF Inv
<1>2. ASSUME NEW p \in Proc, NEW g, DisableAll(p, g)
      PROVE  Inv'
  <2>1. /\ Waits(p, g) /\ g \in Listed /\ state[p] = "stop"
        /\ at = "loop" /\ at' = "disabled" /\ cur' = g
        /\ enabled' = [enabled EXCEPT ![g] = 0] /\ enabled[g] # -1
        /\ UNCHANGED <<opt_p, list_of_processes, exiting, alarm, missed, unnamed, state,
                       sigstop, opt_p_tmp>>
    BY <1>2 DEF DisableAll, Opened, Waits, startVars
  <2>2. g = p
    BY <1>1, <2>1, LookupIs
  <2>3. /\ enabled' \in [Proc -> {-1, 0, 1}] /\ enabled'[p] = 0
        /\ \A q \in Proc : q # p => enabled'[q] = enabled[q]
    BY <1>1, <2>1, <2>2 DEF Types
  <2>4. Types' /\ Listed' = Listed /\ Distinct(list_of_processes')
    <3>1. cur' \in Proc \cup {NoProc} /\ at' \in Loop
      BY <2>1, <2>2 DEF Loop
    <3>2. Types'
      BY <1>1, <2>1, <2>3, <3>1 DEF Types
    <3> QED
      BY <1>1, <2>1, <3>2 DEF Listed, ListInv, Distinct
  <2>5. LetGoInv' /\ FreeInv'
    BY <1>1, <2>1, <2>2, <2>3, <2>4 DEF LetGoInv, FreeInv, Traced, Living
  <2>6. /\ \A q \in Proc : Displacer(q) => enabled'[q] = -1
        /\ at \in Loop /\ at' \in Loop
    BY <2>1, <2>2, <2>3 DEF Displacer, Loop
  <2>7. ASSUME \A q \in Proc : ~Displacer(q), NEW q \in Traced'
        PROVE  Accounted(q)'
    <3>1. q \in Traced /\ q \in Proc
      BY <2>1 DEF Traced
    <3>2. Accounted(q)
      BY <1>1, <2>1, <3>1 DEF ListInv, Loop
    <3> QED
      BY <2>1, <2>2, <2>3, <2>4, <2>7, <3>1, <3>2 DEF Accounted, LetGone, SomeDisplacer
  <2> QED
    BY <2>1, <2>4, <2>5, <2>6, <2>7, LoopKeeps
<1>3. CASE Untrace
  <2>1. /\ at = "disabled" /\ at' = "untraced" /\ cur' = cur
        /\ UNCHANGED <<opt_p, list_of_processes, enabled, exiting, alarm, missed, unnamed,
                       opt_p_tmp>>
        /\ sigstop' = [sigstop EXCEPT ![cur] = FALSE]
        /\ \/ state[cur] = "zombie" /\ Becomes(cur, "zombie")
           \/ state[cur] # "zombie" /\ (Becomes(cur, "halted") \/ Becomes(cur, "free"))
    BY <1>3 DEF Untrace, startVars
  <2>2. cur \in Listed /\ cur \in Proc /\ enabled[cur] = 0
    BY <1>1, <2>1, ListedIs DEF LetGoInv
  <2>3. PICK s \in FreeStates \cup {"zombie"} :
          Becomes(cur, s) /\ (s = "zombie" <=> state[cur] = "zombie")
    BY <2>1 DEF FreeStates
  <2>4. /\ state' \in [Proc -> States] /\ state'[cur] = s
        /\ \A q \in Proc : q # cur => state'[q] = state[q]
    BY <1>1, <2>2, <2>3, BecomesIs DEF States, FreeStates
  <2>5. sigstop' \in [Proc -> BOOLEAN]
    BY <1>1, <2>1 DEF Types
  <2>6. Types' /\ Listed' = Listed /\ Distinct(list_of_processes')
    BY <1>1, <2>1, <2>4, <2>5 DEF Types, Loop, Listed, ListInv, Distinct
  <2>7. LetGoInv'
    BY <2>1, <2>2, <2>4, <2>6 DEF LetGoInv, FreeStates, Living
  <2>8. FreeInv'
    BY <1>1, <2>1, <2>2, <2>4 DEF FreeInv
  <2>9. state[cur] # "dead"
    BY <1>1, <2>1 DEF LetGoInv, Traced, Living
  <2>10. /\ \A q \in Proc : Displacer(q) => enabled'[q] = -1
         /\ at \in Loop /\ at' \in Loop
    BY <2>1 DEF Displacer, Loop
  <2>11. ASSUME \A q \in Proc : ~Displacer(q), NEW q \in Traced'
         PROVE  Accounted(q)'
    <3>1. q \in Proc
      BY DEF Traced
    <3>2. CASE q = cur
      BY <2>2, <2>6, <3>2 DEF Accounted
    <3>3. CASE q # cur
      <4>1. q \in Traced /\ state'[q] = state[q]
        BY <2>4, <3>1, <3>3 DEF Traced
      <4>2. Accounted(q)
        BY <1>1, <2>1, <4>1 DEF ListInv, Loop
      <4> QED
        BY <2>1, <2>6, <2>11, <4>1, <4>2 DEF Accounted, LetGone, SomeDisplacer
    <3> QED
      BY <3>2, <3>3
  <2>12. /\ \A q \in Proc : state[q] = "dead" => state'[q] = "dead"
         /\ \A q \in Proc : state[q] = "zombie" => state'[q] \in {"zombie", "dead"}
    BY <2>3, <2>4, <2>9
  <2> QED
    BY <2>1, <2>6, <2>7, <2>8, <2>10, <2>11, <2>12, LoopKeeps
<1>4. CASE RemoveProc
  <2>1. /\ at = "untraced" /\ at' = "removed"
        /\ list_of_processes' = Without(cur)
        /\ UNCHANGED <<opt_p, enabled, exiting, alarm, missed, unnamed, cur, state, sigstop,
                       opt_p_tmp>>
    BY <1>4 DEF RemoveProc, startVars
  <2>2. cur \in Listed /\ enabled[cur] = 0 /\ state[cur] \notin Living
    BY <1>1, <2>1 DEF LetGoInv
  <2>3. /\ list_of_processes' \in Seq(Proc) /\ Distinct(list_of_processes')
        /\ Members(list_of_processes') = Listed \ {cur}
    BY <1>1, <2>1, <2>2, WithoutIs DEF ListInv
  <2>4. Types' /\ Listed' = Listed \ {cur}
    BY <1>1, <2>1, <2>3 DEF Types, Loop, Listed, Members
  <2>5. LetGoInv' /\ FreeInv'
    BY <1>1, <2>1 DEF LetGoInv, FreeInv
  <2>6. /\ \A q \in Proc : Displacer(q) => enabled'[q] = -1
        /\ \A q \in Listed : Displacer(q) => q \in Listed'
        /\ at \in Loop /\ at' \in Loop
    BY <2>1, <2>2, <2>4 DEF Displacer, Loop
  <2>7. ASSUME \A q \in Proc : ~Displacer(q), NEW q \in Traced'
        PROVE  Accounted(q)'
    <3>1. q \in Traced /\ q \in Proc
      BY <2>1 DEF Traced
    <3>2. Accounted(q)
      BY <1>1, <2>1, <3>1 DEF ListInv, Loop
    <3> QED
      BY <2>1, <2>2, <2>4, <2>7, <3>1, <3>2 DEF Accounted, LetGone, SomeDisplacer
  <2> QED
    BY <2>1, <2>3, <2>4, <2>5, <2>6, <2>7, LoopKeeps
<1>5. CASE UseAfterFree
  <2>1. /\ at = "removed" /\ at' \in {"loop", "crashed"} /\ cur' = NoProc
        /\ UNCHANGED <<opt_p, list_of_processes, enabled, exiting, alarm, missed, unnamed,
                       state, sigstop, opt_p_tmp>>
    BY <1>5 DEF UseAfterFree, startVars
  <2>2. Types' /\ LetGoInv' /\ FreeInv'
    BY <1>1, <2>1 DEF Types, Loop, LetGoInv, FreeInv
  <2>3. ListInv'
    <3>1. \A q : Accounted(q) => Accounted(q)'
      BY <2>1 DEF Accounted, LetGone, SomeDisplacer, Displacer, Listed
    <3>2. \A q \in Traced : Accounted(q)
      BY <1>1, <2>1 DEF ListInv, Loop
    <3>3. Traced' = Traced
      BY <2>1 DEF Traced
    <3> QED
      BY <1>1, <2>1, <3>1, <3>2, <3>3 DEF ListInv, Distinct
  <2>4. UnnamedInv'
    BY <2>1 DEF Inv, UnnamedInv
  <2> QED
    BY <2>1, <2>2, <2>3, <2>4
    DEF Inv, EarlyInv, StartingInv, NameInv, LeavesNoInt3, BeforeLoop, Early
<1> QED
  BY <1>2, <1>3, <1>4, <1>5 DEF LetGo

\* The two ways out of the loop
LEMMA EndStep ==
  ASSUME Inv, UNCHANGED startVars,
         Exit \/ \E p \in Proc, g \in Proc \cup {NoProc} : WrongTid(p, g)
  PROVE  Inv'
<1>1. Types /\ ListInv /\ FreeInv /\ UnnamedInv
  BY DEF Inv
<1>2. /\ at = "loop" /\ at' \in {"exited", "failed"}
      /\ UNCHANGED <<opt_p, list_of_processes, enabled, exiting, alarm, missed, unnamed, cur,
                     sigstop, opt_p_tmp>>
  BY DEF Exit, WrongTid, Waits, startVars
<1>3. ListInv'
  BY <1>1, <1>2 DEF ListInv, Distinct, Loop
<1>4. ASSUME Exit
      PROVE  Inv'
  <2>1. state' = state /\ (list_of_processes = << >> \/ Children = {})
    BY <1>4 DEF Exit
  <2>2. Types' /\ FreeInv' /\ UnnamedInv'
    BY <1>1, <1>2, <2>1 DEF Types, FreeInv, UnnamedInv
  <2>3. ASSUME ~(\E q \in unnamed : Displacer(q)),
               NEW p \in Proc, state[p] \in Living \cup Detached, Planted(p)
        PROVE  FALSE
    <3>1. state[p] \in Living
      BY <1>1, <2>3 DEF FreeInv, Planted, Detached, FreeStates
    <3>2. p \in Traced /\ Listed = {}
      BY <2>1, <3>1 DEF Traced, Children, Listed
    <3>3. ~LetGone(p) /\ p \notin unnamed
      BY <1>1, <3>1 DEF LetGone, UnnamedInv, Living
    <3>4. SomeDisplacer
      BY <1>1, <1>2, <3>2, <3>3 DEF ListInv, Loop, Accounted
    <3> QED
      BY <2>3, <3>2, <3>4 DEF SomeDisplacer, Displacer
  <2>4. LeavesNoInt3'
    BY <1>2, <2>1, <2>3 DEF LeavesNoInt3, Planted, Displacer, Listed
  <2> QED
    BY <1>2, <1>3, <2>2, <2>4
    DEF Inv, EarlyInv, StartingInv, NameInv, LetGoInv, BeforeLoop, Early
<1>5. ASSUME NEW p \in Proc, NEW g, WrongTid(p, g)
      PROVE  Inv'
  <2>1. /\ at' = "failed" /\ state[p] \in {"stop", "other", "zombie"}
        /\ Becomes(p, IF state[p] = "zombie" THEN "dead" ELSE state[p])
    BY <1>5 DEF WrongTid, Waits
  <2>2. PICK s \in {"stop", "other", "dead"} :
          Becomes(p, s) /\ (state[p] = "zombie" => s = "dead")
    BY <2>1
  <2>3. /\ state' \in [Proc -> States] /\ state'[p] = s
        /\ \A q \in Proc : q # p => state'[q] = state[q]
    BY <1>1, <2>2, BecomesIs DEF States
  <2>4. Types'
    BY <1>1, <1>2, <2>1, <2>3 DEF Types
  <2>5. FreeInv'
    BY <1>1, <1>2, <2>2, <2>3 DEF FreeInv, FreeStates
  <2>6. UnnamedInv'
    <3>1. \A q \in unnamed : q \in Proc /\ state[q] \in {"zombie", "dead"}
      BY <1>1 DEF UnnamedInv, Types
    <3>2. p \in unnamed => state'[p] \in {"zombie", "dead"}
      BY <2>1, <2>2, <2>3, <3>1
    <3> QED
      BY <1>2, <2>3, <3>1, <3>2 DEF UnnamedInv
  <2> QED
    BY <1>2, <1>3, <2>1, <2>4, <2>5, <2>6
    DEF Inv, EarlyInv, StartingInv, NameInv, LetGoInv, LeavesNoInt3, BeforeLoop, Early
<1> QED
  BY <1>4, <1>5

----
(* The start.                                                              *)

\* Whatever quits before the loop leaves nothing behind.
LEMMA QuitKeeps ==
  ASSUME Inv, Types', at \in BeforeLoop, at' = "exited",
         UNCHANGED <<list_of_processes, enabled, state, unnamed>>
  PROVE  Inv'
<1>1. \A p \in Proc : enabled'[p] = -1
  BY DEF Inv, StartingInv
<1>2. FreeInv' /\ LeavesNoInt3' /\ UnnamedInv'
  BY <1>1 DEF FreeInv, LeavesNoInt3, Planted, Inv, UnnamedInv
<1>3. ListInv'
  BY DEF Inv, ListInv, Distinct, Loop
<1> QED
  BY <1>2, <1>3 DEF Inv, EarlyInv, StartingInv, NameInv, LetGoInv, BeforeLoop, Early

\* What is the same before and after the command is opened
Quiet == UNCHANGED <<enabled, exiting, alarm, missed, unnamed, cur, state, sigstop>>

LEMMA OptionsStep ==
  ASSUME Inv, ReadOption \/ \E hasCommand \in BOOLEAN : EndOptions(hasCommand)
  PROVE  Inv'
<1>1. Types /\ EarlyInv /\ StartingInv /\ ListInv /\ FreeInv /\ UnnamedInv
  BY DEF Inv
<1>2. /\ at = "options" /\ at' \in {"options", "open", "attach", "exited"} /\ Quiet
      /\ list_of_processes' = list_of_processes /\ opt_p_tmp' = opt_p_tmp
  BY DEF ReadOption, EndOptions, Parsing, OptionP, OptionL, OptionTime, OptionExits, Quit, Quiet
<1>3. opt_p' \in Seq(Proc)
  <2>1. ASSUME NEW p \in Proc, opt_p' = <<p>> \o opt_p
        PROVE  opt_p' \in Seq(Proc)
    <3>1. <<p>> \in Seq(Proc) /\ opt_p \in Seq(Proc)
      BY <1>1 DEF Types
    <3> QED
      BY <2>1, <3>1, ConcatProperties
  <2>2. opt_p' = opt_p \/ \E p \in Proc : opt_p' = <<p>> \o opt_p
    BY DEF ReadOption, EndOptions, OptionP, OptionL, OptionTime, OptionExits
  <2> QED
    BY <1>1, <2>1, <2>2 DEF Types
<1>4. Types'
  BY <1>1, <1>2, <1>3 DEF Types, Quiet, BeforeLoop, Early
<1>5. CASE at' = "exited"
  BY <1>2, <1>4, <1>5, QuitKeeps DEF Quiet, BeforeLoop, Early
<1>6. CASE at' # "exited"
  <2>1. /\ list_of_processes = << >> /\ Traced = {} /\ state[Command] = "unborn"
        /\ \A p \in Proc : state[p] \notin TracedStates
    BY <1>1, <1>2 DEF EarlyInv, Early, Traced, TracedStates, Living
  <2>2. Traced' = Traced /\ Listed' = Listed
    BY <1>2 DEF Quiet, Traced, Listed
  <2>3. EarlyInv'
    BY <1>2, <2>1 DEF EarlyInv, Quiet
  <2>4. StartingInv' /\ FreeInv' /\ UnnamedInv'
    BY <1>1, <1>2, <2>2 DEF StartingInv, FreeInv, UnnamedInv, Quiet, BeforeLoop, Early
  <2>5. ListInv'
    BY <1>1, <1>2, <1>6, <2>1, <2>2 DEF ListInv, Distinct, Loop
  <2> QED
    BY <1>2, <1>4, <1>6, <2>3, <2>4, <2>5 DEF Inv, NameInv, LetGoInv, LeavesNoInt3
<1> QED
  BY <1>5, <1>6

LEMMA OpenCommandStep ==
  ASSUME Inv, OpenCommand
  PROVE  Inv'
<1>1. Types /\ EarlyInv /\ StartingInv /\ ListInv /\ FreeInv /\ UnnamedInv
  BY DEF Inv
<1>2. /\ at = "open" /\ Quiet /\ opt_p' = opt_p /\ opt_p_tmp' = opt_p_tmp
      /\ \/ at' = "exited" /\ list_of_processes' = list_of_processes
         \/ at' = "fork" /\ list_of_processes' = <<Command>> \o list_of_processes
  BY DEF OpenCommand, Quit, Quiet, Listing, startVars
<1>3. /\ list_of_processes = << >> /\ state[Command] = "unborn" /\ Command \in Proc
      /\ \A p \in Proc : state[p] \notin TracedStates
  BY <1>1, <1>2, ProcAssumption DEF EarlyInv, Early
<1>4. CASE at' = "exited"
  <2>1. Types'
    BY <1>1, <1>2, <1>4 DEF Types, Quiet
  <2> QED
    BY <1>2, <1>4, <2>1, QuitKeeps DEF Quiet, BeforeLoop, Early
<1>5. CASE at' = "fork"
  <2>1. list_of_processes' = <<Command>>
    BY <1>2, <1>3, <1>5
  <2>2. /\ list_of_processes' \in Seq(Proc) /\ Len(list_of_processes') = 1
        /\ list_of_processes'[1] = Command
    BY <1>3, <2>1
  <2>3. Listed' = {Command} /\ Distinct(list_of_processes')
    BY <2>2 DEF Listed, Distinct
  <2>4. Types'
    BY <1>1, <1>2, <1>5, <2>2 DEF Types, Quiet, BeforeLoop, Early
  <2>5. EarlyInv'
    BY <1>2, <1>3, <1>5, <2>1 DEF EarlyInv, Quiet
  <2>6. StartingInv' /\ FreeInv' /\ UnnamedInv'
    BY <1>1, <1>2, <1>3, <2>3
    DEF StartingInv, FreeInv, UnnamedInv, Quiet, BeforeLoop, Early, FreeStates
  <2>7. ListInv'
    BY <1>5, <2>3 DEF ListInv, Distinct, Loop
  <2> QED
    BY <1>5, <2>4, <2>5, <2>6, <2>7 DEF Inv, NameInv, LetGoInv, LeavesNoInt3
<1> QED
  BY <1>2, <1>4, <1>5

LEMMA ForkStep ==
  ASSUME Inv, Fork
  PROVE  Inv'
<1>1. Types /\ EarlyInv /\ StartingInv /\ ListInv /\ FreeInv /\ UnnamedInv
  BY DEF Inv
<1>2. /\ at = "fork" /\ opt_p_tmp' = opt_p_tmp
      /\ UNCHANGED <<opt_p, list_of_processes, enabled, exiting, alarm, missed, unnamed, cur,
                     sigstop>>
      /\ \/ at' = "exited" /\ state' = state
         \/ at' = "attach" /\ \E s \in {"zombie", "other"} : Becomes(Command, s)
  BY DEF Fork, Quit, ChildExits
<1>3. CASE at' = "exited"
  <2>1. Types'
    BY <1>1, <1>2, <1>3 DEF Types
  <2> QED
    BY <1>2, <1>3, <2>1, QuitKeeps DEF BeforeLoop, Early
<1>4. CASE at' = "attach"
  <2>1. PICK s \in {"zombie", "other"} : Becomes(Command, s)
    BY <1>2, <1>4
  <2>2. /\ state' \in [Proc -> States] /\ state'[Command] = s
        /\ \A q \in Proc : q # Command => state'[q] = state[q]
    BY <1>1, <2>1, BecomesIs, ProcAssumption DEF States
  <2>3. /\ list_of_processes = <<Command>> /\ state[Command] = "unborn"
        /\ \A p \in Proc : state[p] \notin TracedStates
    BY <1>1, <1>2 DEF EarlyInv, Early
  <2>4. Listed' = {Command} /\ Listed = {Command}
    BY <1>2, <2>3 DEF Listed
  <2>5. Types'
    BY <1>1, <1>2, <1>4, <2>2 DEF Types, BeforeLoop, Early
  <2>6. Traced' \subseteq {Command}
    BY <2>2, <2>3 DEF Traced, TracedStates, Living
  <2>7. StartingInv' /\ FreeInv'
    BY <1>1, <1>2, <2>2, <2>4
    DEF StartingInv, FreeInv, BeforeLoop, Early, FreeStates
  <2>8. ListInv'
    BY <1>1, <1>2, <1>4, <2>4, <2>6 DEF ListInv, Distinct, Loop
  <2>9. UnnamedInv'
    BY <1>1, <1>2, <2>2, <2>3 DEF UnnamedInv, Types
  <2> QED
    BY <1>4, <2>5, <2>7, <2>8, <2>9
    DEF Inv, EarlyInv, Early, NameInv, LetGoInv, LeavesNoInt3
<1> QED
  BY <1>2, <1>3, <1>4

LEMMA AttachStep ==
  ASSUME Inv, Attach
  PROVE  Inv'
<1>1. Types /\ StartingInv /\ ListInv /\ FreeInv /\ UnnamedInv
  BY DEF Inv
<1>2. /\ at = "attach" /\ opt_p_tmp <= Len(opt_p)
      /\ UNCHANGED <<opt_p, list_of_processes, enabled, exiting, alarm, missed, unnamed, cur>>
      /\ \/ at' = "attach" /\ state' = state /\ sigstop' = sigstop /\ opt_p_tmp' = opt_p_tmp + 1
         \/ /\ at' = "name" /\ state[Opening] \in FreeStates /\ opt_p_tmp' = opt_p_tmp
            /\ Becomes(Opening, "run") /\ sigstop' = [sigstop EXCEPT ![Opening] = TRUE]
  BY DEF Attach, NextOptP, Attachable, FreeStates, Detached
<1>3. /\ Listed' = Listed /\ Opening \in Proc /\ opt_p_tmp \in Nat /\ opt_p_tmp >= 1
      /\ Traced \subseteq Listed \cup unnamed /\ Distinct(list_of_processes)
  BY <1>1, <1>2, OpeningIs DEF Listed, Types, ListInv
<1>4. CASE at' = "attach" /\ state' = state /\ sigstop' = sigstop /\ opt_p_tmp' = opt_p_tmp + 1
  <2>1. opt_p_tmp' \in Nat /\ opt_p_tmp' >= 1
    BY <1>3, <1>4
  <2>2. Types'
    BY <1>1, <1>2, <1>4, <2>1 DEF Types
  <2>3. StartingInv' /\ FreeInv'
    BY <1>1, <1>2, <1>3, <1>4 DEF StartingInv, FreeInv, BeforeLoop
  <2>4. ListInv' /\ UnnamedInv'
    BY <1>1, <1>2, <1>3, <1>4 DEF ListInv, UnnamedInv, Distinct, Traced, Loop
  <2> QED
    BY <1>4, <2>2, <2>3, <2>4 DEF Inv, EarlyInv, Early, NameInv, LetGoInv, LeavesNoInt3
<1>5. CASE /\ at' = "name" /\ state[Opening] \in FreeStates /\ opt_p_tmp' = opt_p_tmp
           /\ Becomes(Opening, "run") /\ sigstop' = [sigstop EXCEPT ![Opening] = TRUE]
  <2>1. /\ state' \in [Proc -> States] /\ state'[Opening] = "run"
        /\ \A q \in Proc : q # Opening => state'[q] = state[q]
    BY <1>1, <1>3, <1>5, BecomesIs DEF States
  <2>2. sigstop' \in [Proc -> BOOLEAN]
    BY <1>1, <1>5 DEF Types
  <2>3. Types'
    BY <1>1, <1>2, <1>5, <2>1, <2>2 DEF Types, BeforeLoop
  <2>4. Opening \notin Listed
    BY <1>1, <1>2, <1>3, <1>5 DEF StartingInv, BeforeLoop
  <2>5. Opening' = Opening
    BY <1>2, <1>5 DEF Opening
  <2>6. Traced' = Traced \cup {Opening}
    <3>1. \A q \in Proc : q # Opening => (q \in Traced' <=> q \in Traced)
      BY <2>1 DEF Traced
    <3>2. Opening \in Traced' /\ Traced \subseteq Proc /\ Traced' \subseteq Proc
      BY <1>3, <2>1 DEF Traced, Living
    <3> QED
      BY <3>1, <3>2
  <2>7. NameInv'
    BY <1>2, <1>3, <1>5, <2>4, <2>5, <2>6 DEF NameInv
  <2>8. StartingInv' /\ FreeInv'
    BY <1>1, <1>2, <1>3, <2>1 DEF StartingInv, FreeInv, BeforeLoop, FreeStates
  <2>9. ListInv'
    BY <1>2, <1>3, <1>5 DEF ListInv, Distinct, Loop
  <2>10. UnnamedInv'
    <3>1. Opening \notin unnamed
      BY <1>1, <1>5 DEF UnnamedInv, FreeStates
    <3> QED
      BY <1>1, <1>2, <2>1, <3>1 DEF UnnamedInv, Types
  <2> QED
    BY <1>5, <2>3, <2>7, <2>8, <2>9, <2>10 DEF Inv, EarlyInv, Early, LetGoInv, LeavesNoInt3
<1> QED
  BY <1>2, <1>4, <1>5

LEMMA OpenPidStep ==
  ASSUME Inv, OpenPid
  PROVE  Inv'
<1>1. Types /\ StartingInv /\ ListInv /\ FreeInv /\ NameInv /\ UnnamedInv
  BY DEF Inv
<1>2. /\ at = "name"
      /\ UNCHANGED <<opt_p, enabled, exiting, alarm, missed, cur, state, sigstop>>
      /\ \/ /\ at' = "attach" /\ opt_p_tmp' = opt_p_tmp + 1
            /\ unnamed' = unnamed \cup {Opening} /\ list_of_processes' = list_of_processes
            /\ state[Opening] = "zombie"
         \/ /\ at' = "exited" /\ opt_p_tmp' = opt_p_tmp
            /\ unnamed' = unnamed /\ list_of_processes' = list_of_processes
         \/ /\ at' = "attach" /\ opt_p_tmp' = opt_p_tmp + 1
            /\ unnamed' = unnamed /\ list_of_processes' = <<Opening>> \o list_of_processes
  BY DEF OpenPid, NextOptP, Quit, Listing, Nameless
<1>3. /\ Opening \in Traced \ Listed /\ Opening \in Proc
      /\ Traced \subseteq Listed \cup unnamed \cup {Opening} /\ Distinct(list_of_processes)
      /\ opt_p_tmp \in Nat /\ opt_p_tmp >= 1
      /\ opt_p_tmp + 1 \in Nat /\ opt_p_tmp + 1 >= 1
  BY <1>1, <1>2, OpeningIs DEF NameInv, ListInv, Types
<1>4. Traced' = Traced
  BY <1>2 DEF Traced
<1>5. CASE at' = "exited"
  <2>1. Types'
    BY <1>1, <1>2, <1>5 DEF Types
  <2> QED
    BY <1>2, <1>5, <2>1, QuitKeeps DEF BeforeLoop
<1>6. ASSUME at' = "attach", opt_p_tmp' = opt_p_tmp + 1, list_of_processes' \in Seq(Proc),
             unnamed' \subseteq Proc, Distinct(list_of_processes'),
             Listed' \subseteq Listed \cup {Opening}, UnnamedInv',
             Listed \cup unnamed \cup {Opening} \subseteq Listed' \cup unnamed'
      PROVE  Inv'
  <2>1. Types'
    BY <1>1, <1>2, <1>3, <1>6 DEF Types, BeforeLoop
  <2>2. state[Opening] \notin FreeStates
    BY <1>3 DEF Traced, FreeStates, Living
  <2>3. StartingInv' /\ FreeInv'
    BY <1>1, <1>2, <1>6, <2>2 DEF StartingInv, FreeInv, BeforeLoop
  <2>4. ListInv'
    BY <1>3, <1>4, <1>6 DEF ListInv, Distinct, Loop
  <2> QED
    BY <1>6, <2>1, <2>3, <2>4 DEF Inv, EarlyInv, Early, NameInv, LetGoInv, LeavesNoInt3
<1>7. CASE /\ at' = "attach" /\ opt_p_tmp' = opt_p_tmp + 1
           /\ unnamed' = unnamed \cup {Opening} /\ list_of_processes' = list_of_processes
           /\ state[Opening] = "zombie"
  <2>1. Listed' = Listed /\ list_of_processes' \in Seq(Proc) /\ unnamed' \subseteq Proc
    BY <1>1, <1>3, <1>7 DEF Listed, Types
  <2>2. UnnamedInv'
    BY <1>1, <1>2, <1>7 DEF UnnamedInv
  <2> QED
    BY <1>3, <1>6, <1>7, <2>1, <2>2
<1>8. CASE /\ at' = "attach" /\ opt_p_tmp' = opt_p_tmp + 1
           /\ unnamed' = unnamed /\ list_of_processes' = <<Opening>> \o list_of_processes
  <2>1. Listed = Members(list_of_processes) /\ Listed' = Members(list_of_processes')
    BY DEF Listed, Members
  <2>2. /\ list_of_processes' \in Seq(Proc) /\ Distinct(list_of_processes')
        /\ Listed' = Listed \cup {Opening}
    <3>1. list_of_processes \in Seq(Proc)
      BY <1>1 DEF Types
    <3> QED
      BY <1>3, <1>8, <2>1, <3>1, ListingIs
  <2>3. unnamed' \subseteq Proc /\ UnnamedInv'
    BY <1>1, <1>2, <1>8 DEF Types, UnnamedInv
  <2> QED
    BY <1>6, <1>8, <2>2, <2>3
<1> QED
  BY <1>2, <1>5, <1>7, <1>8

LEMMA EnterLoopStep ==
  ASSUME Inv, EnterLoop
  PROVE  Inv'
<1>1. Types /\ ListInv /\ FreeInv /\ UnnamedInv
  BY DEF Inv
<1>2. /\ at = "attach" /\ at' = "loop" /\ opt_p_tmp' = 1
      /\ UNCHANGED <<opt_p, list_of_processes, enabled, exiting, alarm, missed, unnamed, cur,
                     state, sigstop>>
  BY DEF EnterLoop
<1>3. Types'
  BY <1>1, <1>2 DEF Types, Loop
<1>4. ListInv' /\ FreeInv' /\ UnnamedInv'
  BY <1>1, <1>2 DEF ListInv, FreeInv, UnnamedInv, Distinct, Traced, Listed, Accounted
<1> QED
  BY <1>2, <1>3, <1>4 DEF Inv, EarlyInv, Early, StartingInv, BeforeLoop, NameInv, LetGoInv,
     LeavesNoInt3

LEMMA InvStep == Inv /\ [StartNext]_allVars => Inv'
<1> SUFFICES ASSUME Inv, [StartNext]_allVars
             PROVE  Inv'
  OBVIOUS
<1>1. CASE ReadOption \/ \E hasCommand \in BOOLEAN : EndOptions(hasCommand)
  BY <1>1, OptionsStep
<1>2. CASE OpenCommand
  BY <1>2, OpenCommandStep
<1>3. CASE Fork
  BY <1>3, ForkStep
<1>4. CASE Attach
  BY <1>4, AttachStep
<1>5. CASE OpenPid
  BY <1>5, OpenPidStep
<1>6. CASE EnterLoop
  BY <1>6, EnterLoopStep
<1>7. CASE Next /\ UNCHANGED startVars
  <2>1. CASE Environment \/ SignalExit \/ SignalAlarm
    BY <1>7, <2>1, EnvironmentStep
  <2>2. ASSUME NEW p \in Proc, Handle(p)
        PROVE  Inv'
    <3>1. PICK g \in Proc \cup {NoProc} :
            \/ WrongTid(p, g) \/ FirstEvent(p, g) \/ Resume(p, g)
            \/ ProcessExit(p, g) \/ DisableAll(p, g)
      BY <2>2 DEF Handle
    <3>2. CASE FirstEvent(p, g) \/ Resume(p, g)
      BY <1>7, <3>2, ResumedStep
    <3>3. CASE ProcessExit(p, g)
      BY <1>7, <3>3, ProcessExitStep
    <3>4. CASE DisableAll(p, g)
      BY <1>7, <3>4, LetGoStep
    <3>5. CASE WrongTid(p, g)
      BY <1>7, <3>5, EndStep
    <3> QED
      BY <3>1, <3>2, <3>3, <3>4, <3>5
  <2>3. CASE LetGo
    BY <1>7, <2>3, LetGoStep
  <2>4. CASE Exit
    BY <1>7, <2>4, EndStep
  <2>5. CASE Terminated
    <3>1. LeavesList /\ (\A p \in Proc : Moves(p)) /\ Types'
      BY <1>7, <2>5 DEF Terminated, vars, tracerVars, startVars, LeavesList, Moves, Inv, Types
    <3> QED
      BY <3>1, MovesKeep
  <2> QED
    BY <1>7, <2>1, <2>2, <2>3, <2>4, <2>5 DEF Next
<1>8. CASE UNCHANGED allVars
  <2>1. LeavesList /\ (\A p \in Proc : Moves(p)) /\ Types'
    BY <1>8 DEF allVars, vars, tracerVars, startVars, LeavesList, Moves, Inv, Types
  <2> QED
    BY <2>1, MovesKeep
<1> QED
  BY <1>1, <1>2, <1>3, <1>4, <1>5, <1>6, <1>7, <1>8 DEF StartNext

LEMMA Initially == StartInit => Inv
<1> SUFFICES ASSUME StartInit
             PROVE  Inv
  OBVIOUS
<1>1. /\ at = "options" /\ opt_p = << >> /\ list_of_processes = << >> /\ opt_p_tmp = 1
      /\ enabled = [p \in Proc |-> -1] /\ exiting = FALSE /\ alarm = FALSE /\ missed = FALSE
      /\ unnamed = {} /\ cur = NoProc
      /\ sigstop = [p \in Proc |-> FALSE]
      /\ state \in [Proc -> {"unborn", "free", "dead"}] /\ Command \in Proc
      /\ \A p \in Proc : state[p] = "unborn" <=> p = Command
  BY ProcAssumption DEF StartInit, Fresh
<1>2. Listed = {} /\ Distinct(list_of_processes)
  BY <1>1 DEF Listed, Distinct
<1>3. Types
  <2>1. opt_p \in Seq(Proc) /\ list_of_processes \in Seq(Proc)
    BY <1>1, EmptySeq
  <2>2. state \in [Proc -> States]
    BY <1>1 DEF States
  <2>3. enabled \in [Proc -> {-1, 0, 1}] /\ sigstop \in [Proc -> BOOLEAN]
    BY <1>1
  <2>4. exiting \in BOOLEAN /\ alarm \in BOOLEAN /\ missed \in BOOLEAN
    BY <1>1
  <2>5. unnamed \subseteq Proc /\ cur \in Proc \cup {NoProc}
    BY <1>1
  <2>6. at \in BeforeLoop \cup Loop \cup {"exited", "failed", "crashed"}
    BY <1>1 DEF BeforeLoop, Early
  <2>7. opt_p_tmp \in Nat /\ opt_p_tmp >= 1
    BY <1>1
  <2> QED
    BY <2>1, <2>2, <2>3, <2>4, <2>5, <2>6, <2>7 DEF Types
<1>4. EarlyInv
  BY <1>1 DEF EarlyInv, TracedStates
<1>5. StartingInv /\ FreeInv
  BY <1>1, <1>2 DEF StartingInv, FreeInv, FreeStates
<1>6. ListInv /\ UnnamedInv
  BY <1>1, <1>2 DEF ListInv, UnnamedInv, Loop
<1> QED
  BY <1>1, <1>3, <1>4, <1>5, <1>6 DEF Inv, NameInv, LetGoInv, LeavesNoInt3

LEMMA AlwaysInv == StartSpec => []Inv
BY Initially, InvStep, PTL DEF StartSpec

----
(* The theorems.                                                           *)

\* Types, and a list with nobody on it twice is no longer than there are
\* processes (proc.c 37-69, process_event.c 132-156)
THEOREM SessionTypeCorrect == StartSpec => []TypeOK
<1>1. Inv => TypeOK
  <2> SUFFICES ASSUME Inv
               PROVE  TypeOK
    OBVIOUS
  <2>1. Types /\ Distinct(list_of_processes)
    BY DEF Inv, ListInv
  <2>2. Len(list_of_processes) <= Cardinality(Proc)
    <3> DEFINE n == Len(list_of_processes)
    <3>1. n \in Nat /\ list_of_processes \in [1..n -> Proc]
      BY <2>1, LenProperties DEF Types
    <3>2. list_of_processes \in Injection(1..n, Proc)
      BY <2>1, <3>1 DEF Distinct, Injection, IsInjective
    <3>3. Cardinality(1..n) <= Cardinality(Proc)
      BY <3>2, FS_Injection, ProcAssumption
    <3>4. Cardinality(1..n) = n
      BY <3>1, FS_Interval
    <3> QED
      BY <3>3, <3>4
  <2>3. InLoop \/ UtraceGone \/ at \in {"options", "open", "fork", "attach", "name"}
    BY <2>1 DEF Types, InLoop, UtraceGone, BeforeLoop, Early, Loop
  <2> QED
    BY <2>1, <2>2, <2>3 DEF Types, TypeOK, States, Living, Detached
<1> QED
  BY <1>1, AlwaysInv, PTL

\* For every list of options, and every interleaving of the processes, Ctrl-C,
\* the alarm and a SIGKILL at any point, up to as many processes as the cache of
\* pid2tgid holds: nobody is on the list twice, and an event finds no process
\* only in the cases that EventsHaveProcess names
\* (wait_for_something.c 66-72, proc.c 37-69, process_event.c 104-156)
THEOREM EventsHaveAProcess == StartSpec => []EventsHaveProcess
<1>1. Inv => EventsHaveProcess
  <2> SUFFICES ASSUME Inv, InLoop
               PROVE  EventsHaveProcess
    BY DEF EventsHaveProcess
  <2>1. Distinct(list_of_processes) /\ (\A p \in Traced : Accounted(p)) /\ FreeInv
    BY DEF Inv, ListInv, InLoop, Loop
  <2>2. ASSUME NEW p \in Proc
        PROVE  Entries(p) = IF p \in Listed THEN 1 ELSE 0
    <3> DEFINE Places_p == {i \in 1..Len(list_of_processes) : list_of_processes[i] = p}
    <3>1. CASE p \in Listed
      <4>1. PICK i \in 1..Len(list_of_processes) : list_of_processes[i] = p
        BY <3>1 DEF Listed
      <4>2. Places_p = {i}
        BY <2>1, <4>1 DEF Distinct
      <4> QED
        BY <3>1, <4>2, FS_Singleton DEF Entries
    <3>2. CASE p \notin Listed
      <4>1. Places_p = {}
        BY <3>2 DEF Listed
      <4> QED
        BY <3>2, <4>1, FS_EmptySet DEF Entries
    <3> QED
      BY <3>1, <3>2
  <2>3. ASSUME NEW p \in Children
        PROVE  \/ Entries(p) = 1
               \/ p \in unnamed
               \/ enabled[p] = 0 /\ state[p] \notin Living
               \/ \E q \in Proc : Displacer(q)
    <3>1. p \in Proc
      BY DEF Children
    <3>2. CASE p \in Traced
      BY <2>1, <2>2, <3>1, <3>2 DEF Accounted, LetGone, SomeDisplacer
    <3>3. CASE p = Command /\ state[p] \in Detached
      BY <2>1, <3>1, <3>3 DEF FreeInv, Detached, FreeStates, Living
    <3> QED
      BY <3>2, <3>3 DEF Children
  <2>4. \A p \in Proc : Entries(p) <= 1
    BY <2>2
  <2> QED
    BY <2>3, <2>4 DEF EventsHaveProcess
<1> QED
  BY <1>1, AlwaysInv, PTL

\* However early the interrupt comes, whoever is killed at any point, and
\* whatever the start was cut off by, a process that outlives the ordinary exit
\* of utrace has no breakpoint left; unless an event of one that never was on
\* the list has taken an entry off it
\* (process_event.c 98-112, wait_for_something.c 40-75)
THEOREM NoInt3IsLeft == StartSpec => []LeavesNoInt3
<1>1. Inv => LeavesNoInt3
  BY DEF Inv
<1> QED
  BY <1>1, AlwaysInv, PTL

\* Where the file is that open_program read, until the child is forked
SearchInv ==
  at \in {"open", "fork"} => path \in Paths /\ analysed = SearchForCommand(path, found)

\* For every PATH and every set of files, the program whose symbols become
\* breakpoints is the one that execvp runs, as long as PATH is set
\* (options.c 121-151, execute_program.c 84)
THEOREM AnalysedFileIsExecuted == StartSpec => []AnalysedIsExecuted
<1>1. StartInit => SearchInv
  BY DEF StartInit, SearchInv
<1>2. SearchInv /\ [StartNext]_allVars => SearchInv'
  <2> SUFFICES ASSUME SearchInv, [StartNext]_allVars, at' \in {"open", "fork"}
               PROVE  (path \in Paths /\ analysed = SearchForCommand(path, found))'
    BY DEF SearchInv
  <2>1. CASE \E hasCommand \in BOOLEAN : EndOptions(hasCommand)
    BY <2>1 DEF EndOptions, Quit, SearchForCommand, Paths, Unset
  <2>2. ASSUME at \in {"open", "fork"}, UNCHANGED <<path, found, analysed>>
        PROVE  (path \in Paths /\ analysed = SearchForCommand(path, found))'
    BY <2>2 DEF SearchInv, SearchForCommand, Paths, Unset
  <2>3. CASE OpenCommand
    BY <2>2, <2>3 DEF OpenCommand, startVars
  <2>4. CASE Next /\ UNCHANGED startVars
    <3>1. at \in {"open", "fork"}
      BY <2>4 DEF Next, Environment, TakeStop, Other, Die, Killed, Handle, WrongTid, FirstEvent,
                  Resume, Opened, ProcessExit, DisableAll, SignalExit, SignalAlarm, LetGo, Untrace,
                  RemoveProc, UseAfterFree, Exit, Terminated, vars, tracerVars, Waits
    <3> QED
      BY <2>2, <2>4, <3>1 DEF startVars
  <2>5. CASE UNCHANGED allVars
    BY <2>2, <2>5 DEF allVars, vars, tracerVars, startVars
  <2>6. CASE ReadOption
    BY <2>6 DEF ReadOption, Parsing, OptionP, OptionL, OptionTime, OptionExits, Quit
  <2>7. CASE Fork \/ Attach \/ OpenPid \/ EnterLoop
    BY <2>7 DEF Fork, Attach, OpenPid, EnterLoop, Quit
  <2> QED
    BY <2>1, <2>3, <2>4, <2>5, <2>6, <2>7 DEF StartNext
<1>3. SearchInv => AnalysedIsExecuted
  <2> SUFFICES ASSUME SearchInv, at = "fork", path # Unset
               PROVE  Executed \subseteq {analysed, Nowhere}
    BY DEF AnalysedIsExecuted
  <2>1. analysed = SearchForCommand(path, found)
    BY DEF SearchInv
  <2> QED
    BY <2>1, Zenon DEF Executed, SearchForCommand
<1> QED
  BY <1>1, <1>2, <1>3, PTL DEF StartSpec

----
(* The alarm.                                                              *)

Below == {ss \in Nat \X Nat : ss[1] < ss[2]}

LEMMA BelowWellFounded == IsWellFoundedOn(Below, Nat)
BY NatLessThanWellFounded DEF OpToRel, Below

LEMMA Least ==
  ASSUME NEW S \in SUBSET Nat, S # {}
  PROVE  \E k \in S : \A j \in S : k <= j
<1>1. PICK k \in S : \A j \in S : <<j, k>> \notin Below
  BY BelowWellFounded, WFMin
<1>2. ASSUME NEW j \in S
      PROVE  ~(j < k)
  BY <1>1 DEF Below
<1> QED
  BY <1>1, <1>2

\* A walk over n places: at i it takes what is at hit[i], if that is a place,
\* and goes on behind it.  Stays are the places it may be at once it was at i.
IsWalk(hit, n) ==
  /\ n \in Nat
  /\ hit \in [1..n -> 1..(n + 1)]
  /\ \A i \in 1..n : i <= hit[i]
Places(n) == 1..(n + 2)
Ends(hit, n, i) == i > n \/ hit[i] > n
Closed(hit, n, S) == \A i \in S : Ends(hit, n, i) \/ hit[i] + 1 \in S
Stays(hit, n, i) ==
  {j \in Places(n) : \A S \in SUBSET Places(n) : i \in S /\ Closed(hit, n, S) => j \in S}

LEMMA StaysIs ==
  ASSUME NEW n, NEW hit, IsWalk(hit, n), NEW i \in Places(n)
  PROVE  Stays(hit, n, i) =
           {i} \cup IF Ends(hit, n, i) THEN {} ELSE Stays(hit, n, hit[i] + 1)
<1>1. \A j \in Places(n) : Ends(hit, n, j) \/ (j \in 1..n /\ hit[j] + 1 \in Places(n))
  BY DEF IsWalk, Places, Ends
<1>2. \A j \in Places(n) : /\ Stays(hit, n, j) \in SUBSET Places(n)
                           /\ j \in Stays(hit, n, j)
                           /\ Closed(hit, n, Stays(hit, n, j))
  BY <1>1 DEF Stays, Closed
<1>3. \A j \in Places(n), S \in SUBSET Places(n) :
        j \in S /\ Closed(hit, n, S) => Stays(hit, n, j) \subseteq S
  BY DEF Stays
<1>4. CASE Ends(hit, n, i)
  <2>1. {i} \in SUBSET Places(n) /\ Closed(hit, n, {i})
    BY <1>4 DEF Closed
  <2> QED
    BY <1>2, <1>3, <1>4, <2>1
<1>5. CASE ~Ends(hit, n, i)
  <2> DEFINE j == hit[i] + 1
             T == {i} \cup Stays(hit, n, j)
  <2>1. j \in Places(n)
    BY <1>1, <1>5
  <2>2. T \in SUBSET Places(n) /\ Closed(hit, n, T) /\ i \in T
    BY <1>2, <2>1 DEF Closed
  <2>3. Stays(hit, n, i) \subseteq T
    BY <1>3, <2>2
  <2>4. j \in Stays(hit, n, i)
    BY <1>2, <1>5 DEF Closed
  <2>5. Stays(hit, n, j) \subseteq Stays(hit, n, i)
    BY <1>2, <1>3, <2>1, <2>4
  <2> QED
    BY <1>2, <1>5, <2>3, <2>5
<1> QED
  BY <1>4, <1>5

\* What the walk takes from L
Takes(hit, n, L, W) ==
  W = [i \in Places(n) |->
         IF Ends(hit, n, i) THEN {} ELSE {L[hit[i]]} \cup W[hit[i] + 1]]

LEMMA WalkExists ==
  ASSUME NEW n, NEW hit, IsWalk(hit, n), NEW L
  PROVE  \E W : Takes(hit, n, L, W)
<1> DEFINE Got(i) == {L[hit[v]] : v \in {u \in Stays(hit, n, i) : ~Ends(hit, n, u)}}
           W == [i \in Places(n) |-> Got(i)]
<1>1. ASSUME NEW i \in Places(n)
      PROVE  Got(i) = IF Ends(hit, n, i) THEN {} ELSE {L[hit[i]]} \cup W[hit[i] + 1]
  <2>1. CASE Ends(hit, n, i)
    <3>1. Stays(hit, n, i) = {i}
      BY <2>1, StaysIs
    <3> QED
      BY <2>1, <3>1
  <2>2. CASE ~Ends(hit, n, i)
    <3>1. hit[i] + 1 \in Places(n)
      BY <2>2 DEF IsWalk, Places, Ends
    <3>2. Stays(hit, n, i) = {i} \cup Stays(hit, n, hit[i] + 1)
      BY <2>2, StaysIs
    <3>3. W[hit[i] + 1] = Got(hit[i] + 1)
      BY <3>1
    <3> HIDE DEF W
    <3> QED
      BY <2>2, <3>2, <3>3
  <2> QED
    BY <2>1, <2>2
<1>2. Takes(hit, n, L, W)
  BY <1>1 DEF Takes
<1> QED
  BY <1>2

\* A walk that never steps over a place outside of Skipped takes all of those.
LEMMA WalkTakes ==
  ASSUME NEW n, NEW hit, IsWalk(hit, n), NEW L, NEW W, Takes(hit, n, L, W), NEW Skipped,
         \A i \in 1..n : hit[i] = IF i \in Skipped THEN i + 1 ELSE i
  PROVE  \A i \in (1..n) \ Skipped : L[i] \in W[1]
<1> DEFINE Whole(k) == W[k] \subseteq W[1]
           J(k) == \/ Whole(k)
                   \/ L[k] \in W[1] /\ Whole(k + 1)
           Wrong == {k \in 1..n : ~J(k)}
<1>1. ASSUME NEW i \in Places(n)
      PROVE  W[i] = IF Ends(hit, n, i) THEN {} ELSE {L[hit[i]]} \cup W[hit[i] + 1]
  BY DEF Takes
<1>2. n \in Nat
  BY DEF IsWalk
<1>3. ASSUME NEW k \in 1..n, k + 1 \in 1..n, J(k)
      PROVE  J(k + 1)
  <2>1. k \in Places(n)
    BY <1>2 DEF Places
  <2>2. CASE ~Whole(k)
    BY <1>3, <2>2
  <2>3. CASE Whole(k) /\ k \in Skipped
    <3>1. hit[k] = k + 1 /\ ~Ends(hit, n, k)
      BY <1>2, <1>3, <2>3 DEF Ends
    <3>2. W[k] = {L[k + 1]} \cup W[(k + 1) + 1]
      BY <1>1, <2>1, <3>1
    <3> QED
      BY <2>3, <3>2
  <2>4. CASE Whole(k) /\ k \notin Skipped
    <3>1. hit[k] = k /\ ~Ends(hit, n, k)
      BY <1>2, <1>3, <2>4 DEF Ends
    <3>2. W[k] = {L[k]} \cup W[k + 1]
      BY <1>1, <2>1, <3>1
    <3> QED
      BY <2>4, <3>2
  <2> QED
    BY <2>2, <2>3, <2>4
<1>4. Wrong = {}
  <2> SUFFICES ASSUME Wrong # {}
               PROVE  FALSE
    OBVIOUS
  <2>1. Wrong \in SUBSET Nat
    BY <1>2
  <2>2. PICK k \in Wrong : \A j \in Wrong : k <= j
    BY <2>1, Least
  <2>3. k \in 1..n /\ ~J(k)
    BY <2>2
  <2>4. k # 1
    BY <2>3
  <2>5. k - 1 \in 1..n /\ (k - 1) + 1 = k /\ ~(k <= k - 1)
    BY <1>2, <2>3, <2>4
  <2>6. k - 1 \notin Wrong
    BY <2>2, <2>5
  <2>7. J(k - 1)
    BY <2>5, <2>6
  <2> HIDE DEF J
  <2> QED
    BY <1>3, <2>3, <2>5, <2>7
<1>5. ASSUME NEW i \in (1..n) \ Skipped
      PROVE  L[i] \in W[1]
  <2>1. i \in Places(n) /\ hit[i] = i /\ ~Ends(hit, n, i)
    BY <1>2 DEF Places, Ends
  <2>2. L[i] \in W[i]
    BY <1>1, <2>1
  <2>3. J(i)
    BY <1>4
  <2> QED
    BY <2>2, <2>3
<1> QED
  BY <1>5

LEMMA AlarmTargetsAll ==
  ASSUME NEW L \in Seq(Proc), NEW i \in 1..Len(L), L[i] \notin OptP
  PROVE  L[i] \in AlarmTargets(L)
<1> DEFINE n == Len(L)
           hit == [j \in 1..n |-> IF L[j] \in OptP THEN j + 1 ELSE j]
           Skipped == {j \in 1..n : L[j] \in OptP}
           Hit(j) == IF L[j] \in OptP THEN j + 1 ELSE j
           Walk(W) == W = [j \in 1..(Len(L) + 2) |->
                             IF j > Len(L) \/ Hit(j) > Len(L) THEN {}
                             ELSE {L[Hit(j)]} \cup W[Hit(j) + 1]]
           W == CHOOSE W : Walk(W)
<1>1. n \in Nat
  BY LenProperties
<1>2. IsWalk(hit, n)
  BY <1>1 DEF IsWalk
<1>3. \A V : Walk(V) <=> Takes(hit, n, L, V)
  <2>1. ASSUME NEW V, NEW j \in Places(n)
        PROVE  (IF j > Len(L) \/ Hit(j) > Len(L) THEN {} ELSE {L[Hit(j)]} \cup V[Hit(j) + 1])
             = (IF Ends(hit, n, j) THEN {} ELSE {L[hit[j]]} \cup V[hit[j] + 1])
    <3>1. j \in 1..n => hit[j] = Hit(j)
      OBVIOUS
    <3>2. j > n \/ j \in 1..n
      BY <1>1 DEF Places
    <3> HIDE DEF hit, Hit
    <3> QED
      BY <3>1, <3>2 DEF Ends
  <2> DEFINE Mine(V) == [j \in Places(n) |->
               IF j > Len(L) \/ Hit(j) > Len(L) THEN {} ELSE {L[Hit(j)]} \cup V[Hit(j) + 1]]
             Its(V) == [j \in Places(n) |->
               IF Ends(hit, n, j) THEN {} ELSE {L[hit[j]]} \cup V[hit[j] + 1]]
  <2>2. ASSUME NEW V
        PROVE  Mine(V) = Its(V)
    <3> HIDE DEF hit, Hit
    <3> QED
      BY <2>1, Zenon
  <2>3. \A V : Walk(V) <=> V = Mine(V)
    BY Zenon DEF Places
  <2>4. \A V : Takes(hit, n, L, V) <=> V = Its(V)
    BY Zenon DEF Takes
  <2> HIDE DEF Mine, Its, Walk
  <2> QED
    BY <2>2, <2>3, <2>4
<1>4. Walk(W)
  <2>1. \E V : Walk(V)
    BY <1>2, <1>3, WalkExists
  <2> HIDE DEF Walk
  <2> QED
    BY <2>1
<1>5. AlarmTargets(L) = W[1]
  BY DEF AlarmTargets
<1>6. \A j \in 1..n : hit[j] = IF j \in Skipped THEN j + 1 ELSE j
  OBVIOUS
<1>7. i \in (1..n) \ Skipped
  OBVIOUS
<1>8. Takes(hit, n, L, W)
  BY <1>3, <1>4
<1> HIDE DEF W, hit, Skipped, n
<1> QED
  BY <1>2, <1>5, <1>6, <1>7, <1>8, WalkTakes

\* Wherever the processes of -p are on the list, the alarm stops every other
\* process that is on it (ltrace.c 40-60)
THEOREM AlarmReachesCommands == StartSpec => AlarmStopsCommands
<1> DEFINE Stops == alarm /\ ~alarm' => \A p \in Listed \ OptP : state[p] \in Living => sigstop'[p]
<1>1. Inv /\ [StartNext]_allVars => [Stops]_vars
  <2> SUFFICES ASSUME Inv, [StartNext]_allVars, alarm, ~alarm'
               PROVE  Stops
    BY DEF allVars
  <2>1. SignalAlarm
    <3>1. StartNext
      BY DEF allVars, vars, tracerVars
    <3>2. Next
      BY <3>1 DEF StartNext, ReadOption, EndOptions, Parsing, OptionP, OptionL, OptionTime,
                  OptionExits, Quit, OpenCommand, Fork, Attach, OpenPid, EnterLoop
    <3> QED
      BY <3>2 DEF Next, Environment, TakeStop, Other, Die, Killed, Handle, WrongTid, FirstEvent,
                  Resume, Opened, ProcessExit, DisableAll, SignalExit, LetGo, Untrace,
                  RemoveProc, UseAfterFree, Exit, Terminated, vars, tracerVars
  <2> SUFFICES ASSUME NEW p \in Listed \ OptP, state[p] \in Living
               PROVE  sigstop'[p]
    OBVIOUS
  <2>2. list_of_processes \in Seq(Proc) /\ Listed \subseteq Proc
    BY ListedIs DEF Inv, Types
  <2>3. PICK i \in 1..Len(list_of_processes) : list_of_processes[i] = p
    BY DEF Listed
  <2>4. p \in AlarmTargets(list_of_processes)
    BY <2>2, <2>3, AlarmTargetsAll
  <2>5. sigstop' = [q \in Proc |-> sigstop[q] \/ (q \in AlarmTargets(list_of_processes)
                                                  /\ state[q] \in Living)]
    BY <2>1 DEF SignalAlarm, Stopped
  <2> QED
    BY <2>2, <2>4, <2>5
<1> QED
  BY <1>1, AlwaysInv, PTL DEF StartSpec, AlarmStopsCommands

====
