---- MODULE OutputProofs ----
(***************************************************************************)
(* Output implements LineDisplay, for every number of threads, nesting     *)
(* limit and length of the run.                                            *)
(***************************************************************************)
EXTENDS Output, SequenceTheorems, TLAPS

----
(* The inductive invariant.                                                *)

\* A line is open exactly while current_pid says so, at its thread and depth.
PartialMatches ==
  IF current_pid = NoThread
  THEN partial = NoLine
  ELSE /\ partial.left # NoCall /\ partial.right = NoCall
       /\ partial.tid = current_pid /\ partial.depth = current_depth

\* A displayed call on a stack has not returned, and its left half, at the
\* depth of its frame, is the pending one or ended in a line of its own.
FrameShown(t, i) ==
  LET c == callstack[t][i].call
  IN c # NoCall =>
       /\ \A l \in lines : l.right # c
       /\ \/ current_pid = t /\ current_depth = i - 1 /\ partial.left = c
          \/ /\ partial.left # c
             /\ \E l \in lines : l.left = c /\ l.right = NoCall /\ l.depth = i - 1

\* The frame where the pending left half was printed is that call's, or one
\* that is not displayed.
PendingFrame(t, i) ==
  current_pid = t /\ current_depth = i - 1 =>
    callstack[t][i].call \in {partial.left, NoCall}

\* Only system calls go without display, and only without -S.
Displayed(t, i) ==
  callstack[t][i].call = NoCall <=> (callstack[t][i].is_syscall /\ ~opt_S)

FramesOK ==
  \A t \in Thread : \A i \in 1..Depth(t) :
    FrameShown(t, i) /\ PendingFrame(t, i) /\ Displayed(t, i)

OneFrame ==
  \A t, u \in Thread : \A i \in 1..Depth(t), j \in 1..Depth(u) :
    callstack[t][i].call = callstack[u][j].call /\ callstack[t][i].call # NoCall
      => t = u /\ i = j

Numbered ==
  /\ \A t \in Thread : \A i \in 1..Depth(t) : callstack[t][i].call <= calls
  /\ \A l \in lines \cup {partial} : l.left <= calls /\ l.right <= calls

DisplayInv == TypeOK /\ PartialMatches /\ FramesOK /\ OneFrame /\ Numbered

----
(* What an event does to the stacks.                                       *)

\* The stacks after a step: cut, or with one new frame on top of t's.
Cutting ==
  /\ callstack' \in [Thread -> Seq(Frames)]
  /\ \A u \in Thread : Len(callstack'[u]) \in 0..MaxDepth
  /\ \A u \in Thread : \A k \in 1..Len(callstack'[u]) :
       k \in 1..Depth(u) /\ callstack'[u][k] = callstack[u][k]

Pushing(t, fr) ==
  /\ callstack' \in [Thread -> Seq(Frames)]
  /\ \A u \in Thread : Len(callstack'[u]) \in 0..MaxDepth
  /\ \A u \in Thread : \A k \in 1..Len(callstack'[u]) :
       \/ k \in 1..Depth(u) /\ callstack'[u][k] = callstack[u][k]
       \/ u = t /\ k = Depth(t) + 1 /\ callstack'[u][k] = fr

\* OneFrame after a step, in terms of the new stacks.
LEMMA OneFrameAfter ==
  ASSUME \A t, u \in Thread : \A i \in 1..Len(callstack'[t]), j \in 1..Len(callstack'[u]) :
           callstack'[t][i].call = callstack'[u][j].call /\ callstack'[t][i].call # NoCall
             => t = u /\ i = j
  PROVE  OneFrame'
BY DEF OneFrame, Depth

\* What a stack holds.
LEMMA StackTypes ==
  ASSUME TypeOK, NEW t \in Thread
  PROVE  /\ callstack[t] \in Seq(Frames)
         /\ Depth(t) \in Nat /\ Depth(t) \in 0..MaxDepth
         /\ \A i \in 1..Depth(t) :
              /\ callstack[t][i].call \in Nat
              /\ callstack[t][i].is_syscall \in BOOLEAN
<1>1. callstack[t] \in Seq(Frames) /\ Depth(t) \in Nat /\ Depth(t) <= MaxDepth
  BY LenProperties DEF TypeOK, Depth
<1>2. \A i \in 1..Depth(t) : callstack[t][i] \in Frames
  BY <1>1, ElementOfSeq DEF Depth
<1> QED
  BY <1>1, <1>2, BoundAssumption DEF Frames

LEMMA PopCuts ==
  ASSUME TypeOK, NEW t \in Thread, NEW i \in Nat \ {0}, i <= Depth(t) + 1, PopFrom(t, i)
  PROVE  Cutting /\ Len(callstack'[t]) = i - 1
<1>1. callstack[t] \in Seq(Frames) /\ Depth(t) \in Nat
  BY StackTypes
<1> DEFINE s == SubSeq(callstack[t], 1, i - 1)
<1>2. \A k \in 1..(i - 1) : callstack[t][k] \in Frames
  BY <1>1, ElementOfSeq DEF Depth
<1>3. s \in Seq(Frames) /\ Len(s) = i - 1 /\ \A k \in 1..(i - 1) : s[k] = callstack[t][k]
  BY <1>1, <1>2, SubSeqProperties DEF Depth
<1>4. callstack' = [callstack EXCEPT ![t] = s]
  BY DEF PopFrom
<1>5. callstack'[t] = s /\ \A u \in Thread : u # t => callstack'[u] = callstack[u]
  BY <1>4 DEF TypeOK
<1>6. callstack' \in [Thread -> Seq(Frames)]
  BY <1>3, <1>4 DEF TypeOK
<1>7. \A u \in Thread : Depth(u) \in Nat /\ Depth(u) \in 0..MaxDepth
  BY StackTypes
<1> HIDE DEF s
<1>8. ASSUME NEW u \in Thread
      PROVE  /\ Len(callstack'[u]) \in 0..MaxDepth
             /\ \A k \in 1..Len(callstack'[u]) :
                  k \in 1..Depth(u) /\ callstack'[u][k] = callstack[u][k]
  <2>1. CASE u = t
    BY <1>1, <1>3, <1>5, <1>7, <2>1, BoundAssumption
  <2>2. CASE u # t
    BY <1>5, <1>7, <2>2 DEF Depth
  <2> QED
    BY <2>1, <2>2
<1> QED
  BY <1>3, <1>5, <1>6, <1>8 DEF Cutting

LEMMA PushFits ==
  ASSUME TypeOK, NEW t \in Thread, NEW fr \in Frames, Push(t, fr)
  PROVE  Pushing(t, fr)
<1>1. callstack[t] \in Seq(Frames) /\ Depth(t) \in 0..MaxDepth
  BY StackTypes
<1>2. \A u \in Thread : Depth(u) \in 0..MaxDepth /\ Depth(u) \in Nat
  BY StackTypes
<1>3. CASE Depth(t) = MaxDepth
  <2>1. callstack' = callstack
    BY <1>3 DEF Push
  <2>2. callstack \in [Thread -> Seq(Frames)]
    BY DEF TypeOK
  <2> QED
    BY <1>2, <2>1, <2>2 DEF Pushing, Depth
<1>4. CASE Depth(t) # MaxDepth
  <2> DEFINE s == Append(callstack[t], fr)
  <2>1. /\ s \in Seq(Frames) /\ Len(s) = Depth(t) + 1
        /\ s[Depth(t) + 1] = fr
        /\ \A k \in 1..Depth(t) : s[k] = callstack[t][k]
    BY <1>1, AppendProperties DEF Depth
  <2>2. callstack' = [callstack EXCEPT ![t] = s]
    BY <1>4 DEF Push
  <2>3. callstack'[t] = s /\ \A u \in Thread : u # t => callstack'[u] = callstack[u]
    BY <2>2 DEF TypeOK
  <2>4. callstack' \in [Thread -> Seq(Frames)]
    BY <2>1, <2>2 DEF TypeOK
  <2> HIDE DEF s
  <2>5. \A u \in Thread : Len(callstack'[u]) \in 0..MaxDepth
    BY <1>1, <1>2, <1>4, <2>1, <2>3, BoundAssumption DEF Depth
  <2> QED
    BY <1>1, <1>2, <2>1, <2>3, <2>4, <2>5 DEF Pushing, Depth
<1> QED
  BY <1>3, <1>4

----
(* The printing.                                                           *)

\* The types of the statics and of the output.
LEMMA PrintTypes ==
  ASSUME DisplayInv
  PROVE  /\ current_depth \in Nat /\ current_depth \in 0..MaxDepth
         /\ current_pid \in Thread \cup {NoThread} /\ calls \in Nat
         /\ lines \subseteq Line /\ partial \in Line
         /\ opt_S \in BOOLEAN
         /\ Cut = Display!Ended
         /\ partial = NoLine <=> current_pid = NoThread
<1>1. partial = NoLine <=> current_pid = NoThread
  BY DEF DisplayInv, PartialMatches, NoLine
<1> QED
  BY <1>1, BoundAssumption DEF DisplayInv, TypeOK, Cut, Display!Ended

\* After a step without output, in which frames go or an undisplayed system
\* call comes, the invariant holds.
LEMMA SilentStep ==
  ASSUME DisplayInv, Silent, calls' = calls,
         \/ Cutting
         \/ ~opt_S /\ \E t \in Thread : Pushing(t, Frame(TRUE, NoCall))
  PROVE  DisplayInv'
<1>1. /\ callstack' \in [Thread -> Seq(Frames)]
      /\ \A u \in Thread : Len(callstack'[u]) \in 0..MaxDepth
      /\ \A u \in Thread : \A k \in 1..Len(callstack'[u]) :
           \/ k \in 1..Depth(u) /\ callstack'[u][k] = callstack[u][k]
           \/ ~opt_S /\ callstack'[u][k] = Frame(TRUE, NoCall)
  BY DEF Cutting, Pushing
<1>2. Frame(TRUE, NoCall).is_syscall = TRUE /\ Frame(TRUE, NoCall).call = NoCall
  BY DEF Frame
<1>3. UNCHANGED <<opt_S, lines, partial, current_pid, current_depth>>
  BY DEF Silent
<1>4. TypeOK'
  BY <1>1, <1>3 DEF DisplayInv, TypeOK, Depth
<1>5. PartialMatches'
  BY <1>3 DEF DisplayInv, PartialMatches, NoLine
<1>6. FramesOK'
  <2> SUFFICES ASSUME NEW u \in Thread, NEW k \in 1..Len(callstack'[u])
               PROVE  (FrameShown(u, k) /\ PendingFrame(u, k) /\ Displayed(u, k))'
    BY DEF FramesOK, Depth
  <2>1. CASE k \in 1..Depth(u) /\ callstack'[u][k] = callstack[u][k]
    BY <1>3, <2>1 DEF DisplayInv, FramesOK, FrameShown, PendingFrame, Displayed
  <2>2. CASE ~opt_S /\ callstack'[u][k] = Frame(TRUE, NoCall)
    BY <1>2, <1>3, <2>2 DEF FrameShown, PendingFrame, Displayed
  <2> QED
    BY <1>1, <2>1, <2>2
<1>7. OneFrame'
  <2> SUFFICES ASSUME NEW t \in Thread, NEW u \in Thread,
                      NEW i \in 1..Len(callstack'[t]), NEW j \in 1..Len(callstack'[u]),
                      callstack'[t][i].call = callstack'[u][j].call,
                      callstack'[t][i].call # NoCall
               PROVE  t = u /\ i = j
    BY DEF OneFrame, Depth
  <2>1. /\ i \in 1..Depth(t) /\ callstack'[t][i] = callstack[t][i]
        /\ j \in 1..Depth(u) /\ callstack'[u][j] = callstack[u][j]
    BY <1>1, <1>2
  <2> QED
    BY <2>1 DEF DisplayInv, OneFrame
<1>8. Numbered'
  <2>1. calls \in Nat
    BY PrintTypes
  <2>2. ASSUME NEW u \in Thread, NEW k \in 1..Len(callstack'[u])
        PROVE  callstack'[u][k].call <= calls
    <3>1. CASE k \in 1..Depth(u) /\ callstack'[u][k] = callstack[u][k]
      BY <3>1 DEF DisplayInv, Numbered
    <3>2. CASE callstack'[u][k] = Frame(TRUE, NoCall)
      <4>1. callstack'[u][k].call = NoCall
        BY <1>2, <3>2
      <4> QED
        BY <2>1, <4>1 DEF NoCall
    <3> QED
      BY <1>1, <3>1, <3>2
  <2>3. \A l \in lines' \cup {partial'} : l.left <= calls /\ l.right <= calls
    BY <1>3 DEF DisplayInv, Numbered
  <2> QED
    BY <2>2, <2>3 DEF Numbered, Depth
<1> QED
  BY <1>4, <1>5, <1>6, <1>7, <1>8 DEF DisplayInv

\* output_line while frames go: a line of another kind.
LEMMA LineStep ==
  ASSUME DisplayInv, OutputLine, calls' = calls, Cutting
  PROVE  DisplayInv' /\ Display!Break
<1> USE PrintTypes
<1>1. /\ lines' = Cut /\ partial' = NoLine /\ current_pid' = NoThread
      /\ opt_S' = opt_S /\ current_depth' = current_depth
  BY DEF OutputLine
<1>2. TypeOK'
  <2>1. \A u \in Thread : Len(callstack'[u]) <= MaxDepth
    BY BoundAssumption DEF Cutting
  <2>2. NoLine \in Line
    BY BoundAssumption DEF NoLine, NoCall, Line
  <2> QED
    BY <1>1, <2>1, <2>2 DEF TypeOK, Cut, Cutting, Depth
<1>3. PartialMatches'
  BY <1>1 DEF PartialMatches, NoLine
<1>4. FramesOK'
  <2> SUFFICES ASSUME NEW u \in Thread, NEW k \in 1..Len(callstack'[u])
               PROVE  (FrameShown(u, k) /\ PendingFrame(u, k) /\ Displayed(u, k))'
    BY DEF FramesOK, Depth
  <2>1. k \in 1..Depth(u) /\ callstack'[u][k] = callstack[u][k]
    BY DEF Cutting
  <2>2. FrameShown(u, k) /\ Displayed(u, k)
    BY <2>1 DEF DisplayInv, FramesOK
  <2>3. PendingFrame(u, k)' /\ Displayed(u, k)'
    BY <1>1, <2>1, <2>2, ThreadAssumption DEF PendingFrame, Displayed
  <2>4. FrameShown(u, k)'
    BY <1>1, <2>1, <2>2, ThreadAssumption
    DEF FrameShown, Cut, NoLine, NoCall, DisplayInv, PartialMatches
  <2> QED
    BY <2>3, <2>4
<1>5. OneFrame'
  <2> SUFFICES ASSUME NEW t \in Thread, NEW u \in Thread,
                      NEW i \in 1..Len(callstack'[t]), NEW j \in 1..Len(callstack'[u]),
                      callstack'[t][i].call = callstack'[u][j].call,
                      callstack'[t][i].call # NoCall
               PROVE  t = u /\ i = j
    BY DEF OneFrame, Depth
  <2> QED
    BY DEF DisplayInv, OneFrame, Cutting
<1>6. Numbered'
  <2>1. ASSUME NEW u \in Thread, NEW k \in 1..Len(callstack'[u])
        PROVE  callstack'[u][k].call <= calls
    BY DEF DisplayInv, Numbered, Cutting
  <2>2. \A l \in lines' \cup {partial'} : l.left <= calls /\ l.right <= calls
    BY <1>1 DEF DisplayInv, Numbered, Cut, NoLine, NoCall
  <2> QED
    BY <2>1, <2>2 DEF Numbered, Depth
<1> QED
  BY <1>1, <1>2, <1>3, <1>4, <1>5, <1>6 DEF DisplayInv, Display!Break

\* output_left for a new call, whose frame is pushed unless it is refused.
LEMMA LeftStep ==
  ASSUME DisplayInv, NEW t \in Thread, NEW sys \in BOOLEAN, sys => opt_S,
         calls' = calls + 1, OutputLeft(t, calls + 1, Depth(t)),
         Push(t, Frame(sys, calls + 1))
  PROVE  DisplayInv' /\ Display!Left(partial')
<1> USE PrintTypes
<1> DEFINE c == calls + 1
           fr == Frame(sys, c)
<1>1. /\ lines' = Cut /\ current_pid' = t /\ opt_S' = opt_S
      /\ partial' = [left |-> c, right |-> NoCall, depth |-> Depth(t), tid |-> t]
      /\ current_depth' = Depth(t)
  BY DEF OutputLeft
<1>2. fr \in Frames /\ fr.call = c /\ fr.is_syscall = sys /\ c \in Nat /\ c # NoCall
  BY DEF Frame, Frames, NoCall
<1>3. Pushing(t, fr)
  BY <1>2, PushFits DEF DisplayInv
<1>4. Depth(t) \in Nat /\ Depth(t) \in 0..MaxDepth
  BY StackTypes DEF DisplayInv
<1>5. \A l \in lines \cup {partial} :
        /\ l.left \in Nat /\ l.right \in Nat
        /\ l.left # c /\ l.right # c
  BY DEF DisplayInv, Numbered, Line
<1>6. \A u \in Thread : \A k \in 1..Depth(u) :
        callstack[u][k].call \in Nat /\ callstack[u][k].call # c
  BY StackTypes DEF DisplayInv, Numbered
<1> HIDE DEF c, fr
<1>7. TypeOK'
  BY <1>1, <1>2, <1>3, <1>4, BoundAssumption
  DEF TypeOK, Cut, Pushing, Depth, Line, NoCall, c
<1>8. PartialMatches'
  BY <1>1, <1>2, ThreadAssumption DEF PartialMatches
<1>9. FramesOK'
  <2> SUFFICES ASSUME NEW u \in Thread, NEW k \in 1..Len(callstack'[u])
               PROVE  (FrameShown(u, k) /\ PendingFrame(u, k) /\ Displayed(u, k))'
    BY DEF FramesOK, Depth
  <2>1. CASE k \in 1..Depth(u) /\ callstack'[u][k] = callstack[u][k]
    <3>1. FrameShown(u, k) /\ Displayed(u, k)
      BY <2>1 DEF DisplayInv, FramesOK
    <3>2. PendingFrame(u, k)'
      BY <1>1, <1>4, <2>1 DEF PendingFrame
    <3>3. Displayed(u, k)'
      BY <1>1, <2>1, <3>1 DEF Displayed
    <3>4. FrameShown(u, k)'
      BY <1>1, <1>6, <2>1, <3>1, ThreadAssumption
      DEF FrameShown, Cut, DisplayInv, PartialMatches, NoCall
    <3> QED
      BY <3>2, <3>3, <3>4
  <2>2. CASE u = t /\ k = Depth(t) + 1 /\ callstack'[u][k] = fr
    <3>1. FrameShown(u, k)'
      BY <1>1, <1>2, <1>4, <1>5, <2>2 DEF FrameShown, Cut
    <3>2. PendingFrame(u, k)' /\ Displayed(u, k)'
      BY <1>1, <1>2, <2>2 DEF PendingFrame, Displayed
    <3> QED
      BY <3>1, <3>2
  <2> QED
    BY <1>3, <2>1, <2>2 DEF Pushing
<1>10. OneFrame'
  <2> SUFFICES ASSUME NEW w \in Thread, NEW u \in Thread,
                      NEW i \in 1..Len(callstack'[w]), NEW j \in 1..Len(callstack'[u]),
                      callstack'[w][i].call = callstack'[u][j].call,
                      callstack'[w][i].call # NoCall
               PROVE  w = u /\ i = j
    BY OneFrameAfter
  <2>1. CASE callstack'[w][i].call = c
    BY <1>2, <1>3, <1>6, <2>1 DEF Pushing
  <2>2. CASE callstack'[w][i].call # c
    <3>1. /\ i \in 1..Depth(w) /\ callstack'[w][i] = callstack[w][i]
          /\ j \in 1..Depth(u) /\ callstack'[u][j] = callstack[u][j]
      BY <1>2, <1>3, <2>2 DEF Pushing
    <3> QED
      BY <3>1 DEF DisplayInv, OneFrame
  <2> QED
    BY <2>1, <2>2
<1>11. Numbered'
  <2>1. ASSUME NEW u \in Thread, NEW k \in 1..Len(callstack'[u])
        PROVE  callstack'[u][k].call <= calls'
    <3>1. CASE k \in 1..Depth(u) /\ callstack'[u][k] = callstack[u][k]
      BY <1>6, <3>1 DEF DisplayInv, Numbered
    <3>2. CASE callstack'[u][k] = fr
      BY <1>2, <3>2 DEF c
    <3> QED
      BY <1>3, <3>1, <3>2 DEF Pushing
  <2>2. \A l \in lines' \cup {partial'} : l.left <= calls' /\ l.right <= calls'
    BY <1>1, <1>5 DEF DisplayInv, Numbered, Cut, NoCall, c
  <2> QED
    BY <2>1, <2>2 DEF Numbered, Depth
<1>12. Display!Left(partial')
  BY <1>1, <1>2, <1>5 DEF Display!Left, Display!Ended, NoLine
<1> QED
  BY <1>7, <1>8, <1>9, <1>10, <1>11, <1>12 DEF DisplayInv

\* output_right for a call that is on a stack, whose frame is popped: its own
\* left half is completed, or it gets a line.
LEMMA RightStep ==
  ASSUME DisplayInv, NEW t \in Thread, NEW i \in 1..Depth(t),
         callstack[t][i].call # NoCall, calls' = calls,
         OutputRight(t, callstack[t][i].call, i - 1), PopFrom(t, i)
  PROVE  DisplayInv' /\ (Display!Join \/ \E r \in lines' : Display!Resume(r))
<1> USE PrintTypes
<1> DEFINE c == callstack[t][i].call
           joins == current_pid = t /\ current_depth = i - 1
           r == [left |-> NoCall, right |-> c, depth |-> i - 1, tid |-> NoThread]
<1>1. /\ lines' = IF joins THEN Joined(c) ELSE Resumed(c, i - 1)
      /\ partial' = NoLine /\ current_pid' = NoThread
      /\ opt_S' = opt_S /\ current_depth' = current_depth
  BY DEF OutputRight
<1>2. Depth(t) \in Nat /\ Depth(t) \in 0..MaxDepth /\ i \in Nat \ {0} /\ c \in Nat
  BY StackTypes DEF DisplayInv
<1>3. Cutting /\ Len(callstack'[t]) = i - 1
  <2>1. i <= Depth(t) + 1
    BY <1>2
  <2> QED
    BY <1>2, <2>1, PopCuts DEF DisplayInv
<1>4. FrameShown(t, i) /\ PendingFrame(t, i) /\ c <= calls
  BY DEF DisplayInv, FramesOK, Numbered
<1>5. joins => partial.left = c
  BY <1>4 DEF PendingFrame
<1>6. ~joins => /\ partial.left # c
                /\ \E l \in lines : l.left = c /\ l.right = NoCall /\ l.depth = i - 1
  BY <1>4 DEF FrameShown
<1>7. \A l \in lines : l.right # c
  BY <1>4 DEF FrameShown
<1>8. lines' = IF joins THEN lines \cup {[partial EXCEPT !.right = c]} ELSE Cut \cup {r}
  BY <1>1 DEF Joined, Resumed
<1>9. \A u \in Thread : \A k \in 1..Len(callstack'[u]) :
        /\ k \in 1..Depth(u) /\ callstack'[u][k] = callstack[u][k]
        /\ callstack[u][k].call # c
        /\ joins => ~(current_pid = u /\ current_depth = k - 1)
  <2> TAKE u \in Thread
  <2> TAKE k \in 1..Len(callstack'[u])
  <2>1. k \in 1..Depth(u) /\ callstack'[u][k] = callstack[u][k] /\ ~(u = t /\ k = i)
    BY <1>2, <1>3 DEF Cutting
  <2>2. callstack[u][k].call # c
    BY <2>1 DEF DisplayInv, OneFrame
  <2> QED
    BY <1>2, <2>1, <2>2
<1>9a. /\ lines \subseteq lines'
       /\ ~joins /\ current_pid # NoThread => partial \in lines'
       /\ \A l \in lines' :
            l \in lines \/ l.right = c \/ (current_pid # NoThread /\ l = partial)
  BY <1>8 DEF Line, Cut
<1> HIDE DEF c, joins, r
<1>10. TypeOK'
  <2>1. r \in Line /\ (joins => [partial EXCEPT !.right = c] \in Line)
    BY <1>2, BoundAssumption DEF Line, NoCall, r
  <2>2. NoLine \in Line
    BY BoundAssumption DEF NoLine, NoCall, Line
  <2>3. lines' \subseteq Line
    BY <1>8, <2>1 DEF Cut
  <2>4. \A u \in Thread : Len(callstack'[u]) <= MaxDepth
    BY <1>3, BoundAssumption DEF Cutting
  <2> QED
    BY <1>1, <1>3, <2>2, <2>3, <2>4 DEF TypeOK, Cutting, Depth
<1>11. PartialMatches'
  BY <1>1 DEF PartialMatches, NoLine
<1>12. FramesOK'
  <2> SUFFICES ASSUME NEW u \in Thread, NEW k \in 1..Len(callstack'[u])
               PROVE  (FrameShown(u, k) /\ PendingFrame(u, k) /\ Displayed(u, k))'
    BY DEF FramesOK, Depth
  <2>1. FrameShown(u, k) /\ Displayed(u, k)
    BY <1>9 DEF DisplayInv, FramesOK
  <2>2. PendingFrame(u, k)' /\ Displayed(u, k)'
    BY <1>1, <1>9, <2>1, ThreadAssumption DEF PendingFrame, Displayed
  <2>3. FrameShown(u, k)'
    <3> DEFINE e == callstack[u][k].call
    <3>1. SUFFICES ASSUME e # NoCall
                   PROVE  /\ \A l \in lines' : l.right # e
                          /\ partial'.left # e
                          /\ \E l \in lines' :
                               l.left = e /\ l.right = NoCall /\ l.depth = k - 1
      BY <1>9 DEF FrameShown
    <3>2. current_pid # NoThread =>
            partial.right = NoCall /\ partial.depth = current_depth
      BY DEF DisplayInv, PartialMatches
    <3>3. e # c
      BY <1>9
    <3>4. \A l \in lines' : l.right # e
      BY <1>9a, <2>1, <3>1, <3>2, <3>3 DEF FrameShown
    <3>5. partial'.left # e
      BY <1>1, <3>1 DEF NoLine
    <3>6. \E l \in lines' : l.left = e /\ l.right = NoCall /\ l.depth = k - 1
      <4>1. CASE current_pid = u /\ current_depth = k - 1 /\ partial.left = e
        BY <1>9, <1>9a, <3>2, <4>1, ThreadAssumption
      <4>2. CASE ~(current_pid = u /\ current_depth = k - 1 /\ partial.left = e)
        BY <1>9a, <2>1, <3>1, <4>2 DEF FrameShown
      <4> QED
        BY <4>1, <4>2
    <3> QED
      BY <3>4, <3>5, <3>6
  <2> QED
    BY <2>2, <2>3
<1>13. OneFrame'
  <2> SUFFICES ASSUME NEW w \in Thread, NEW u \in Thread,
                      NEW k \in 1..Len(callstack'[w]), NEW j \in 1..Len(callstack'[u]),
                      callstack'[w][k].call = callstack'[u][j].call,
                      callstack'[w][k].call # NoCall
               PROVE  w = u /\ k = j
    BY OneFrameAfter
  <2>1. /\ k \in 1..Depth(w) /\ callstack'[w][k] = callstack[w][k]
        /\ j \in 1..Depth(u) /\ callstack'[u][j] = callstack[u][j]
    BY <1>9
  <2> QED
    BY <2>1 DEF DisplayInv, OneFrame
<1>14. Numbered'
  <2>1. ASSUME NEW u \in Thread, NEW k \in 1..Len(callstack'[u])
        PROVE  callstack'[u][k].call <= calls
    BY <1>9 DEF DisplayInv, Numbered
  <2>2. \A l \in lines' \cup {partial'} : l.left <= calls /\ l.right <= calls
    BY <1>1, <1>4, <1>8 DEF DisplayInv, Numbered, Cut, NoLine, NoCall, Line, c, r
  <2> QED
    BY <2>1, <2>2 DEF Numbered, Depth
<1>15. joins => Display!Join
  BY <1>1, <1>5, <1>8, ThreadAssumption DEF Display!Join, joins
<1>16. ~joins => Display!Resume(r)
  BY <1>1, <1>6, <1>7, <1>8 DEF Display!Resume, c, r
<1> QED
  BY <1>8, <1>10, <1>11, <1>12, <1>13, <1>14, <1>15, <1>16 DEF DisplayInv

----
(* The theorems.                                                           *)

LEMMA DisplayInit == Init => DisplayInv /\ Display!Init
<1> SUFFICES ASSUME Init PROVE DisplayInv /\ Display!Init
  OBVIOUS
<1>1. /\ current_pid = NoThread /\ current_depth = 0 /\ calls = 0
      /\ lines = {} /\ partial = NoLine /\ opt_S \in BOOLEAN
      /\ callstack = [t \in Thread |-> << >>]
  BY DEF Init
<1>2. \A t \in Thread : callstack[t] = << >> /\ Depth(t) = 0
  BY <1>1 DEF Depth
<1>3. TypeOK
  BY <1>1, <1>2, BoundAssumption DEF TypeOK, NoLine, NoCall, Line
<1> QED
  BY <1>1, <1>2, <1>3
  DEF DisplayInv, PartialMatches, FramesOK, OneFrame, Numbered, NoLine, NoCall, Display!Init

LEMMA DisplayNext ==
  ASSUME DisplayInv, [Next]_vars
  PROVE  DisplayInv' /\ [Display!Next]_<<lines, partial>>
<1>1. CASE OtherLine
  <2>1. Cutting
    BY <1>1, StackTypes DEF OtherLine, Cutting, DisplayInv, TypeOK, Depth
  <2> QED
    BY <1>1, <2>1, LineStep DEF OtherLine, Display!Next
<1>2. ASSUME NEW t \in Thread, ThreadEvent(t)
      PROVE  DisplayInv' /\ [Display!Next]_<<lines, partial>>
  <2>0. TypeOK /\ Depth(t) \in Nat /\ opt_S \in BOOLEAN
    BY StackTypes, PrintTypes DEF DisplayInv
  <2>1. CASE ProcessSyscall(t)
    <3>1. CASE opt_S
      BY <2>0, <2>1, <3>1, LeftStep DEF ProcessSyscall, Display!Next
    <3>2. CASE ~opt_S
      <4>1. Pushing(t, Frame(TRUE, NoCall))
        <5>1. Frame(TRUE, NoCall) \in Frames
          BY DEF Frame, Frames, NoCall
        <5> QED
          BY <2>0, <2>1, <3>2, <5>1, PushFits DEF ProcessSyscall
      <4> QED
        BY <2>1, <3>2, <4>1, SilentStep DEF ProcessSyscall, Silent
    <3> QED
      BY <3>1, <3>2
  <2>2. CASE ProcessSysret(t)
    <3> DEFINE d == Depth(t)
    <3>1. d \in 1..Depth(t) /\ d \in Nat \ {0} /\ d <= Depth(t) + 1
      BY <2>0, <2>2 DEF ProcessSysret
    <3>2. Displayed(t, d)
      BY <3>1 DEF DisplayInv, FramesOK
    <3>3. CASE opt_S
      <4>1. callstack[t][d].call # NoCall
        BY <3>2, <3>3 DEF Displayed
      <4> QED
        BY <2>2, <3>1, <3>3, <4>1, RightStep DEF ProcessSysret, Display!Next
    <3>4. CASE ~opt_S
      <4>1. Cutting
        BY <2>0, <2>2, <3>1, PopCuts DEF ProcessSysret
      <4> QED
        BY <2>2, <3>4, <4>1, SilentStep DEF ProcessSysret, Silent
    <3> QED
      BY <3>3, <3>4
  <2>3. CASE EntryHit(t)
    BY <2>3, LeftStep DEF EntryHit, Display!Next
  <2>4. ASSUME NEW i \in 1..Depth(t), ReturnHit(t, i)
        PROVE  DisplayInv' /\ [Display!Next]_<<lines, partial>>
    <3>1. callstack[t][i].call # NoCall
      BY <2>4 DEF ReturnHit, DisplayInv, FramesOK, Displayed
    <3> QED
      BY <2>4, <3>1, RightStep DEF ReturnHit, Display!Next
  <2>5. CASE Exit(t)
    <3>1. Cutting
      BY <2>0, <2>5, PopCuts DEF Exit
    <3> QED
      BY <2>5, <3>1, LineStep DEF Exit, Display!Next
  <2>6. CASE Detach(t)
    <3>1. Cutting
      BY <2>0, <2>6, PopCuts DEF Detach
    <3> QED
      BY <2>6, <3>1, SilentStep DEF Detach, Silent
  <2> QED
    BY <1>2, <2>1, <2>2, <2>3, <2>4, <2>5, <2>6 DEF ThreadEvent
<1>3. CASE UNCHANGED vars
  <2>1. Cutting
    BY <1>3, StackTypes DEF vars, Cutting, DisplayInv, TypeOK, Depth
  <2> QED
    BY <1>3, <2>1, SilentStep DEF vars, Silent
<1> QED
  BY <1>1, <1>2, <1>3 DEF Next

\* The statics, stacks and lines have their types, and the nesting limit
\* holds for every thread.
THEOREM OutputTypeCorrect == Spec => []TypeOK
<1>1. Init => DisplayInv
  BY DisplayInit
<1>2. DisplayInv /\ [Next]_vars => DisplayInv'
  BY DisplayNext
<1>3. DisplayInv => TypeOK
  BY DEF DisplayInv
<1> QED
  BY <1>1, <1>2, <1>3, PTL DEF Spec

\* Whatever the interleaving of the threads, current_pid and current_depth
\* join the right halves and resume the others.
THEOREM OutputRefinesDisplay == Spec => ImplementsLineDisplay
<1>1. Init => DisplayInv /\ Display!Init
  BY DisplayInit
<1>2. DisplayInv /\ [Next]_vars => DisplayInv' /\ [Display!Next]_<<lines, partial>>
  BY DisplayNext
<1> QED
  BY <1>1, <1>2, PTL DEF Spec, ImplementsLineDisplay, Display!Spec
====
