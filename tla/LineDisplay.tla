---- MODULE LineDisplay ----
(***************************************************************************)
(* What the reader of the output is promised.  A call is shown by a left   *)
(* half, "+[d] name(args", and at most one right half, ") = result".  Both *)
(* stand on one line when nothing was printed in between; otherwise the    *)
(* line of the left half ends in "<unfinished ...>" and the right half     *)
(* gets a "-[d] name resumed>" line of its own, at the same depth.         *)
(***************************************************************************)

CONSTANTS NoCall, NoLine

VARIABLES
  lines,    \* the lines that ended: records with left, right, depth, tid
  partial   \* the line that did not, or NoLine

\* The lines once the partial one was ended
Ended == IF partial = NoLine THEN lines ELSE lines \cup {partial}

Init == lines = {} /\ partial = NoLine

\* The left half of a call that was never shown
Left(h) ==
  /\ h # NoLine /\ h.left # NoCall /\ h.right = NoCall
  /\ \A l \in Ended : l.left # h.left /\ l.right # h.left
  /\ lines' = Ended
  /\ partial' = h

\* The result of the call whose left half was just printed
Join ==
  /\ partial # NoLine
  /\ lines' = lines \cup {[partial EXCEPT !.right = partial.left]}
  /\ partial' = NoLine

\* The result of an earlier call, at the depth of its left half
Resume(r) ==
  /\ r.left = NoCall
  /\ partial = NoLine \/ partial.left # r.right
  /\ \E l \in lines : l.left = r.right /\ l.right = NoCall /\ l.depth = r.depth
  /\ \A l \in lines : l.right # r.right
  /\ lines' = Ended \cup {r}
  /\ partial' = NoLine

\* A line about something else, or the end of the output
Break == lines' = Ended /\ partial' = NoLine

\* The half and the line that a step prints are in its outcome
Next ==
  \/ Left(partial')
  \/ Join
  \/ \E r \in lines' : Resume(r)
  \/ Break

Spec == Init /\ [][Next]_<<lines, partial>>
====
