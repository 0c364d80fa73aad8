---- MODULE CallFlow ----
(***************************************************************************)
(* What utrace promises of one thread: the calls it displays as open are   *)
(* the calls of traced functions in progress, and the program does not get *)
(* ahead of the display by more than the one call or return that has just  *)
(* hit a breakpoint.                                                       *)
(***************************************************************************)
EXTENDS Naturals, Sequences

CONSTANTS Entry, Site

VARIABLES
  live,   \* calls in progress, innermost last
  shown   \* calls displayed and not yet displayed as returned

vars == <<live, shown>>

Caught == shown = live

Call(f, r) ==
  /\ Caught
  /\ live' = Append(live, [fn |-> f, ret |-> r])
  /\ UNCHANGED shown

Return ==
  /\ Caught
  /\ live # << >>
  /\ live' = SubSeq(live, 1, Len(live) - 1)
  /\ UNCHANGED shown

Show ==
  /\ ~Caught
  /\ shown' = live
  /\ UNCHANGED live

Init == live = << >> /\ shown = << >>

Next == (\E f \in Entry, r \in Site : Call(f, r)) \/ Return \/ Show

Spec == Init /\ [][Next]_vars

====
