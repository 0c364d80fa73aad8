---- MODULE Breakpoints ----
(***************************************************************************)
(* What the table of breakpoints of a process promises: a reference count  *)
(* and a saved byte per address, as CallTracer has them.  An address that  *)
(* is counted has an int3 in memory from the time the breakpoints are      *)
(* enabled until its count comes back to 0 or all are disabled.            *)
(***************************************************************************)
EXTENDS Integers

CONSTANTS Addr

VARIABLES
  breakpoints_enabled,  \* -1 not enabled yet, 0 disabled, 1 enabled
  enabled,              \* [Addr -> Nat]
  orig_value,           \* [Addr -> the byte saved]
  text                  \* [Addr -> the byte in memory]

vars == <<breakpoints_enabled, enabled, orig_value, text>>

Counted == {a \in Addr : enabled[a] > 0}

Plant(A) ==
  /\ orig_value' = [a \in Addr |-> IF a \in A THEN text[a] ELSE orig_value[a]]
  /\ text' = [a \in Addr |-> IF a \in A THEN "int3" ELSE text[a]]

Restore(A) ==
  /\ text' = [a \in Addr |-> IF a \in A THEN orig_value[a] ELSE text[a]]
  /\ UNCHANGED orig_value

\* A symbol, before the process is there
Count(a) ==
  /\ breakpoints_enabled = -1
  /\ enabled' = [enabled EXCEPT ![a] = @ + 1]
  /\ UNCHANGED <<breakpoints_enabled, orig_value, text>>

\* A return address, one more time
Insert(a) ==
  /\ breakpoints_enabled = 1
  /\ enabled' = [enabled EXCEPT ![a] = @ + 1]
  /\ Plant(IF enabled[a] = 0 THEN {a} ELSE {})
  /\ UNCHANGED breakpoints_enabled

Delete(a) ==
  /\ breakpoints_enabled = 1 /\ enabled[a] > 0
  /\ enabled' = [enabled EXCEPT ![a] = @ - 1]
  /\ Restore(IF enabled[a] = 1 THEN {a} ELSE {})
  /\ UNCHANGED breakpoints_enabled

EnableAll ==
  /\ breakpoints_enabled = -1
  /\ breakpoints_enabled' = 1
  /\ Plant(Counted)
  /\ UNCHANGED enabled

DisableAll ==
  /\ breakpoints_enabled = 1
  /\ breakpoints_enabled' = 0
  /\ Restore(Counted)
  /\ UNCHANGED enabled

Init ==
  /\ breakpoints_enabled = -1
  /\ enabled = [a \in Addr |-> 0]
  /\ orig_value = [a \in Addr |-> "unset"]
  /\ text = [a \in Addr |-> "code"]

Next ==
  \/ \E a \in Addr : Count(a) \/ Insert(a) \/ Delete(a)
  \/ EnableAll
  \/ DisableAll

Spec == Init /\ [][Next]_vars
====
