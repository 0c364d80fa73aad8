---- MODULE MCEventLookup ----
(* Processes of one thread each: a command and processes of -p.            *)
EXTENDS EventLookup
CONSTANTS cmd, p1, p2, p3
Self == [t \in Tid |-> t]
====
