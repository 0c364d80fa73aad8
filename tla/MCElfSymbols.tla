---- MODULE MCElfSymbols ----
(* An instance of ElfSymbols: a and b share a bucket, c does not.          *)
EXTENDS ElfSymbols

CONSTANTS a, b, c

Numbered == [x \in Addr |-> IF x = a THEN 1 ELSE IF x = b THEN 3 ELSE 2]
====
