---- MODULE MCCallTracer ----
(***************************************************************************)
(* Instances of CallTracer.  Model values stand for addresses: f, g are    *)
(* entries, r, s return sites, x is both (the function that follows a call *)
(* that ends another function).                                            *)
(***************************************************************************)
EXTENDS CallTracer

CONSTANTS f, g, r, s, x

\* f has two names (an alias in the symbol table)
Aliased == [a \in {f, r, x} |-> IF a = f THEN 2 ELSE IF a = x THEN 1 ELSE 0]
OverlapSite == {r, x}

Plainly == [a \in {f, g, r, s} |-> IF a \in {f, g} THEN 1 ELSE 0]
TwoSites == {r, s}

====
