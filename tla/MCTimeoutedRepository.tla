------------------------- MODULE MCTimeoutedRepository -------------------------
(* TimeoutedRepository with three handlers, the first two under one key. *)
EXTENDS TimeoutedRepository

CONSTANTS e1, e2, e3

MCKeyOf == [e \in {e1, e2, e3} |-> IF e = e3 THEN "k2" ELSE "k1"]
=============================================================================
