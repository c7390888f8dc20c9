----------------------------- MODULE MCMemoryFleet -----------------------------
(* An instance of MemoryFleet for TLC: two tasks of one group, the first of *)
(* which may wait for the second, and a client that waits for the second.   *)
EXTENDS MemoryFleet, TLC

CONSTANTS t1, t2, w1, c1

Groups  == (t1 :> w1) @@ (t2 :> w1)
Waits   == {<<t1, t2>>}
Handles == c1 :> t2

=============================================================================
