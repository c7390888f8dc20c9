------------------------------ MODULE MCRedisFleet -----------------------------
(* Instances of RedisFleet for TLC.                                        *)
EXTENDS RedisFleet, TLC

\* Task ids are ordered, so they are not symmetric.
Symmetric == Permutations(Worker) \cup Permutations(Slot) \cup Permutations(Sweeper)

=============================================================================
