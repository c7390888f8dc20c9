------------------------------ MODULE MCSqlFleet ------------------------------
(* Instances of SqlFleet for TLC.                                          *)
EXTENDS SqlFleet, TLC

Symmetric == Permutations(Task) \cup Permutations(Worker) \cup Permutations(Slot)
             \cup Permutations(Sweeper)

=============================================================================
