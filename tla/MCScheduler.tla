------------------------------ MODULE MCScheduler ------------------------------
(* Instances of Scheduler for TLC.                                         *)
EXTENDS Scheduler, TLC

CONSTANTS e1, e2

\* A small calendar: two points to a minute, two minutes to an hour.
Fields == {"point", "minute"}
Grids  == [f \in Fields |-> [min |-> 0, max |-> 1, step |-> 1]]
Digits(f, n) == IF f = "point" THEN n % 2 ELSE (n \div 2) % 2

\* Entry e1 accepts every point of every other minute in a zone of its own, which
\* is 1 and 2 in time; e2 the first of every minute in that of the scheduler,
\* which is 0 and 2.  Each misses some points; both policies occur.
Values   == (e1 :> [f \in Fields |-> IF f = "minute" THEN {1} ELSE All(f)])
         @@ (e2 :> [f \in Fields |-> IF f = "point" THEN {0} ELSE All(f)])
Zones    == (e1 :> 1) @@ (e2 :> NoZone)
Policies == (e1 :> "OnlyLatest") @@ (e2 :> "OnlyEarliest")

=============================================================================
