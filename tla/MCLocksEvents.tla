----------------------------- MODULE MCLocksEvents -----------------------------
(* Instances of Locks and of Events for TLC.  The two share no state, so   *)
(* that each behaviour is one of the locks or one of the control events.   *)
EXTENDS Locks, Events

CONSTANTS p1, p2, t1, t2

VARIABLE part

\* Process p1 runs two services, p2 one of them.
Sections == {<<p1, t1>>, <<p1, t2>>, <<p2, t1>>}

vars == <<part, lockVars, eventVars>>

TypeOK == part \in {"locks", "events"} /\ LocksTypeOK /\ EventsTypeOK

\* The part that is not looked at stays in one of its initial states.
Init ==
    /\ LocksInit /\ EventsInit
    /\ \/ part = "locks"  /\ bridge = "table"
       \/ part = "events" /\ kind = "session"

Next ==
    /\ UNCHANGED part
    /\ \/ part = "locks"  /\ LocksNext  /\ UNCHANGED eventVars
       \/ part = "events" /\ EventsNext /\ UNCHANGED lockVars

Spec == Init /\ [][Next]_vars

\* Initially nothing is enabled that fairness would ask for.
FairSpec == Spec /\ LocksFairness /\ EventsFairness

=============================================================================
