---------------------------- MODULE LockContract ----------------------------
(***************************************************************************)
(* What the trait Lock of backend.rs promises, whatever the backend: the   *)
(* lock of a target is granted while nobody holds it, it may be lost while *)
(* it is held, its holder does not notice, and leaving a section frees the *)
(* lock only if it is still one's own.                                     *)
(***************************************************************************)
CONSTANTS Section,   \* the sections of code that are guarded by a lock
          TargetOf,  \* TargetOf[s]: the lock that guards section s
          Nobody     \* nobody holds the lock

VARIABLES inside,    \* sections that were granted their lock and have not left
          holder     \* holder[t]: the section that has the lock of target t

vars == <<inside, holder>>

Name == {TargetOf[s] : s \in Section}

Init ==
    /\ inside = {}
    /\ holder = [t \in Name |-> Nobody]

Grant(s) ==
    /\ s \notin inside
    /\ holder[TargetOf[s]] = Nobody
    /\ inside' = inside \cup {s}
    /\ holder' = [holder EXCEPT ![TargetOf[s]] = s]

\* A section ends, or several at once: a crash.
Leave(S) ==
    /\ inside' = inside \ S
    /\ holder' = [t \in Name |-> IF holder[t] \in S THEN Nobody ELSE holder[t]]

Lose(t) ==
    /\ holder' = [holder EXCEPT ![t] = Nobody]
    /\ UNCHANGED inside

Next ==
    \/ \E s \in Section : Grant(s)
    \/ \E S \in SUBSET inside : Leave(S)
    \/ \E t \in Name : Lose(t)

Spec == Init /\ [][Next]_vars

=============================================================================
