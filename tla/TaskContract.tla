----------------------------- MODULE TaskContract -----------------------------
(***************************************************************************)
(* What the task backend and the workers promise together, whatever the    *)
(* storage: the life of each task as a client sees it, and the executions  *)
(* of it that are under way (the trait TaskBackend of backend.rs).         *)
(*                                                                         *)
(* A task is `sound' until some service takes it for abandoned, or deletes *)
(* it although nobody may.  A sound task runs in one place at a time and   *)
(* only its execution moves it on.  Of the others only this is promised:   *)
(* an outcome comes from an execution that was started.                    *)
(***************************************************************************)
EXTENDS TLAPS

CONSTANTS Task, Exec

VARIABLES status,  \* of each task
          runs,    \* the executions of each task that are under way
          sound    \* the tasks no service has interfered with

vars == <<status, runs, sound>>

Status == {"absent", "queued", "started", "settled"}

TypeOK ==
    /\ status \in [Task -> Status]
    /\ runs \in [Task -> SUBSET Exec]
    /\ sound \in SUBSET Task

Init ==
    /\ status = [t \in Task |-> "absent"]
    /\ runs = [t \in Task |-> {}]
    /\ sound = Task

Become(t, s) == status' = [status EXCEPT ![t] = s]

Submit(t) ==
    /\ status[t] = "absent"
    /\ Become(t, "queued")
    /\ UNCHANGED <<runs, sound>>

\* Some tasks leave the queue at once.  One that is not sound may have been sent
\* back with its outcome in place, which then stands while it runs again.
Begin(T) ==
    /\ \A t \in T : status[t] = "queued"
    /\ \E settled \in SUBSET (T \ sound) :
          status' = [t \in Task |-> IF t \in settled THEN "settled"
                                   ELSE IF t \in T THEN "started" ELSE status[t]]

\* Each of them by an execution of its own.
Start(T, exec) ==
    /\ Begin(T)
    /\ \A t \in T \cap sound : runs[t] = {}
    /\ \A t, u \in T : exec[t] = exec[u] => t = u
    /\ runs' = [t \in Task |-> IF t \in T THEN runs[t] \cup {exec[t]} ELSE runs[t]]
    /\ UNCHANGED sound

\* Executions vanish: a crash, or a backend call that failed.
Vanish(E) ==
    /\ runs' = [t \in Task |-> runs[t] \ E]
    /\ UNCHANGED <<status, sound>>

\* The same, while a claim succeeded and nobody was told.
StartUnheard(T, E) ==
    /\ Begin(T)
    /\ runs' = [t \in Task |-> runs[t] \ E]
    /\ UNCHANGED sound

\* An execution ends and settles the task, sends it back or discards it.
Settle(t, e) ==
    /\ e \in runs[t]
    /\ t \in sound => status[t] = "started"
    /\ \E s \in {"settled", "queued", "absent"} : Become(t, s)
    /\ runs' = [runs EXCEPT ![t] = @ \ {e}]
    /\ UNCHANGED sound

\* A service takes tasks for abandoned ...
Doubt(T) ==
    /\ sound' = sound \ T
    /\ UNCHANGED <<status, runs>>

\* ... and sends one back to the queue.
Requeue(t) ==
    /\ t \notin sound /\ status[t] # "absent"
    /\ Become(t, "queued")
    /\ UNCHANGED <<runs, sound>>

\* Tasks are deleted: those that stay sound were settled before.
Delete(T) ==
    /\ status' = [t \in Task |-> IF t \in T THEN "absent" ELSE status[t]]
    /\ sound' \in SUBSET sound
    /\ \A t \in T \cap sound' : status[t] \in {"absent", "settled"}
    /\ UNCHANGED runs

Next ==
    \/ \E t \in Task : Submit(t) \/ Requeue(t) \/ \E e \in Exec : Settle(t, e)
    \/ \E E \in SUBSET Exec : Vanish(E)
    \/ \E T \in SUBSET Task :
          \/ Doubt(T) \/ Delete(T)
          \/ \E exec \in [T -> Exec] : Start(T, exec)
          \/ \E E \in SUBSET Exec : StartUnheard(T, E)

Spec == Init /\ [][Next]_vars

-----------------------------------------------------------------------------
(* What follows from the contract, for a reader who sees no service at     *)
(* work on a task.                                                         *)

\* A sound task runs in one place at most, and only while it is started.
RunsAlone ==
    \A t \in sound : \A e \in runs[t] : runs[t] = {e} /\ status[t] = "started"

\* The steps in the life of a task.
Course == {<<"absent", "queued">>, <<"queued", "started">>,
           <<"started", "settled">>, <<"started", "queued">>, <<"started", "absent">>,
           <<"settled", "absent">>}

\* A sound task goes through its life in order: it is never started twice without
\* going back to the queue, and an outcome is final until it is deleted.
LivesInOrder ==
    [][\A t \in sound' : status'[t] # status[t] => <<status[t], status'[t]>> \in Course]_vars

\* A started task that stays sound is moved on by its only execution, which ends.
OnlyItsExecution ==
    [][\A t \in sound' : status[t] = "started" /\ status'[t] # "started"
          => \E e \in Exec : runs[t] = {e} /\ runs'[t] = {}]_vars

\* Sound or not, a task begins to run only from the queue.
BeginsFromQueue ==
    [][\A t \in Task : ~(runs'[t] \subseteq runs[t]) => status[t] = "queued"]_vars

-----------------------------------------------------------------------------
(* Their proofs.                                                           *)

\* The contract is well typed.
LEMMA ContractTypeCorrect == Spec => []TypeOK
<1>1. Init => TypeOK
  BY DEF Init, TypeOK, Status
<1>2. TypeOK /\ [Next]_vars => TypeOK'
  <2> SUFFICES ASSUME TypeOK, [Next]_vars PROVE TypeOK'
    OBVIOUS
  <2> USE DEF TypeOK, Status
  <2>1. ASSUME NEW t \in Task, Submit(t) \/ Requeue(t) PROVE TypeOK'
    BY <2>1 DEF Submit, Requeue, Become
  <2>2. ASSUME NEW t \in Task, NEW e \in Exec, Settle(t, e) PROVE TypeOK'
    BY <2>2 DEF Settle, Become
  <2>3. ASSUME NEW E \in SUBSET Exec, Vanish(E) PROVE TypeOK'
    BY <2>3 DEF Vanish
  <2>4. ASSUME NEW T \in SUBSET Task, Doubt(T) \/ Delete(T) PROVE TypeOK'
    BY <2>4 DEF Doubt, Delete
  <2>5. ASSUME NEW T \in SUBSET Task, NEW exec \in [T -> Exec], Start(T, exec) PROVE TypeOK'
    BY <2>5 DEF Start, Begin
  <2>6. ASSUME NEW T \in SUBSET Task, NEW E \in SUBSET Exec, StartUnheard(T, E) PROVE TypeOK'
    BY <2>6 DEF StartUnheard, Begin
  <2>7. CASE UNCHANGED vars
    BY <2>7 DEF vars
  <2> QED BY <2>1, <2>2, <2>3, <2>4, <2>5, <2>6, <2>7 DEF Next
<1> QED BY <1>1, <1>2, PTL DEF Spec

\* What a step does to a task that stays sound, and to the executions of any.
LEMMA ContractSteps ==
  ASSUME TypeOK, RunsAlone, [Next]_vars
  PROVE  /\ RunsAlone'
         /\ \A t \in sound' : status'[t] # status[t] => <<status[t], status'[t]>> \in Course
         /\ \A t \in sound' : status[t] = "started" /\ status'[t] # "started"
               => \E e \in Exec : runs[t] = {e} /\ runs'[t] = {}
         /\ \A t \in Task : ~(runs'[t] \subseteq runs[t]) => status[t] = "queued"
<1> DEFINE Goal ==
      /\ RunsAlone'
      /\ \A t \in sound' : status'[t] # status[t] => <<status[t], status'[t]>> \in Course
      /\ \A t \in sound' : status[t] = "started" /\ status'[t] # "started"
            => \E e \in Exec : runs[t] = {e} /\ runs'[t] = {}
      /\ \A t \in Task : ~(runs'[t] \subseteq runs[t]) => status[t] = "queued"
<1> USE DEF TypeOK, Status, RunsAlone, Course
<1>1. ASSUME NEW t \in Task, Submit(t) \/ Requeue(t) PROVE Goal
  BY <1>1 DEF Submit, Requeue, Become
<1>2. ASSUME NEW t \in Task, NEW e \in Exec, Settle(t, e) PROVE Goal
  <2>1. t \in sound => status[t] = "started" /\ runs[t] = {e} /\ runs'[t] = {}
    BY <1>2 DEF Settle
  <2>2. PICK s \in {"settled", "queued", "absent"} : status' = [status EXCEPT ![t] = s]
    BY <1>2 DEF Settle, Become
  <2>3. sound' = sound /\ runs' = [runs EXCEPT ![t] = @ \ {e}]
    BY <1>2 DEF Settle
  <2> QED BY <2>1, <2>2, <2>3
<1>3. ASSUME NEW E \in SUBSET Exec, Vanish(E) PROVE Goal
  BY <1>3 DEF Vanish
<1>4. ASSUME NEW T \in SUBSET Task, Doubt(T) \/ Delete(T) PROVE Goal
  BY <1>4 DEF Doubt, Delete
<1>5. ASSUME NEW T \in SUBSET Task, NEW exec \in [T -> Exec], Start(T, exec) PROVE Goal
  <2>1. PICK settled \in SUBSET (T \ sound) :
          status' = [t \in Task |-> IF t \in settled THEN "settled"
                                    ELSE IF t \in T THEN "started" ELSE status[t]]
    BY <1>5 DEF Start, Begin
  <2>2. /\ \A t \in T : status[t] = "queued"
        /\ \A t \in T \cap sound : runs[t] = {}
        /\ runs' = [t \in Task |-> IF t \in T THEN runs[t] \cup {exec[t]} ELSE runs[t]]
        /\ sound' = sound
    BY <1>5 DEF Start, Begin
  <2> QED BY <2>1, <2>2
<1>6. ASSUME NEW T \in SUBSET Task, NEW E \in SUBSET Exec, StartUnheard(T, E) PROVE Goal
  <2>1. PICK settled \in SUBSET (T \ sound) :
          status' = [t \in Task |-> IF t \in settled THEN "settled"
                                    ELSE IF t \in T THEN "started" ELSE status[t]]
    BY <1>6 DEF StartUnheard, Begin
  <2>2. /\ \A t \in T : status[t] = "queued"
        /\ runs' = [t \in Task |-> runs[t] \ E]
        /\ sound' = sound
    BY <1>6 DEF StartUnheard, Begin
  <2> QED BY <2>1, <2>2
<1>7. CASE UNCHANGED vars
  BY <1>7 DEF vars
<1> QED BY <1>1, <1>2, <1>3, <1>4, <1>5, <1>6, <1>7 DEF Next

\* A sound task runs alone, for any tasks and executions.
THEOREM ContractRunsAlone == Spec => []RunsAlone
<1>1. Init => RunsAlone
  BY DEF Init, RunsAlone
<1>2. TypeOK /\ RunsAlone /\ [Next]_vars => RunsAlone'
  BY ContractSteps
<1> QED BY <1>1, <1>2, ContractTypeCorrect, PTL DEF Spec

\* A sound task lives in order, for any tasks and executions.
THEOREM ContractLivesInOrder == Spec => LivesInOrder
<1>1. TypeOK /\ RunsAlone /\ [Next]_vars
      => [\A t \in sound' : status'[t] # status[t] => <<status[t], status'[t]>> \in Course]_vars
  BY ContractSteps
<1> QED BY <1>1, ContractTypeCorrect, ContractRunsAlone, PTL DEF Spec, LivesInOrder

\* Only its execution moves a started task on, for any tasks and executions.
THEOREM ContractOnlyItsExecution == Spec => OnlyItsExecution
<1>1. TypeOK /\ RunsAlone /\ [Next]_vars
      => [\A t \in sound' : status[t] = "started" /\ status'[t] # "started"
            => \E e \in Exec : runs[t] = {e} /\ runs'[t] = {}]_vars
  BY ContractSteps
<1> QED BY <1>1, ContractTypeCorrect, ContractRunsAlone, PTL DEF Spec, OnlyItsExecution

\* Any task begins to run only from the queue, for any tasks and executions.
THEOREM ContractBeginsFromQueue == Spec => BeginsFromQueue
<1>1. TypeOK /\ RunsAlone /\ [Next]_vars
      => [\A t \in Task : ~(runs'[t] \subseteq runs[t]) => status[t] = "queued"]_vars
  BY ContractSteps
<1> QED BY <1>1, ContractTypeCorrect, ContractRunsAlone, PTL DEF Spec, BeginsFromQueue

=============================================================================
