----------------------------- MODULE RuntimeProofs -----------------------------
(***************************************************************************)
(* Proofs about Runtime, for any groups, permits, tasks and events.        *)
(***************************************************************************)
EXTENDS Runtime, TLAPS

\* A loop that is about to claim has counted permits that are free, and has
\* claimed at most once since its group was paused.
ClaimsFit ==
    \A g \in Group :
       /\ loop[g] = "assign" => limit[g] + busy[g] <= Concurrency
       /\ loop[g] = "assign" /\ paused[g] => late[g] = 0
       /\ late[g] <= 1

\* What each stage of the joins has left behind.
JoinsInOrder ==
    /\ main \in {"join refresh", "join runners", "returned"} => services["helpers"] = "ended"
    /\ main \in {"join runners", "returned"} => services["refresh"] = "ended"
    /\ main = "returned" => \A g \in Group : loop[g] = "ended"

\* A loop ends when its permits are all back, and nobody gets one after that.
EndedIsIdle == \A g \in Group : loop[g] = "ended" => busy[g] = 0

IInv == ClaimsFit /\ JoinsInOrder /\ EndedIsIdle

-----------------------------------------------------------------------------
\* Nothing runs in the beginning.
LEMMA RuntimeStart == Init => TypeOK /\ IInv
BY ConcurrencyAssumption, BoundAssumption
DEF Init, TypeOK, IInv, ClaimsFit, JoinsInOrder, EndedIsIdle, MainStep, LoopStep, Service

\* A step of `run' that does not go on to receive moves no loop.
LEMMA JoinSteps ==
  ASSUME TypeOK, IInv, JoinServices \/ JoinRefresh \/ JoinRunners \/ Break
  PROVE  TypeOK' /\ IInv'
<1> USE DEF TypeOK, loopVars
<1>1. CASE JoinServices
  BY <1>1 DEF JoinServices, MainStep, Service, IInv, ClaimsFit, JoinsInOrder, EndedIsIdle
<1>2. CASE JoinRefresh
  BY <1>2 DEF JoinRefresh, MainStep, Service, IInv, ClaimsFit, JoinsInOrder, EndedIsIdle
<1>3. CASE JoinRunners
  BY <1>3 DEF JoinRunners, MainStep, Service, IInv, ClaimsFit, JoinsInOrder, EndedIsIdle
<1>4. CASE Break
  BY <1>4 DEF Break, MainStep, Service, IInv, ClaimsFit, JoinsInOrder, EndedIsIdle
<1> QED BY <1>1, <1>2, <1>3, <1>4

\* Before the joins begin, `run' starts, obeys events and is interrupted.
LEMMA ReceiveSteps ==
  ASSUME TypeOK, IInv, Spawn \/ Interrupt \/ \E e \in Event : Receive(e)
  PROVE  TypeOK' /\ IInv'
<1> USE DEF TypeOK, loopVars
<1>1. CASE Spawn
  BY <1>1 DEF Spawn, MainStep, LoopStep, Service, IInv, ClaimsFit, JoinsInOrder, EndedIsIdle
<1>2. CASE Interrupt
  BY <1>2 DEF Interrupt, ShutDown, MainStep, Service, IInv, ClaimsFit, JoinsInOrder, EndedIsIdle
<1>3. ASSUME NEW e \in Event, Receive(e) PROVE TypeOK' /\ IInv'
  <2>1. events' \in 0 .. MaxEvents
    BY <1>3, BoundAssumption DEF Receive
  <2>2. CASE e.kind = "shutdown"
    <3>1. /\ alive' \in SUBSET Group /\ stop' \in [Group -> BOOLEAN]
          /\ main' \in {"receive", "join services"}
          /\ services' \in [Service -> {"unborn", "running", "stopping", "ended"}]
          /\ UNCHANGED <<paused, late, loop, limit, busy, queue>>
      BY <1>3, <2>2 DEF Receive, ShutDown, Service
    <3>2. TypeOK'
      BY <2>1, <3>1 DEF MainStep
    <3> QED BY <3>1, <3>2 DEF IInv, ClaimsFit, JoinsInOrder, EndedIsIdle
  <2>3. CASE e.kind # "shutdown"
    <3>1. /\ paused' \in [Group -> BOOLEAN]
          /\ main = "receive" /\ UNCHANGED <<main, alive, stop, services, loop, limit, busy, queue>>
          /\ \A g \in Group : late'[g] = late[g] \/ late'[g] = 0
          /\ \A g \in Group : paused'[g] => paused[g] \/ late'[g] = 0
      BY <1>3, <2>3 DEF Receive
    <3>2. late' \in [Group -> Nat]
      BY <1>3, <2>3 DEF Receive
    <3>3. TypeOK'
      BY <2>1, <3>1, <3>2
    <3>4. ClaimsFit'
      BY <3>1, <3>2 DEF IInv, ClaimsFit
    <3> QED BY <3>1, <3>3, <3>4 DEF IInv, JoinsInOrder, EndedIsIdle
  <2> QED BY <2>2, <2>3
<1> QED BY <1>1, <1>2, <1>3

\* A step of the fetch loop of one group.
LEMMA LoopSteps ==
  ASSUME TypeOK, IInv, NEW g \in Group, Loop(g)
  PROVE  TypeOK' /\ IInv'
<1> USE ConcurrencyAssumption, BoundAssumption DEF TypeOK, Goto
<1>0. /\ UNCHANGED <<main, alive, stop, paused, services, events>>
      /\ loop[g] # "ended"
  BY DEF Loop, Top, Pause, Full, Assign, Wait, Drain
<1>j. main # "returned"
  BY <1>0 DEF IInv, JoinsInOrder
<1>1. CASE Top(g)
  <2>1. TypeOK'
    BY <1>1 DEF Top, LoopStep
  <2>2. ClaimsFit'
    BY <1>1, <2>1 DEF Top, IInv, ClaimsFit
  <2> QED BY <1>0, <1>j, <1>1, <2>1, <2>2 DEF Top, IInv, JoinsInOrder, EndedIsIdle
<1>2. CASE Pause(g) \/ Full(g) \/ Wait(g) \/ Drain(g)
  <2>1. PICK step \in LoopStep \ {"assign"} :
          /\ loop' = [loop EXCEPT ![g] = step]
          /\ step = "ended" => busy[g] = 0
          /\ UNCHANGED <<limit, busy, queue, late>>
    BY <1>2 DEF Pause, Full, Wait, Drain, LoopStep
  <2> QED BY <1>0, <1>j, <2>1 DEF IInv, ClaimsFit, JoinsInOrder, EndedIsIdle
<1>3. CASE Assign(g)
  <2>1. PICK n \in 0 .. limit[g] :
          /\ n <= queue[g]
          /\ busy' = [busy EXCEPT ![g] = @ + n]
          /\ queue' = [queue EXCEPT ![g] = @ - n]
    BY <1>3 DEF Assign
  <2>2. /\ loop[g] = "assign" /\ loop' = [loop EXCEPT ![g] = "wait"] /\ limit' = limit
        /\ late' = [late EXCEPT ![g] = IF paused[g] THEN @ + 1 ELSE 0]
    BY <1>3 DEF Assign
  <2>3. n \in Nat /\ busy[g] \in Nat /\ queue[g] \in Nat /\ limit[g] \in Nat
        /\ limit[g] + busy[g] <= Concurrency
    BY <2>1, <2>2 DEF IInv, ClaimsFit
  <2>4. busy' \in [Group -> 0 .. Concurrency] /\ queue' \in [Group -> 0 .. MaxTasks]
    BY <2>1, <2>3
  <2>5. late' \in [Group -> Nat] /\ loop' \in [Group -> LoopStep]
    BY <2>2 DEF LoopStep
  <2>6. TypeOK'
    BY <1>0, <2>2, <2>4, <2>5
  <2>7. ASSUME NEW h \in Group
        PROVE  /\ (loop[h] = "assign" => limit[h] + busy[h] <= Concurrency)'
               /\ (loop[h] = "assign" /\ paused[h] => late[h] = 0)'
               /\ late'[h] <= 1
    <3>1. CASE h = g
      BY <3>1, <2>2 DEF IInv, ClaimsFit
    <3>2. CASE h # g
      BY <3>2, <1>0, <2>1, <2>2 DEF IInv, ClaimsFit
    <3> QED BY <3>1, <3>2
  <2>8. EndedIsIdle'
    BY <2>1, <2>2 DEF IInv, EndedIsIdle
  <2>9. JoinsInOrder'
    BY <1>0, <1>j DEF IInv, JoinsInOrder
  <2> QED BY <2>6, <2>7, <2>8, <2>9 DEF IInv, ClaimsFit
<1> QED BY <1>1, <1>2, <1>3 DEF Loop

\* The end of an execution or of a service.
LEMMA EndSteps ==
  ASSUME TypeOK, IInv, (\E g \in Group : TaskEnds(g)) \/ (\E s \in Service : ServiceEnds(s))
  PROVE  TypeOK' /\ IInv'
<1>1. ASSUME NEW g \in Group, TaskEnds(g) PROVE TypeOK' /\ IInv'
  <2>1. /\ busy[g] > 0 /\ busy' = [busy EXCEPT ![g] = @ - 1]
        /\ UNCHANGED <<main, alive, stop, paused, loop, limit, queue, late, services, events>>
    BY <1>1 DEF TaskEnds
  <2>2. busy[g] \in 0 .. Concurrency /\ busy[g] - 1 \in 0 .. Concurrency
    BY <2>1, ConcurrencyAssumption DEF TypeOK
  <2>3. TypeOK'
    BY <2>1, <2>2 DEF TypeOK
  <2>4. ClaimsFit'
    BY <2>1, <2>2, ConcurrencyAssumption DEF TypeOK, IInv, ClaimsFit
  <2>5. JoinsInOrder'
    BY <2>1 DEF IInv, JoinsInOrder
  <2>6. EndedIsIdle'
    BY <2>1, <2>2, ConcurrencyAssumption DEF TypeOK, IInv, EndedIsIdle
  <2> QED BY <2>3, <2>4, <2>5, <2>6 DEF IInv
<1>2. ASSUME NEW s \in Service, ServiceEnds(s) PROVE TypeOK' /\ IInv'
  BY <1>2 DEF ServiceEnds, loopVars, TypeOK, Service, IInv, ClaimsFit, JoinsInOrder, EndedIsIdle
<1> QED BY <1>1, <1>2

-----------------------------------------------------------------------------
\* Types and invariant hold for ever.
LEMMA RuntimeInvariance == Spec => [](TypeOK /\ IInv)
<1>1. TypeOK /\ IInv /\ [Next]_vars => (TypeOK /\ IInv)'
  <2> SUFFICES ASSUME TypeOK, IInv, [Next]_vars PROVE TypeOK' /\ IInv'
    OBVIOUS
  <2>1. CASE UNCHANGED vars
    BY <2>1 DEF vars, loopVars, TypeOK, IInv, ClaimsFit, JoinsInOrder, EndedIsIdle
  <2>2. CASE Next
    BY <2>2, JoinSteps, ReceiveSteps, LoopSteps, EndSteps DEF Next, Run
  <2> QED BY <2>1, <2>2
<1> QED BY <1>1, RuntimeStart, PTL DEF Spec

\* Every variable of the runtime stays in its type; the executions of a group never
\* exceed its permits (GroupRunner::spawn).
THEOREM RuntimeTypeCorrect == Spec => []TypeOK
BY RuntimeInvariance, PTL

\* When `run' returns Ok, every loop has ended, no handler is in the middle of a task
\* and no service is left (Runtime::run).  Its other return, with an error, leaves all
\* of them running and is not meant.
THEOREM RuntimeReturnsIdle == Spec => []ReturnsIdle
<1>1. TypeOK /\ IInv => ReturnsIdle
  BY DEF IInv, JoinsInOrder, EndedIsIdle, ReturnsIdle, Service
<1> QED BY <1>1, RuntimeInvariance, PTL

\* However pauses and claims overlap, a paused group makes at most one more claim
\* (GroupRunner::pause).
THEOREM RuntimePauseTakesHold == Spec => []PauseTakesHold
<1>1. TypeOK /\ IInv => PauseTakesHold
  BY DEF IInv, ClaimsFit, PauseTakesHold
<1> QED BY <1>1, RuntimeInvariance, PTL

=============================================================================
