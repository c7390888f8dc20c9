-------------------------------- MODULE Runtime --------------------------------
(***************************************************************************)
(* One process: Runtime::run of runtime.rs with the GroupRunners and the   *)
(* ServiceRunners of runner.rs that it spawns, the control events it       *)
(* receives, and the order in which it takes all of them down.             *)
(*                                                                         *)
(* The backend is reduced to a number of waiting tasks for each group, the *)
(* helper services and schedulers to one service that is called again and  *)
(* again.  The heartbeat service is apart from them since it shares the    *)
(* group runners with `run'.                                               *)
(***************************************************************************)
EXTENDS Integers

CONSTANTS Group,       \* task groups of the process
          Concurrency, \* permits of each group
          MaxTasks,    \* bound on the tasks that wait at the start
          MaxEvents,   \* bound on the control events that are received
          BridgeFails  \* whether the event bridge may refuse or end the stream

ASSUME ConcurrencyAssumption == Concurrency \in Nat \ {0}
ASSUME BoundAssumption       == MaxTasks \in Nat /\ MaxEvents \in Nat
ASSUME BridgeAssumption      == BridgeFails \in BOOLEAN

VARIABLES main,     \* where `run' is
          alive,    \* groups that no shutdown event has named yet
          stop,     \* should_stop of each group
          paused,   \* paused of each group
          loop,     \* where the fetch loop of each group is
          limit,    \* the free permits it read
          busy,     \* executions of each group that hold a permit
          queue,    \* tasks of each group that wait in the backend
          services, \* the services: their loop, told to stop or not, and its end
          events,   \* how many control events were received
          late      \* history: assign calls made since the group was paused

loopVars == <<stop, paused, loop, limit, busy, queue, late>>
vars == <<main, alive, loopVars, services, events>>

Kind  == {"shutdown", "pause", "resume"}
All   == "all groups"   \* the event has no group list
Event == [kind: Kind, groups: (SUBSET Group \ {{}}) \cup {{All}}]

MainStep == {"spawn", "receive", "join services", "join refresh", "join runners",
             "returned", "broken"}
LoopStep == {"unborn", "top", "pause", "full", "assign", "wait", "drain", "ended"}
Service  == {"helpers", "refresh"}

TypeOK ==
    /\ main \in MainStep
    /\ alive \in SUBSET Group
    /\ stop \in [Group -> BOOLEAN] /\ paused \in [Group -> BOOLEAN]
    /\ loop \in [Group -> LoopStep]
    /\ limit \in [Group -> 0 .. Concurrency]
    /\ busy \in [Group -> 0 .. Concurrency]
    /\ queue \in [Group -> 0 .. MaxTasks]
    /\ services \in [Service -> {"unborn", "running", "stopping", "ended"}]
    /\ events \in 0 .. MaxEvents
    /\ late \in [Group -> Nat]

Init ==
    /\ main = "spawn"
    /\ alive = Group
    /\ stop = [g \in Group |-> FALSE] /\ paused = [g \in Group |-> FALSE]
    /\ loop = [g \in Group |-> "unborn"]
    /\ limit = [g \in Group |-> 0] /\ busy = [g \in Group |-> 0]
    /\ queue \in [Group -> 0 .. MaxTasks]
    /\ services = [s \in Service |-> "unborn"]
    /\ events = 0
    /\ late = [g \in Group |-> 0]

Goto(g, step) == loop' = [loop EXCEPT ![g] = step]

-----------------------------------------------------------------------------
(* The fetch loop of a group (GroupRunner::spawn).                         *)

\* The head of the loop: stop, pause, and the number of free permits.
Top(g) ==
    /\ loop[g] = "top"
    /\ \/ stop[g] /\ Goto(g, "drain") /\ UNCHANGED <<limit, late>>
       \/ ~stop[g] /\ paused[g] /\ Goto(g, "pause") /\ UNCHANGED <<limit, late>>
       \/ ~stop[g] /\ ~paused[g] /\ busy[g] = Concurrency
             /\ Goto(g, "full") /\ UNCHANGED <<limit, late>>
       \/ ~stop[g] /\ ~paused[g] /\ busy[g] < Concurrency
             /\ Goto(g, "assign")
             /\ limit' = [limit EXCEPT ![g] = Concurrency - busy[g]]
             /\ UNCHANGED late
    /\ UNCHANGED <<main, alive, stop, paused, busy, queue, services, events>>

Bug_Pause(g) ==
    /\ loop[g] = "pause"
    /\ Goto(g, IF stop[g] THEN "drain" ELSE "assign")
    /\ limit' = [limit EXCEPT ![g] = Concurrency - busy[g]]
    /\ UNCHANGED <<main, alive, stop, paused, busy, queue, late, services, events>>

Bug_PauseBreaks(g) ==
    /\ loop[g] = "pause"
    /\ Goto(g, IF stop[g] THEN "top" ELSE "drain")
    /\ UNCHANGED <<main, alive, stop, paused, limit, busy, queue, late, services, events>>

\* wait_or_stop(PAUSE_POLL_INTERVAL) ends: stop leaves the loop, or back to the top.
Pause(g) ==
    /\ loop[g] = "pause"
    /\ Goto(g, IF stop[g] THEN "drain" ELSE "top")
    /\ UNCHANGED <<main, alive, stop, paused, limit, busy, queue, late, services, events>>

Bug_Full(g) ==
    /\ loop[g] = "full"
    /\ Goto(g, "assign")
    /\ limit' = [limit EXCEPT ![g] = 1]
    /\ UNCHANGED <<main, alive, stop, paused, busy, queue, late, services, events>>

\* Every permit is out: a permit comes back, or the timeout passes.
Full(g) ==
    /\ loop[g] = "full"
    /\ Goto(g, "top")
    /\ UNCHANGED <<main, alive, stop, paused, limit, busy, queue, late, services, events>>

\* assign claims some of the waiting tasks (none when it fails) and each gets
\* a permit and an execution.
Assign(g) ==
    /\ loop[g] = "assign"
    /\ \E n \in 0 .. limit[g] :
          /\ n <= queue[g]
          /\ busy' = [busy EXCEPT ![g] = @ + n]
          /\ queue' = [queue EXCEPT ![g] = @ - n]
    /\ late' = [late EXCEPT ![g] = IF paused[g] THEN @ + 1 ELSE 0]
    /\ Goto(g, "wait")
    /\ UNCHANGED <<main, alive, stop, paused, limit, services, events>>

\* wait_or_stop(backoff) ends.
Wait(g) ==
    /\ loop[g] = "wait"
    /\ Goto(g, IF stop[g] THEN "drain" ELSE "top")
    /\ UNCHANGED <<main, alive, stop, paused, limit, busy, queue, late, services, events>>

\* acquire_many(concurrency) gets every permit.
Drain(g) ==
    /\ loop[g] = "drain" /\ busy[g] = 0
    /\ Goto(g, "ended")
    /\ UNCHANGED <<main, alive, stop, paused, limit, busy, queue, late, services, events>>

Loop(g) == Top(g) \/ Pause(g) \/ Full(g) \/ Assign(g) \/ Wait(g) \/ Drain(g)

Bug_TaskEnds(g) ==
    /\ busy[g] > 0 /\ loop[g] # "drain"
    /\ busy' = [busy EXCEPT ![g] = @ - 1]
    /\ UNCHANGED <<main, alive, stop, paused, loop, limit, queue, late, services, events>>

\* An execution ends and drops its permit.
TaskEnds(g) ==
    /\ busy[g] > 0
    /\ busy' = [busy EXCEPT ![g] = @ - 1]
    /\ UNCHANGED <<main, alive, stop, paused, loop, limit, queue, late, services, events>>

-----------------------------------------------------------------------------
(* Services (ServiceRunner::spawn).  A call that is under way ends before  *)
(* should_stop is looked at again.                                         *)

ServiceEnds(s) ==
    /\ services[s] = "stopping"
    /\ services' = [services EXCEPT ![s] = "ended"]
    /\ UNCHANGED <<main, alive, loopVars, events>>

-----------------------------------------------------------------------------
(* Control events.  A bridge may lose, repeat and reorder them, so that any *)
(* of them may be the next one to be received.                             *)

\* The groups an event is about: without a list, those that are still alive.
Targets(e) == IF e.groups = {All} THEN alive ELSE e.groups

-----------------------------------------------------------------------------
(* run.                                                                    *)

Spawn ==
    /\ main = "spawn"
    /\ main' = "receive"
    /\ loop' = [g \in Group |-> "top"]
    /\ services' = [s \in Service |-> "running"]
    /\ UNCHANGED <<alive, stop, paused, limit, busy, queue, late, events>>

\* receive_events fails, or the stream ends and is polled again: `run' is gone
\* without having stopped anything.
Break ==
    /\ BridgeFails /\ main = "receive"
    /\ main' = "broken"
    /\ UNCHANGED <<alive, loopVars, services, events>>

\* Everybody is told to stop, and the services are waited for.
ShutDown ==
    /\ main' = "join services"
    /\ stop' = [g \in Group |-> TRUE]
    /\ services' = [services EXCEPT !["helpers"] = "stopping"]

Receive(e) ==
    /\ main = "receive"
    /\ events < MaxEvents /\ events' = events + 1
    /\ \/ /\ e.kind = "shutdown"
          /\ alive' = alive \ Targets(e)
          /\ IF alive' = {} THEN ShutDown
             ELSE /\ stop' = [g \in Group |-> stop[g] \/ g \in Targets(e)]
                  /\ UNCHANGED <<main, services>>
          /\ UNCHANGED <<paused, late>>
       \/ /\ e.kind # "shutdown"
          /\ paused' = [g \in Group |-> IF g \in Targets(e) THEN e.kind = "pause" ELSE paused[g]]
          /\ late' = [g \in Group |-> IF g \in Targets(e) /\ ~paused[g] THEN 0 ELSE late[g]]
          /\ UNCHANGED <<main, alive, stop, services>>
    /\ UNCHANGED <<loop, limit, busy, queue>>

\* ctrl_c
Interrupt ==
    /\ main = "receive"
    /\ ShutDown
    /\ UNCHANGED <<alive, paused, loop, limit, busy, queue, late, events>>

JoinServices ==
    /\ main = "join services" /\ services["helpers"] = "ended"
    /\ main' = "join refresh"
    /\ services' = [services EXCEPT !["refresh"] = "stopping"]
    /\ UNCHANGED <<alive, loopVars, events>>

Bug_JoinRefresh ==
    /\ main = "join refresh"
    /\ main' = "join runners"
    /\ UNCHANGED <<alive, loopVars, services, events>>

\* With the heartbeat service go the other references to the group runners.
JoinRefresh ==
    /\ main = "join refresh" /\ services["refresh"] = "ended"
    /\ main' = "join runners"
    /\ UNCHANGED <<alive, loopVars, services, events>>

\* Each runner is joined if `run' is its only owner, or left to itself.
JoinRunners ==
    /\ main = "join runners"
    /\ services["refresh"] = "ended" => \A g \in Group : loop[g] = "ended"
    /\ main' = "returned"
    /\ UNCHANGED <<alive, loopVars, services, events>>

Run == Spawn \/ JoinServices \/ JoinRefresh \/ JoinRunners

Next ==
    \/ Run \/ Break \/ Interrupt
    \/ \E e \in Event : Receive(e)
    \/ \E g \in Group : Loop(g) \/ TaskEnds(g)
    \/ \E s \in Service : ServiceEnds(s)

Spec == Init /\ [][Next]_vars

\* The tasks of the runtime are scheduled, handlers and service calls return,
\* and a claim does not come back empty for ever while tasks wait.
FairSpec ==
    /\ Spec
    /\ WF_vars(Run)
    /\ \A g \in Group : /\ WF_vars(Loop(g)) /\ WF_vars(TaskEnds(g))
                        /\ SF_vars(Assign(g) /\ busy' # busy)
    /\ \A s \in Service : WF_vars(ServiceEnds(s))

-----------------------------------------------------------------------------
(* Properties.                                                             *)

\* When run returns Ok, nothing of the process runs any more: the loops have
\* ended, no handler is in the middle of a task and no service is left.  This
\* needs the heartbeat service to be gone before the runners are joined.  When
\* it returns an error (main = "broken"), everything it spawned is left running.
ReturnsIdle ==
    main = "returned" =>
       /\ \A g \in Group : loop[g] = "ended" /\ busy[g] = 0
       /\ \A s \in Service : services[s] = "ended"

\* A paused group makes at most one more assign call, the one that was under
\* way, however long it stays paused (GroupRunner::spawn, pause).
PauseTakesHold ==
    \A g \in Group : late[g] <= 1

\* Once every group was named by a shutdown event, or Ctrl-C came, run returns,
\* also when groups are paused or busy.
ShutdownCompletes ==
    alive = {} \/ main = "join services" ~> main = "returned"

\* A group that is neither stopped nor paused for good runs every task that
\* waits, whatever pauses it went through.
ResumedGroupsWork ==
    \A g \in Group :
       <>[](loop[g] # "unborn" /\ ~stop[g] /\ ~paused[g]) => <>(queue[g] = 0)

=============================================================================
