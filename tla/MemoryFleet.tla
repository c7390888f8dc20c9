------------------------------ MODULE MemoryFleet ------------------------------
(***************************************************************************)
(* A process on the in-memory backend: the group runners of runner.rs and  *)
(* the handlers they run (worker.rs), the services that restore and        *)
(* discard tasks, and the handles through which clients and handlers wait  *)
(* for results (result.rs).                                                *)
(*                                                                         *)
(* Heartbeats can always be late in a busy process, so a sweep may find    *)
(* any task on the stage abandoned.  The lock that admits one sweep at a   *)
(* time is never lost in memory (module Locks).                            *)
(***************************************************************************)
EXTENDS MemoryStore

CONSTANTS Permits,   \* permits of each group runner (its concurrency)
          Safe,      \* <<t, u>>: the handler of t waits for u although it is
                     \* kept from waiting (avoid_assertion = true)
          Client,    \* holders of result handles outside of any handler
          HandleOf,  \* the task of each client's handle
          Free,      \* the content of a slot that holds no permit
          NoTask     \* a handler waits for nothing

ASSUME PermitAssumption == Permits \in Nat \ {0}
ASSUME HandleAssumption == HandleOf \in [Client -> Task]
\* "When you're certain there's no risk of deadlock": nobody waits for a task
\* that waits, and those that wait leave a permit to those they wait for.
ASSUME SafeAssumption ==
    /\ Safe \subseteq Task \X Task
    /\ \A p, q \in Safe : p[1] # q[2]
    /\ \A q \in Safe :
          LET waiting == {p[1] : p \in Safe} \cap {t \in Task : GroupOf[t] = GroupOf[q[2]]}
          IN IsFiniteSet(waiting) /\ Cardinality(waiting) < Permits

VARIABLES slot,       \* what each permit of each group runner is held for
          doubted,    \* tasks a sweep found abandoned and is about to restore
          trash,      \* tasks a sweep listed as disposable
          disturbed,  \* tasks that were found abandoned
          submitted,  \* tasks some client has put: each is bounded to one life
          handle      \* of each client, with the last outcome it was told

Slot == 1 .. Permits

storeVars == <<now, entry, order>>
sweepVars == <<doubted, trash, disturbed>>
vars == <<storeVars, slot, sweepVars, submitted, handle>>

Held   == [task: Task, retry: Attempt, on: Task \cup {NoTask}]
Handle == [cached: BOOLEAN, polling: BOOLEAN, told: {"nothing", "value", "Failed"}]

ASSUME FreeAssumption == Free \notin Held /\ NoTask \notin Task

TypeOK ==
    /\ StoreTypeOK
    /\ slot \in [Worker -> [Slot -> Held \cup {Free}]]
    /\ doubted \in SUBSET Task /\ trash \in SUBSET Task
    /\ disturbed \in SUBSET Task /\ submitted \in SUBSET Task
    /\ handle \in [Client -> Handle]

Init ==
    /\ StoreInit
    /\ slot = [w \in Worker |-> [s \in Slot |-> Free]]
    /\ doubted = {} /\ trash = {} /\ disturbed = {} /\ submitted = {}
    /\ handle = [c \in Client |-> [cached |-> FALSE, polling |-> FALSE, told |-> "nothing"]]

FreeSlots(w)   == {s \in Slot : slot[w][s] = Free}
Holds(w, s, t) == slot[w][s] # Free /\ slot[w][s].task = t

-----------------------------------------------------------------------------
\* put_tasks; a put that is repeated changes nothing.  A task has one life: ids are
\* fresh UUIDs unless a caller chooses them (init_with_id), and one that is chosen
\* again after its task was deleted is another task to this model.
Submit(t) ==
    /\ Known(t) \/ t \notin submitted
    /\ \E due \in Time : PutTask(t, due)
    /\ submitted' = submitted \cup {t}
    /\ UNCHANGED <<now, slot, sweepVars, handle>>

Tick ==
    /\ now < MaxTime
    /\ now' = now + 1
    /\ UNCHANGED <<entry, order, slot, sweepVars, submitted, handle>>

-----------------------------------------------------------------------------
(* The runner of a group.                                                  *)

\* The loop claims as many due tasks as it saw permits free, or all of them, and
\* spawns an execution for each, in their order.  Permits are all alike: the first
\* free ones are taken.
Assign(w) ==
    /\ FreeSlots(w) # {}
    /\ UNCHANGED <<now, sweepVars, submitted, handle>>
    /\ \E n \in 1 .. Cardinality(FreeSlots(w)) :
         LET claimed == FirstOf(DueTasks(w), n)
             taken   == CHOOSE S \in SUBSET FreeSlots(w) :
                           /\ Cardinality(S) = Cardinality(claimed)
                           /\ \A s \in S, r \in FreeSlots(w) \ S : s < r IN
          /\ claimed # {}
          /\ AssignTasks(w, claimed)
          /\ \E task \in Bijection(taken, claimed) :
                /\ \A s, r \in taken : s < r => Precedes(task[s], task[r])
                /\ slot' = [slot EXCEPT ![w] = [s \in Slot |->
                          IF s \in taken THEN [task |-> task[s], retry |-> entry[task[s]].retry,
                                               on |-> NoTask]
                          ELSE @[s]]]

-----------------------------------------------------------------------------
(* Handlers.                                                               *)

Running(w, s) == slot[w][s] # Free /\ slot[w][s].on = NoTask
Waiting(w, s) == slot[w][s] # Free /\ slot[w][s].on # NoTask

Bug_Prevented(t, u) == FALSE

\* is_prevented, in the scope handle_task puts around the handler of t.
Prevented(t, u) == <<t, u>> \notin Safe

\* TaskResult::get in a handler, when there is no result yet.  An answer, or
\* the error Prevented, lets the handler go on at once.
HandlerGets(w, s, u) ==
    /\ Running(w, s)
    /\ ~Prevented(slot[w][s].task, u)
    /\ GetResult(u) = "NoResult"
    /\ slot' = [slot EXCEPT ![w][s].on = u]
    /\ UNCHANGED <<storeVars, sweepVars, submitted, handle>>

HandlerGoesOn(w, s) ==
    /\ slot' = [slot EXCEPT ![w][s].on = NoTask]
    /\ UNCHANGED <<storeVars, sweepVars, submitted, handle>>

HandlerPolls(w, s)    == Waiting(w, s) /\ GetResult(slot[w][s].on) # "NoResult" /\ HandlerGoesOn(w, s)
HandlerTimesOut(w, s) == Waiting(w, s) /\ HandlerGoesOn(w, s)

\* handle_task: the verdict of the handler, and the permit given back.  The record
\* that was claimed came due some time before.
HandleTask(w, s) ==
    /\ Running(w, s)
    /\ slot' = [slot EXCEPT ![w][s] = Free]
    /\ UNCHANGED <<now, sweepVars, submitted, handle>>
    /\ LET t == slot[w][s].task
           n == slot[w][s].retry IN
       \/ \E due \in 0 .. now, outcome \in {"result", "error"} : Finish(t, due, n, outcome)
       \/ DiscardTasks({t})
       \/ n < MaxRetry /\ \E due \in now .. MaxTime : RetryTask(t, n + 1, due)

-----------------------------------------------------------------------------
(* Services (RestoreAbandonedTasks, DiscardDisposableTasks).               *)

\* get_stage_info and get_workers.  The entries of a sweep are gone through one
\* by one: it is bounded to one of them.
FindAbandoned(t) ==
    /\ Staged(t) /\ doubted = {}
    /\ doubted' = doubted \cup {t}
    /\ disturbed' = disturbed \cup {t}
    /\ UNCHANGED <<storeVars, slot, trash, submitted, handle>>

RestoreTask(t) ==
    /\ t \in doubted
    /\ Restore(t)
    /\ doubted' = doubted \ {t}
    /\ UNCHANGED <<now, slot, trash, disturbed, submitted, handle>>

ListDisposable ==
    /\ trash = {} /\ DisposableTasks # {}
    /\ trash' = DisposableTasks
    /\ UNCHANGED <<storeVars, slot, doubted, disturbed, submitted, handle>>

DiscardDisposable ==
    /\ trash # {}
    /\ DiscardTasks(trash)
    /\ trash' = {}
    /\ UNCHANGED <<now, slot, doubted, disturbed, submitted, handle>>

-----------------------------------------------------------------------------
(* Result handles.                                                         *)

\* The call returns with an answer, which may also be that there is no such
\* task or that the time is up.
Say(c, answer) ==
    handle' = [handle EXCEPT ![c] =
                 [cached |-> @.cached \/ answer = "value", polling |-> FALSE,
                  told |-> IF answer \in {"value", "Failed"} THEN answer ELSE @.told]]

Elsewhere == UNCHANGED <<storeVars, slot, sweepVars, submitted>>

\* get: the cache, or one try; without an answer it starts to poll.
Get(c) ==
    /\ ~handle[c].polling
    /\ LET answer == IF handle[c].cached THEN "value" ELSE GetResult(HandleOf[c]) IN
       IF answer = "NoResult" THEN handle' = [handle EXCEPT ![c].polling = TRUE]
                              ELSE Say(c, answer)
    /\ Elsewhere

\* A later try that gets an answer.
Poll(c) ==
    /\ handle[c].polling
    /\ GetResult(HandleOf[c]) # "NoResult"
    /\ Say(c, GetResult(HandleOf[c]))
    /\ Elsewhere

\* The timeout, if there is one, has passed.
GetTimesOut(c) == handle[c].polling /\ Say(c, "TimedOut") /\ Elsewhere

\* A clone of the handle does not have its cache.
CloneHandle(c) ==
    /\ ~handle[c].polling /\ handle[c].cached
    /\ handle' = [handle EXCEPT ![c].cached = FALSE]
    /\ Elsewhere

-----------------------------------------------------------------------------
Next ==
    \/ Tick \/ ListDisposable \/ DiscardDisposable
    \/ \E t \in Task : Submit(t) \/ FindAbandoned(t) \/ RestoreTask(t)
    \/ \E w \in Worker :
          \/ Assign(w)
          \/ \E s \in Slot :
                \/ HandleTask(w, s) \/ HandlerPolls(w, s) \/ HandlerTimesOut(w, s)
                \/ \E u \in Task : HandlerGets(w, s, u)
    \/ \E c \in Client : Get(c) \/ Poll(c) \/ GetTimesOut(c) \/ CloneHandle(c)

Spec == Init /\ [][Next]_vars

\* The clock goes on, the loops run and calls poll.  Strong fairness for handlers: each waits only so many times.
FairSpec ==
    /\ Spec
    /\ WF_vars(Tick)
    /\ \A w \in Worker :
          /\ WF_vars(Assign(w))
          /\ \A s \in Slot : SF_vars(HandleTask(w, s)) /\ WF_vars(HandlerPolls(w, s))
    /\ \A c \in Client : WF_vars(Poll(c))

-----------------------------------------------------------------------------
(* Properties.                                                             *)

\* No task is claimed while another of its group that is due, and precedes it by
\* due time and then by insertion, is left in the queue: also when tasks are
\* sent back, retried or restored meanwhile (assign_tasks, State::ordered).
ClaimsInOrder ==
    [][\A t, u \in Task :
          /\ Queued(t) /\ Staged(t)'
          /\ u \in DueTasks(GroupOf[t]) /\ Precedes(u, t)
          => Staged(u)']_vars

\* Unlike a row of the SQL table, a task that is done does not get back into the
\* queue by a restore that comes late: only an execution that was still under
\* way, next to the one that settled it, can send it back (Entry::is_queued).
DoneTasksStayDone ==
    [][\A t \in Task : Done(t) /\ Queued(t)' =>
          \E w \in Worker, s \in Slot : Holds(w, s, t)]_vars

\* What a client was told of a task stands: a value is not followed by a failure
\* and the other way round, with or without the cache, unless the task was found
\* abandoned and ran more than once (TaskResult::get, get_result, State::finish).
AnswersStand ==
    [][\A c \in Client :
          handle[c].told # "nothing" /\ handle'[c].told # handle[c].told
             => HandleOf[c] \in disturbed]_vars

\* A task that was restored while it ran takes a second permit.
Overlap == \E t \in Task : \E d, e \in Worker \X Slot :
              d # e /\ Holds(d[1], d[2], t) /\ Holds(e[1], e[2], t)

\* Nobody waits in vain: the task a handler waits for does not wait itself where it
\* runs, and its group has a permit that no waiting handler holds, unless a restored
\* task took a second one (prevent_to_wait_result, TaskResult::get).
WaitsCanEnd ==
    \A w \in Worker, s \in Slot : Waiting(w, s) =>
       LET u == slot[w][s].on IN
          /\ \A v \in Worker, r \in Slot : Holds(v, r, u) => ~Waiting(v, r)
          /\ (\E r \in Slot : ~Waiting(GroupOf[u], r)) \/ Overlap

\* Every task is done or gone in the end and every call of get has returned,
\* though each handler may ask for the result of any other task: those that could
\* wait for a task which waits for their own permit are kept from it
\* (prevent_to_wait_result).  A task is submitted once, so this state is reached
\* again and again; a permit that a second run took may be missing for it.
EverythingSettles ==
    []<>(\/ /\ \A t \in Task : ~Known(t) \/ Done(t)
            /\ \A c \in Client : ~handle[c].polling
         \/ Overlap)

\* The process keeps the contract of TaskContract, as the fleets on the other
\* backends do.
Status(t) == CASE ~Known(t) -> "absent" [] Queued(t) -> "queued"
               [] Done(t) -> "settled"  [] OTHER -> "started"

Contract == INSTANCE TaskContract WITH
    Exec   <- Worker \X Slot,
    status <- [t \in Task |-> Status(t)],
    runs   <- [t \in Task |-> {e \in Worker \X Slot : Holds(e[1], e[2], t)}],
    sound  <- Task \ disturbed

KeepsContract == Contract!Spec

=============================================================================
