------------------------------ MODULE RedisFleet ------------------------------
(***************************************************************************)
(* A fleet of taskkit processes on Redis: clients, workers and the helper  *)
(* services between whose reads and pipelines the others run.  The workers *)
(* are those of TaskWorkers; what differs is the granularity of their      *)
(* calls, and that one claim takes a whole batch.                          *)
(***************************************************************************)
EXTENDS RedisStore

CONSTANTS Slot,         \* execution slots of each worker
          Sweeper,      \* processes whose turn it is to restore and discard
          Services,     \* those of the two that run
          BackendFails, \* whether calls to the backend may fail
          Free          \* the content of a slot that holds no permit

ASSUME SlotAssumption     == IsFiniteSet(Slot) /\ Slot # {}
ASSUME FlagAssumption     == BackendFails \in BOOLEAN
ASSUME ServicesAssumption == Services \subseteq {"restore", "discard"}

VARIABLES phase,    \* of each worker's process
          asking,   \* the limit of the assign_tasks call each worker is in, or 0
          slot,     \* what each slot of a worker holds
          sweep,    \* each sweeper's restore_abandoned_tasks
          trash,    \* each sweeper's discard_disposable_tasks
          dropped,  \* tasks some call about which failed after it was claimed
          disturbed \* tasks a service interfered with

fleetVars == <<phase, asking, slot, sweep, trash, dropped, disturbed>>
vars == <<now, key, fleetVars>>

Held  == [task: Task, info: Info, stage: {"run", "found", "unfound"}]
Sweep == [todo: SUBSET Task, next: [task: Task, due: Time] \cup {Missing}]
Trash == [ids: SUBSET Task, found: SUBSET Task, looked: BOOLEAN]
NoSweep == [todo |-> {}, next |-> Missing]
NoTrash == [ids |-> {}, found |-> {}, looked |-> FALSE]

ASSUME FreeAssumption == Free \notin Held

TypeOK ==
    /\ StoreTypeOK
    /\ phase \in [Worker -> {"up", "draining", "gone"}]
    /\ asking \in [Worker -> 0 .. Cardinality(Slot)]
    /\ slot \in [Worker -> [Slot -> Held \cup {Free}]]
    /\ sweep \in [Sweeper -> Sweep]
    /\ trash \in [Sweeper -> Trash]
    /\ dropped \in SUBSET Task /\ disturbed \in SUBSET Task

Init ==
    /\ StoreInit
    /\ phase = [w \in Worker |-> "up"]
    /\ asking = [w \in Worker |-> 0]
    /\ slot = [w \in Worker |-> [s \in Slot |-> Free]]
    /\ sweep = [p \in Sweeper |-> NoSweep]
    /\ trash = [p \in Sweeper |-> NoTrash]
    /\ dropped = {} /\ disturbed = {}

FreeSlots(w)   == {s \in Slot : slot[w][s] = Free}
Holds(w, s, t) == slot[w][s] # Free /\ slot[w][s].task = t
HeldBy(w, t)   == \E s \in Slot : Holds(w, s, t)
FreeSlot(w, s) == slot' = [slot EXCEPT ![w][s] = Free]

-----------------------------------------------------------------------------
(* Clients and the life of a worker.                                       *)

\* put_tasks
Submit(t) ==
    /\ \E due \in Time : Update(t, Enqueue(key[t], [retry |-> 0, due |-> due]))
    /\ UNCHANGED <<now, fleetVars>>

Bug_Stop(w) ==
    /\ phase[w] = "up" /\ phase' = [phase EXCEPT ![w] = "draining"]
    /\ slot' = [slot EXCEPT ![w] = [s \in Slot |-> Free]]
    /\ UNCHANGED <<now, key, asking, sweep, trash, dropped, disturbed>>

Stop(w) ==
    /\ phase[w] = "up" /\ phase' = [phase EXCEPT ![w] = "draining"]
    /\ UNCHANGED <<now, key, asking, slot, sweep, trash, dropped, disturbed>>

Crash(w) ==
    /\ phase[w] # "gone" /\ phase' = [phase EXCEPT ![w] = "gone"]
    /\ asking' = [asking EXCEPT ![w] = 0]
    /\ slot' = [slot EXCEPT ![w] = [s \in Slot |-> Free]]
    /\ UNCHANGED <<now, key, sweep, trash, dropped, disturbed>>

-----------------------------------------------------------------------------
(* assign_tasks.                                                           *)

\* The loop reads the number of free permits and calls assign_tasks with it.
BeginAssign(w) ==
    /\ phase[w] = "up" /\ asking[w] = 0 /\ FreeSlots(w) # {}
    /\ asking' = [asking EXCEPT ![w] = Cardinality(FreeSlots(w))]
    /\ UNCHANGED <<now, key, phase, slot, sweep, trash, dropped, disturbed>>

Placements(w, T) ==
    {f \in [T -> FreeSlots(w)] : \A t, u \in T : f[t] = f[u] => t = u}

\* The script takes what it can, and an execution starts for each record.
Assign(w) ==
    /\ asking[w] > 0
    /\ LET T == Claimable(asking[w]) IN
       /\ ClaimAll(w, T)
       /\ \E f \in Placements(w, T) :
             slot' = [slot EXCEPT ![w] = [s \in Slot |->
                        IF \E t \in T : f[t] = s
                        THEN LET t == CHOOSE u \in T : f[u] = s
                             IN [task |-> t, info |-> key[t].info, stage |-> "run"]
                        ELSE slot[w][s]]]
    /\ asking' = [asking EXCEPT ![w] = 0]
    /\ UNCHANGED <<now, phase, sweep, trash, dropped, disturbed>>

\* The reply of the script is lost.
AssignLost(w) ==
    /\ BackendFails /\ asking[w] > 0
    /\ LET T == Claimable(asking[w]) IN
       /\ ClaimAll(w, T)
       /\ dropped' = dropped \cup T
    /\ asking' = [asking EXCEPT ![w] = 0]
    /\ UNCHANGED <<now, phase, slot, sweep, trash, disturbed>>

-----------------------------------------------------------------------------
(* handle_task.                                                            *)

Running(w, s) == slot[w][s] # Free /\ slot[w][s].stage = "run"

\* succeed or fail
Finish(w, s) ==
    /\ Running(w, s)
    /\ \E o \in Outcome :
          LET h == slot[w][s] IN Update(h.task, Settle(key[h.task], h.info, o))
    /\ FreeSlot(w, s)
    /\ UNCHANGED <<now, phase, asking, sweep, trash, dropped, disturbed>>

Retry(w, s) ==
    /\ Running(w, s) /\ slot[w][s].info.retry < MaxRetry
    /\ \E due \in now .. MaxTime :
          LET h == slot[w][s] IN
          Update(h.task, Replace(key[h.task], [retry |-> h.info.retry + 1, due |-> due]))
    /\ FreeSlot(w, s)
    /\ UNCHANGED <<now, phase, asking, sweep, trash, dropped, disturbed>>

\* discard_tasks looks the task up ...
DiscardLookup(w, s) ==
    /\ Running(w, s)
    /\ slot' = [slot EXCEPT ![w][s].stage =
                  IF Known(slot[w][s].task) THEN "found" ELSE "unfound"]
    /\ UNCHANGED <<now, key, phase, asking, sweep, trash, dropped, disturbed>>

\* ... and then runs its pipeline.
DiscardTask(w, s) ==
    /\ slot[w][s] # Free /\ slot[w][s].stage # "run"
    /\ LET h == slot[w][s] IN Update(h.task, Discard(key[h.task], h.stage = "found"))
    /\ FreeSlot(w, s)
    /\ UNCHANGED <<now, phase, asking, sweep, trash, dropped, disturbed>>

\* Any of these calls fails, and its error is ignored.
CallFails(w, s) ==
    /\ BackendFails /\ slot[w][s] # Free
    /\ dropped' = dropped \cup {slot[w][s].task}
    /\ FreeSlot(w, s)
    /\ UNCHANGED <<now, key, phase, asking, sweep, trash, disturbed>>

HandleTask(w, s) ==
    \/ Finish(w, s) \/ Retry(w, s) \/ CallFails(w, s)
    \/ DiscardLookup(w, s) \/ DiscardTask(w, s)

-----------------------------------------------------------------------------
(* RestoreAbandonedTasks.                                                  *)

StagedTasks == {t \in Task : Staged(t)}

\* get_stage_info and get_workers: the tasks of staged entries whose worker
\* does not seem to be alive.  A heartbeat may be late at any time (SqlFleet
\* has the leases), so these may be any.
JudgeStage(p) ==
    /\ "restore" \in Services /\ sweep[p] = NoSweep
    /\ \E T \in SUBSET StagedTasks :
          /\ T # {}
          /\ sweep' = [sweep EXCEPT ![p].todo = T]
          /\ disturbed' = disturbed \cup T
    /\ UNCHANGED <<now, key, phase, asking, slot, trash, dropped>>

\* restore looks the task up and does nothing when it is gone ...
RestoreLookup(p, t) ==
    /\ t \in sweep[p].todo /\ sweep[p].next = Missing
    /\ sweep' = [sweep EXCEPT ![p].todo = @ \ {t},
                              ![p].next = IF Known(t)
                                          THEN [task |-> t, due |-> key[t].info.due]
                                          ELSE Missing]
    /\ UNCHANGED <<now, key, phase, asking, slot, trash, dropped, disturbed>>

\* ... and then runs its pipeline, whatever happened to the task meanwhile.
RestoreTask(p) ==
    /\ sweep[p].next # Missing
    /\ LET n == sweep[p].next IN Update(n.task, Requeue(key[n.task], n.due))
    /\ sweep' = [sweep EXCEPT ![p].next = Missing]
    /\ UNCHANGED <<now, phase, asking, slot, trash, dropped, disturbed>>

-----------------------------------------------------------------------------
(* DiscardDisposableTasks.                                                 *)

ListDisposable(p) ==
    /\ "discard" \in Services /\ trash[p] = NoTrash /\ DisposableTasks # {}
    /\ trash' = [trash EXCEPT ![p].ids = DisposableTasks]
    /\ UNCHANGED <<now, key, phase, asking, slot, sweep, dropped, disturbed>>

LookupDisposable(p) ==
    /\ trash[p].ids # {} /\ ~trash[p].looked
    /\ trash' = [trash EXCEPT ![p].looked = TRUE,
                              ![p].found = {t \in trash[p].ids : Known(t)}]
    /\ UNCHANGED <<now, key, phase, asking, slot, sweep, dropped, disturbed>>

\* A task that waits to run, or runs, is not the service's to delete.
DiscardDisposable(p) ==
    /\ trash[p].looked
    /\ key' = [t \in Task |-> IF t \in trash[p].ids
                              THEN Discard(key[t], t \in trash[p].found) ELSE key[t]]
    /\ disturbed' = disturbed \cup
                    {t \in trash[p].ids : Known(t) /\ (key[t].ttl # "past" \/ Queued(t) \/ Staged(t))}
    /\ trash' = [trash EXCEPT ![p] = NoTrash]
    /\ UNCHANGED <<now, phase, asking, slot, sweep, dropped>>

HouseStep(p) ==
    \/ JudgeStage(p) \/ RestoreTask(p)
    \/ \E t \in Task : RestoreLookup(p, t)
    \/ ListDisposable(p) \/ LookupDisposable(p) \/ DiscardDisposable(p)

Clock == (Tick \/ \E t \in Task : TtlPasses(t)) /\ UNCHANGED fleetVars

Next ==
    \/ Clock
    \/ \E t \in Task : Submit(t)
    \/ \E w \in Worker :
          \/ Stop(w) \/ Crash(w)
          \/ BeginAssign(w) \/ Assign(w) \/ AssignLost(w)
          \/ \E s \in Slot : HandleTask(w, s)
    \/ \E p \in Sweeper : HouseStep(p)

Spec == Init /\ [][Next]_vars

-----------------------------------------------------------------------------
(* Properties.                                                             *)

\* The keys agree: a task on the stage is known and not queued, a known task
\* is queued, staged or has an outcome, and the keys of an outcome come and go
\* together.  An id is left in the queue without its task only where a restore
\* or a discard acted on a task that was no longer its own (enqueue_tasks,
\* discard_tasks, restore).
KeysAgree ==
    \A t \in Task :
       /\ Staged(t) => Known(t) /\ ~Queued(t)
       /\ Known(t) => Queued(t) \/ Staged(t) \/ key[t].outcome # {}
       /\ key[t].outcome # {} <=> key[t].ttl # "null"
       /\ key[t].outcome # {} => Known(t)
       /\ Ghost(t) => t \in disturbed

\* A staged task is held by the worker of its stage entry, or that worker has
\* crashed, or a call about the task failed (assign_tasks and handle_task).
NoOrphan ==
    \A t \in Task :
       Staged(t) => LET w == key[t].stage IN
                    HeldBy(w, t) \/ phase[w] = "gone" \/ t \in dropped

\* While no service interfered with a task, one slot at most holds it, the
\* stage says so, and a task with an outcome neither waits nor runs: so the
\* discard of old results deletes nothing that is alive.
ExclusiveExecution ==
    \A t \in Task \ disturbed :
       /\ key[t].outcome # {} => ~Queued(t) /\ ~Staged(t)
       /\ \A w \in Worker : \A s \in Slot : Holds(w, s, t) =>
             /\ key[t].stage = w /\ key[t].info = slot[w][s].info
             /\ \A v \in Worker : \A r \in Slot : Holds(v, r, t) => v = w /\ r = s

\* While a task is undisturbed, its outcome stays as it was stored until the TTL has
\* passed, although a retry does not clear it and a second one would be added to it,
\* and it leaves the stage for the queue only with its next attempt (succeed, fail,
\* retry_task and discard_tasks).
OutcomesAndAttemptsStand ==
    [][\A t \in Task \ disturbed' :
          /\ key[t].outcome # {} => \/ key'[t].outcome = key[t].outcome
                                    \/ key[t].ttl = "past" /\ ~Known(t)'
          /\ Staged(t) /\ Queued(t)' => key'[t].info.retry = key[t].info.retry + 1]_vars

DueTasks == {t \in Task : Known(t) /\ Queued(t) /\ key[t].queue <= now}

\* "Returning fewer records than `limit` tells the caller the queue is drained"
\* (backend.rs, assign_tasks).  The code does not keep this: ids without a task
\* stay at the head of the queue and use up the limit of every claim.
ShortBatchMeansDrained ==
    [][\A w \in Worker :
          Assign(w) /\ DueTasks' # {}
             => Cardinality(DueTasks) - Cardinality(DueTasks') = asking[w]]_vars

\* What the code does keep: a claim is short only where nothing due is left, or an
\* id without its task is in the queue (assign_tasks).
ShortBatchOfTasksMeansDrained ==
    [][\A w \in Worker :
          Assign(w) /\ (\A t \in Task : ~Ghost(t)) /\ DueTasks' # {}
             => Cardinality(DueTasks) - Cardinality(DueTasks') = asking[w]]_vars

Status(t) == IF ~Known(t) THEN "absent"
             ELSE IF Queued(t) THEN "queued"
             ELSE IF Staged(t) THEN "started" ELSE "settled"

Contract == INSTANCE TaskContract WITH
               Exec   <- Worker \X Slot,
               status <- [t \in Task |-> Status(t)],
               runs   <- [t \in Task |-> {e \in Worker \X Slot : Holds(e[1], e[2], t)}],
               sound  <- Task \ disturbed

\* The fleet on Redis keeps the contract that the fleet on an SQL backend keeps.
KeepsContract == Contract!Spec

=============================================================================
