----------------------------- MODULE Housekeeping -----------------------------
(***************************************************************************)
(* The services of service.rs that every process of a fleet runs beside    *)
(* its workers: heartbeats, the restore of abandoned tasks, the purge of   *)
(* dead workers and the discard of old results, over the worker table and  *)
(* the task table.  Each service awaits between what it reads and what it  *)
(* does about it, and each await is a step boundary.                       *)
(*                                                                         *)
(* A sweeper is a process whose turn it is to run these services.  The     *)
(* lock that should admit one sweeper at a time is left out, since backend.rs *)
(* asks the guarded work to be correct without it: one sweeper in a        *)
(* configuration is the lock held, two are the lock lost.                  *)
(***************************************************************************)
EXTENDS TaskTable, FiniteSets

CONSTANTS Sweeper,    \* processes that run the helper services
          Services,   \* the services they run: all of them in a deployment,
                      \* fewer in a configuration that looks at one
          StageLimit, \* LIMIT of the stage listing (100 in the code)
          TrashLimit  \* LIMIT of the listing of disposable tasks (100)

ASSUME ServicesAssumption ==
    Services \subseteq {"refresh", "restore", "purge", "discard"}
ASSUME LimitAssumption == StageLimit \in Nat \ {0} /\ TrashLimit \in Nat \ {0}

VARIABLES lease,     \* the worker table: registered or not, expired or not
          beat,      \* workers a refresh found alive and is about to register
          sweep,     \* each sweeper's restore_abandoned_tasks
          purge,     \* each sweeper's purge_workers: the ids read as expired
          trash,     \* each sweeper's discard_disposable_tasks: the ids listed
          disturbed  \* tasks a service interfered with: claimed abandoned, or
                     \* deleted, while that was not what the row said

houseVars == <<lease, beat, sweep, purge, trash, disturbed>>

StageEntry == [task: Task, worker: Worker \cup {Nobody}]
Sweep      == [seen: SUBSET StageEntry, todo: SUBSET Task]
NoSweep    == [seen |-> {}, todo |-> {}]

HouseTypeOK ==
    /\ lease \in [Worker -> {"none", "valid", "expired"}]
    /\ beat \in SUBSET Worker
    /\ sweep \in [Sweeper -> Sweep]
    /\ purge \in [Sweeper -> SUBSET Worker]
    /\ trash \in [Sweeper -> SUBSET Task]
    /\ disturbed \in SUBSET Task

HouseInit ==
    /\ lease = [w \in Worker |-> "none"]
    /\ beat = {}
    /\ sweep = [p \in Sweeper |-> NoSweep]
    /\ purge = [p \in Sweeper |-> {}]
    /\ trash = [p \in Sweeper |-> {}]
    /\ disturbed = {}

-----------------------------------------------------------------------------
(* Heartbeats (RefreshWorkerLifetime).                                     *)

\* The refresh finds the worker alive ...
ReadAlive(w) ==
    /\ "refresh" \in Services /\ w \notin beat
    /\ beat' = beat \cup {w}
    /\ UNCHANGED <<row, lease, sweep, purge, trash, disturbed>>

\* ... and its set_worker_ttl takes effect, whatever happened meanwhile.
SetWorkerTtl(w) ==
    /\ w \in beat
    /\ lease' = [lease EXCEPT ![w] = "valid"]
    /\ beat' = beat \ {w}
    /\ UNCHANGED <<row, sweep, purge, trash, disturbed>>

\* WORKER_TTL has passed since the last heartbeat.
LeaseExpires(w) ==
    /\ lease[w] = "valid"
    /\ lease' = [lease EXCEPT ![w] = "expired"]
    /\ UNCHANGED <<row, beat, sweep, purge, trash, disturbed>>

-----------------------------------------------------------------------------
(* RestoreAbandonedTasks.                                                  *)

StageEntries == {[task |-> t, worker |-> row[t].assignee] : t \in StagedTasks}

\* get_stage_info
ListStage(p) ==
    /\ "restore" \in Services /\ sweep[p] = NoSweep
    /\ \E es \in SUBSET StageEntries :
          /\ es # {}
          /\ es = StageEntries \/ Cardinality(es) = StageLimit
          /\ Cardinality(es) <= StageLimit
          /\ sweep' = [sweep EXCEPT ![p] = [seen |-> es, todo |-> {}]]
    /\ UNCHANGED <<row, lease, beat, purge, trash, disturbed>>

Bug_Abandoned(es) == {e.task : e \in {x \in es : lease[x.worker] = "expired"}}

\* The tasks of the entries whose worker get_workers does not list as active.
Abandoned(es) == {e.task : e \in {x \in es : lease[x.worker] # "valid"}}

\* get_workers
JudgeStage(p) ==
    /\ sweep[p].seen # {}
    /\ sweep' = [sweep EXCEPT ![p] = [seen |-> {}, todo |-> Abandoned(sweep[p].seen)]]
    /\ disturbed' = disturbed \cup Abandoned(sweep[p].seen)
    /\ UNCHANGED <<row, lease, beat, purge, trash>>

RestoreTask(p, t) ==
    /\ t \in sweep[p].todo
    /\ Restore(t)
    /\ sweep' = [sweep EXCEPT ![p].todo = @ \ {t}]
    /\ UNCHANGED <<lease, beat, purge, trash, disturbed>>

\* A call that fails, or the sweeper's process dying, ends the sweep there.
SweepEnds(p) ==
    /\ sweep[p] # NoSweep
    /\ sweep' = [sweep EXCEPT ![p] = NoSweep]
    /\ UNCHANGED <<row, lease, beat, purge, trash, disturbed>>

-----------------------------------------------------------------------------
(* PurgeDeadWorkers.                                                       *)

ListExpired(p) ==
    /\ "purge" \in Services /\ purge[p] = {}
    /\ purge' = [purge EXCEPT ![p] = {w \in Worker : lease[w] = "expired"}]
    /\ purge'[p] # {}
    /\ UNCHANGED <<row, lease, beat, sweep, trash, disturbed>>

PurgeWorkers(p) ==
    /\ purge[p] # {}
    /\ lease' = [w \in Worker |-> IF w \in purge[p] THEN "none" ELSE lease[w]]
    /\ purge' = [purge EXCEPT ![p] = {}]
    /\ UNCHANGED <<row, beat, sweep, trash, disturbed>>

-----------------------------------------------------------------------------
(* DiscardDisposableTasks.                                                 *)

ListDisposable(p) ==
    /\ "discard" \in Services /\ trash[p] = {}
    /\ \E ts \in SUBSET DisposableTasks :
          /\ ts # {}
          /\ ts = DisposableTasks \/ Cardinality(ts) = TrashLimit
          /\ Cardinality(ts) <= TrashLimit
          /\ trash' = [trash EXCEPT ![p] = ts]
    /\ UNCHANGED <<row, lease, beat, sweep, purge, disturbed>>

Bug_DiscardDisposable(p) ==
    /\ trash[p] # {}
    /\ DiscardTasks(trash[p])
    /\ disturbed' = disturbed \cup {t \in trash[p] : Known(t) /\ t \notin DisposableTasks}
    /\ UNCHANGED <<lease, beat, sweep, purge, trash>>

DiscardDisposable(p) ==
    /\ trash[p] # {}
    /\ DiscardTasks(trash[p])
    /\ disturbed' = disturbed \cup {t \in trash[p] : Known(t) /\ t \notin DisposableTasks}
    /\ trash' = [trash EXCEPT ![p] = {}]
    /\ UNCHANGED <<lease, beat, sweep, purge>>

HouseStep(p) ==
    \/ ListStage(p) \/ JudgeStage(p) \/ SweepEnds(p)
    \/ \E t \in Task : RestoreTask(p, t)
    \/ ListExpired(p) \/ PurgeWorkers(p)
    \/ ListDisposable(p) \/ DiscardDisposable(p)

=============================================================================
