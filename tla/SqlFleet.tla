------------------------------- MODULE SqlFleet -------------------------------
(***************************************************************************)
(* A fleet of taskkit processes on one SQL database: clients that submit   *)
(* tasks, the workers of TaskWorkers and the services of Housekeeping, all *)
(* interleaved at the granularity of database transactions.                *)
(***************************************************************************)
EXTENDS TaskWorkers, Housekeeping

CONSTANTS Timely, \* heartbeats of running workers are never late
          Stable  \* workers that are neither stopped nor killed (for liveness)

ASSUME TimelyAssumption == Timely \in BOOLEAN
ASSUME StableAssumption == Stable \subseteq Worker

vars == <<row, phase, call, slot, dropped, lease, beat, sweep, purge, trash, disturbed>>

TypeOK == TableTypeOK /\ WorkersTypeOK /\ HouseTypeOK

Init == TableInit /\ WorkersInit /\ HouseInit

-----------------------------------------------------------------------------

\* put_tasks, with a due time that has come or not.
Submit(t) ==
    /\ \E due \in BOOLEAN : PutTasks({t}, due)
    /\ UNCHANGED <<workerVars, houseVars>>

Clock(t) ==
    /\ BecomesDue(t) \/ BecomesDisposable(t)
    /\ UNCHANGED <<workerVars, houseVars>>

\* RefreshWorkerLifetime skips a worker that was told to stop.
Heartbeat(w) ==
    /\ \/ Alive(w) /\ ReadAlive(w)
       \/ SetWorkerTtl(w)
    /\ UNCHANGED workerVars

ExpireLease(w) ==
    /\ Timely => phase[w] # "up"
    /\ LeaseExpires(w)
    /\ UNCHANGED workerVars

Work(A)      == A /\ UNCHANGED houseVars
Housekeep(A) == A /\ UNCHANGED workerVars

\* Stable workers are exempt from shutdown events and crashes.
Leave(w) == w \notin Stable /\ (Stop(w) \/ Crash(w))

Next ==
    \/ \E t \in Task : Submit(t) \/ Clock(t)
    \/ \E w \in Worker : Heartbeat(w) \/ ExpireLease(w)
                         \/ Work(WorkerStep(w)) \/ Work(Leave(w))
    \/ \E p \in Sweeper : Housekeep(HouseStep(p))

Spec == Init /\ [][Next]_vars

-----------------------------------------------------------------------------
(* Fairness.  Timers fire, the loops and services of a process that lives  *)
(* keep running, handlers return.  Strong fairness where a row that is     *)
(* briefly locked, or a call that fails now and then, defers a step.       *)

FairWorker(w) ==
    /\ WF_vars(Work(FetchLoop(w)))
    /\ \A t \in Task : SF_vars(Work(ClaimTask(w, t)))
    /\ \A s \in Slot : WF_vars(Work(HandleTask(w, s)))

FairServices(p) ==
    /\ WF_vars(Housekeep(ListStage(p)))
    /\ SF_vars(Housekeep(JudgeStage(p)))
    /\ \A t \in Task : SF_vars(Housekeep(RestoreTask(p, t)))

FairSpec ==
    /\ Spec
    /\ \A t \in Task : WF_vars(Clock(t))
    /\ \A w \in Worker : WF_vars(ExpireLease(w)) /\ FairWorker(w)
    /\ \A w \in Stable : WF_vars(Work(Spawn(w)))
    /\ \A p \in Sweeper : FairServices(p)

-----------------------------------------------------------------------------
(* Safety.                                                                 *)

\* Every staged task is in the hands of the worker its row names, or that
\* worker has crashed and restore will take it back, or a backend call about
\* the task failed.  Otherwise the task would stay on the stage for ever
\* while its worker keeps heartbeating (worker.rs, handle_task; the drain at
\* the end of the loop of runner.rs).
NoOrphan ==
    \A t \in Task :
       Staged(t) => LET w == row[t].assignee IN
                    HeldBy(w, t) \/ phase[w] = "crashed" \/ t \in dropped

\* While no service judged a task abandoned or deleted it early, at most one
\* slot of the fleet holds it, and what it holds is what the row says: staged,
\* by this worker, at this attempt (assign_tasks and the FOR UPDATE row lock).
ExclusiveExecution ==
    \A t \in Task \ disturbed : \A w \in Worker : \A s \in Slot :
       Holds(w, s, t) =>
          /\ Staged(t) /\ row[t].assignee = w
          /\ row[t].retry = slot[w][s].retry
          /\ \A v \in Worker : \A r \in Slot : Holds(v, r, t) => v = w /\ r = s

\* A worker that still fills its batch has a permit for every task it may yet
\* claim, so the loop never waits for a permit with claimed records in hand
\* (runner.rs: "the free count cannot shrink").
PermitsCoverClaims ==
    \A w \in Worker : Cardinality(FreeSlots(w)) >= call[w].limit

\* While a task is undisturbed, its outcome stays as it was stored until the
\* TTL has passed, and an attempt that began is never begun again: it leaves
\* the stage only for the next attempt (update_task_done, retry_task).
OutcomesAndAttemptsStand ==
    [][\A t \in Task \ disturbed' :
          /\ Done(t) => \/ Known(t)' /\ row'[t].outcome = row[t].outcome
                        \/ row[t].disposable = "past"
          /\ Known(t) /\ row[t].began /\ Queued(t)'
                => row'[t].retry = row[t].retry + 1]_vars

\* With the lock of DiscardDisposableTasks held (one sweeper), the service
\* never deletes an undisturbed task that is not past its TTL, however long it
\* takes between listing and deleting (service.rs, get_disposable_task_ids).
DiscardIsSafe ==
    [][\A p \in Sweeper : DiscardDisposable(p) =>
          \A t \in trash[p] \ disturbed : Known(t) => t \in DisposableTasks]_vars

\* As long as heartbeats are in time, a worker that has registered stays listed until
\* it is told to stop, whatever the purge does with the ids it read before
\* (service.rs, PurgeDeadWorkers).
RunningWorkersStayListed ==
    [][Timely => \A w \in Worker :
          phase[w] = "up" /\ lease[w] = "valid" => lease'[w] = "valid"]_vars

-----------------------------------------------------------------------------
(* What the documentation says and the code does not do: each of these is  *)
(* violated by a run of its own.                                           *)

\* A worker holds the task its row names it for, and the task is put back in
\* the queue all the same.
TakenFrom(w, t) ==
    /\ Staged(t) /\ row[t].assignee = w /\ HeldBy(w, t)
    /\ Queued(t)' /\ row'[t].retry = row[t].retry

\* "Used to recover tasks from dead workers" (backend.rs, restore): a worker
\* that drains after a shutdown is not dead, yet it no longer heartbeats.
DrainingWorkersKeepTasks ==
    [][\A w \in Worker, t \in Task : 
          phase[w] = "draining" /\ lease[w] = "expired" => ~TakenFrom(w, t)]_vars

\* "Restore a task from the stage back to the queue" (backend.rs, restore): a
\* task that was done, and so no longer on the stage, is not queued again.
DoneTasksStayDone ==
    [][\A t \in Task : Done(t) /\ row[t].began => ~(Queued(t)' /\ Done(t)')]_vars

-----------------------------------------------------------------------------
(* Liveness.                                                               *)

\* A task in the table is eventually done or gone, whatever worker claims it
\* and then stops or crashes, as long as one worker keeps running.
EveryTaskSettles ==
    \A t \in Task : Known(t) ~> (~Known(t) \/ Done(t))

\* A worker told to stop, which a stable one never is, finishes what it holds
\* and exits (the drain of runner.rs), unless it is killed first.
DrainEnds ==
    \A w \in Worker \ Stable : phase[w] = "draining" ~> phase[w] # "draining"

-----------------------------------------------------------------------------
(* The fleet keeps the contract of TaskContract.                           *)

Status(t) == CASE ~Known(t)                 -> "absent"
               [] Queued(t)                 -> "queued"
               [] Staged(t)                 -> "started"
               [] Done(t) /\ row[t].began   -> "settled"

Runs(t) == {e \in Worker \X Slot : Holds(e[1], e[2], t)}

Contract == INSTANCE TaskContract WITH
               Exec   <- Worker \X Slot,
               status <- [t \in Task |-> Status(t)],
               runs   <- [t \in Task |-> Runs(t)],
               sound  <- Task \ disturbed

\* Every step of the fleet is a step the contract allows (all of TaskBackend,
\* Worker and the services together).
KeepsContract == Contract!Spec

=============================================================================
