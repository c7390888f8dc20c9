# A TLA+ model of taskkit

taskkit is a distributed task queue: clients submit tasks to a backend (PostgreSQL, MySQL, Redis or memory),
processes run workers that claim and execute them, and helper services keep the fleet healthy.  This directory
models the parts of it whose correctness depends on the order of steps of several processes, checks them with TLC
on small instances and proves the main results with TLAPS for every size.

Paths below are relative to the crate's `src/` directory unless they start with `impls/` (which is `src/impls/`).

## The system

| Component | State | Operations | Talks to |
| --- | --- | --- | --- |
| SQL backend (`impls/sqlx.rs`, `impls/postgres.rs`, `impls/mysql.rs`) | tables `taskkit_task`, `taskkit_worker`, `taskkit_scheduler_state`, `taskkit_control_event` | put, assign, retry, discard, succeed, fail, get_result, restore, listings, worker leases, scheduler state | everybody calls it; rows are locked inside a transaction |
| Redis backend (`impls/redis.rs`) | sorted sets for queues, stage, done and disposable tasks; hashes for data, info, stage entries and outcomes | the same, as Lua scripts and MULTI pipelines, some after a read | the same |
| In-memory backend (`impls/memory.rs`) | one structure behind one mutex, a broadcast channel, a set of locks | the same | tests and single processes |
| Worker and runners (`worker.rs`, `runner.rs`) | permits, `should_stop`, `paused`, one fetch loop for each group | assign, handle_task, pause, resume, stop, drain; run a service again and again | the backend, user handlers |
| Helper services (`service.rs`) | nothing between calls | heartbeat, restore abandoned tasks, purge dead workers, discard old results | the backend, the lock provider |
| Scheduler (`scheduler.rs`) | stored `last_run_at` and `last_scheduled_at` for each entry | one call: lock, read, derive points, store state and tasks | the backend, the lock provider |
| Runtime and kit (`runtime.rs`, `kit.rs`) | runners, services, the groups still alive | start-up, control events, shutdown and joins; initiate tasks, send events | everything above |
| Event bridge (each backend) | events in transit | send, receive | runtime |
| Locks (each backend) | who holds a name | acquire, release, loss | services, scheduler |
| Task results (`result.rs`) | a cached result | poll until there is an outcome or the timeout has passed | the backend, and a guard against waiting inside a handler |

Tasks, registry and kit (`task.rs`, `kit.rs`) are types, builders and conversions with no state of their own.

What is hard about it:

* **Interleaving.**  A claim on SQL is a listing followed by one transaction for each row; several workers race for the same rows.
  Heartbeats, restores, purges and discards read in one transaction and act in another.
* **Crashes.**  A worker can die with claimed tasks; a lease has to expire and another process has to judge and requeue them.
* **Failing calls.**  The errors of `succeed`, `fail`, `retry_task` and `discard_tasks` are ignored by the worker, and a claim that fails
  half way forgets the rows it had committed.
* **Lost locks.**  The locks that admit one scheduler or one sweeper at a time can be lost while the guarded work goes on; the
  documentation asks that work to be correct anyway.
* **Clocks.**  Schedule points are recomputed from stored times by processes whose clocks differ.
* **Shutdown.**  Pauses, resumes and stops arrive while loops sleep or claim; the order of the joins decides whether `run` returns
  before its handlers do.
* **Split keys.**  On Redis, queue, stage and data of a task are separate keys, and some operations look first and write later.
* **Scarce things held while waiting for more.**  A section that holds a session lock occupies one connection of the pool and
  needs another; a handler that waits for a task's result occupies a permit that task may need.
* **Delivery.**  Events are rows stamped by the clocks of their senders and read by offset, or messages on a channel that keeps little or nothing.

What makes each part correct: a task is executed in one place at a time unless a service took it for abandoned; a claimed
task is always in somebody's hands; an outcome stands; every task settles; a matching schedule point becomes a task once
and none is skipped; `run` ends when asked, and ends last; a lock is granted to one section at a time and comes back; the
events a stream yields are in order, none twice, and those that arrive in time are all yielded (of several with one stamp the code yields
only one, see below); a wait for a result ends.

## Modules

Arrows read "extends".

    TaskTable <- TaskWorkers  <- SqlFleet <- SqlFleetProofs
    TaskTable <- Housekeeping <- SqlFleet <- MCSqlFleet
    RedisStore  <- RedisFleet  <- MCRedisFleet        Scheduler <- MCScheduler
    MemoryStore <- MemoryFleet <- MCMemoryFleet       Locks, Events <- MCLocksEvents
    RedisFleet, FirstElements  <- RedisFleetProofs    MCLocksEvents <- LocksEventsProofs
    MemoryFleet, FirstElements <- MemoryFleetProofs   Runtime       <- RuntimeProofs
    Scheduler, FirstElements   <- SchedulerProofs

`SqlFleet`, `RedisFleet` and `MemoryFleet` instantiate `TaskContract`; `Locks` and `Scheduler` instantiate `LockContract`.

**TaskTable** is the table `taskkit_task` and the statements and transactions on it.  `row[t]` is the row of `t`, or `NoRow`;
a transaction locks its one row before it writes, so it is one step.  `due < now` is the flag `due` and `disposable < now`
the value "past" of `disposable`; both change by a step of the clock.  `UpdateTaskDone` writes by key without looking at `began`,
`UpdateRestore` clears `began` of whatever row is there, `AssignTask` looks at nothing but `began`: as the statements do.

**TaskWorkers** is one fetch loop and the executions of each worker.  `phase` is the process, `call` the `assign_tasks` call it
is in (rest of the limit, width of the last listing, ids still to try), `slot` the permits: a claimed record takes a slot from
the transaction that claims it, and runs from `Dispatch` on.  `handle_task` ends by one of four calls, each of which may fail
(`FinishFails`).  `dropped` is a history variable: the tasks some call failed about.

**Housekeeping** is the services, with a step wherever the code awaits: a refresh finds a worker alive (`ReadAlive`) and stores its
lease later (`SetWorkerTtl`); a restore lists the stage, judges it against the leases, and restores task by task; purge and
discard list and then delete.  `disturbed` is a history variable: the tasks that a service judged abandoned, or deleted before
their time.  The locks are not modelled here: one sweeper is the lock held, two are the lock lost.

**SqlFleet** composes the three with clients and the clock.  A heartbeat skips a worker that was told to stop, as
`RefreshWorkerLifetime` does.

**TaskContract** is the abstract specification: for each task a status (absent, queued, started, settled), the executions under
way, and whether it is sound (no service interfered).  A sound task runs in one place at a time and only its execution moves it
on.  What a user may conclude from that is stated and proved in the module itself: `RunsAlone`, `LivesInOrder`, `OnlyItsExecution` and
`BeginsFromQueue`.  `SqlFleet`, `RedisFleet` and `MemoryFleet` map `status` to `Status(t)`, `runs` to the slots that hold `t`, `sound` to `Task \ disturbed`.
A claim on Redis and in memory starts several tasks in one step, each by an execution of its own (`Start`); SQL claims row by row.  Executions may
vanish, and a claim may succeed without anybody hearing of it (`StartUnheard`): then its tasks are started and nothing runs them.

**RedisStore** and **RedisFleet** are the same fleet on Redis.  `key[t]` is what the keys say about `t`; a script or MULTI pipeline is
one step, and the lookup in front of the pipelines of `discard_tasks` and `restore` is a step of its own.  The claim is one
script over the first ids of the queue; ids without data are skipped and stay.  `JudgeStage` judges any staged tasks
abandoned, since leases are SqlFleet's matter.

**MemoryStore** and **MemoryFleet** are a process on the in-memory backend.  Each operation of `impls/memory.rs` holds the mutex
throughout and is one step; `order` is the relation between entries that `seq` gives, and a claim takes the first few by due time and `order` (`FirstOf`).  `Assign` is a round of the fetch loop: the claimed records go
to the first free permits, in the order of the claim.  `HandlerGets` is a handler that calls `TaskResult::get`: it is kept from waiting
(`Prevented`) unless the pair of tasks is in `Safe`, the calls made with `avoid_assertion`.  `handle[c]` is a client's `TaskResult`, with its
cache and the last outcome it reported.  `FindAbandoned` may doubt any staged task, as `JudgeStage` on Redis.

**LockContract** is what the trait `Lock` promises: `Grant` while nobody holds the lock, `Leave`, and `Lose`, which the holder does not notice.

**Locks** is three implementations of it, chosen by `kind`.  A section is one call of a service under a lock (idle, trying, inside, done).  For "session"
(`PostgresLock`, `MysqlLock`), `lent[c]` is who has borrowed connection `c` of a pool, `holds[c][t]` how often its session has locked `t`;
`Work` needs a connection besides the one that has the lock, and fails when none is left before the pool's timeout.  For "key"
(`RedisLock`) and "set" (`MemoryLock`), `key[t]` is the token of the section that set it.  `Panic` runs the `Drop` of the lock.

**Events** is three bridges, chosen by `bridge`.  For "table", `Stamp` reads the sender's clock, `Insert` commits later, `Fetch` is one round of the
stream: it reads the rows after `offset` in the order of their stamps and stops at the first one it can decode.  "pubsub" and "broadcast" are
channels: `Publish` puts an event into the buffer of every open stream, `Take` yields it; a broadcast drops what exceeds `Capacity`, and a
pub/sub connection may break (`End`).  `from` and `lost` are history.

**MCLocksEvents** instantiates Locks and Events, which share no state; a behaviour is of one or of the other (`part`).

**Scheduler** is one named scheduler in several processes.  Time is ticks, schedule points are `Interval` apart and numbered.  A call
takes the lock and reads its (lagging) clock, reads the state and derives the points (`GetState`), and stores state and tasks in
one transaction (`Persist`), which overwrites whatever state is there.  Which points an entry matches follows from the fields it accepts, read
off the wall clock of its own zone or the scheduler's (`Matching`, `ZoneOf`); the calendar itself is the constant `WallClock`.  `lost`,
`begin`, `made` and `runs` are history.

**Runtime** is `Runtime::run` with its group runners and services: the fetch loop with stop, pause, permits and waits, control
events, Ctrl-C, the broken bridge, and the joins in their order.  A bridge may lose, repeat and reorder events, so `Receive`
takes any event.  A call of the heartbeat service ends before its runner looks at `should_stop`, and its end drops the references
to the group runners, which is what `JoinRunners` depends on.

## Runs

Every run checks deadlock except RuntimeShutdown, where the process ends, and LocksEvents, EventsMissed and MemoryFleet, where nothing is
left to do once every event was yielded or every task has run.

| Run | Question | Bounds | Result |
| --- | --- | --- | --- |
| SqlFleetClaims | do racing, failing, crashing, draining workers keep `NoOrphan` and `PermitsCoverClaims`, do outcomes and attempts stand (`OutcomesAndAttemptsStand`), does a discard delete only what expired (`DiscardIsSafe`), does the fleet implement TaskContract (`KeepsContract`)? | 2 tasks, 2 workers of 2 slots, 1 retry, first listing of 1 so that it doubles, discards by 1 sweeper, 1 id at a time | holds |
| SqlFleetLiveness | does every task settle (`EveryTaskSettles`) and every drain end (`DrainEnds`)? is a task executed in one place while no service disturbs it (`ExclusiveExecution`)? | 1 task, a stable worker and one that may stop or crash, heartbeats in time, restore and purge, no retry | holds |
| SqlFleetDrain | are only dead workers' tasks taken away? (`DrainingWorkersKeepTasks`) | 1 task, 2 workers, timely heartbeats | **violated** |
| SqlFleetDoneAgain | does restore queue only what is on the stage? (`DoneTasksStayDone`) | the same | **violated** |
| SchedulerRuns | policy (`RunsKeepPolicy`), state (`StateMatchesTasks`), no skip (`NothingIsSkipped`), no duplicate while locks hold (`NoDuplicates`), the lock used as promised (`UsesLockContract`), the stored run time catches up (`CatchesUp`) | 2 processes, one of them stable, 2 entries, both policies, two zones, 5 ticks of 2 to a point, clocks 1 tick apart | holds |
| SchedulerLostLock | "the queue never gains a duplicate" even when the lock is lost (`NoDuplicatesEver`) | 5 ticks | **violated** |
| RedisFleet | do the keys of a task agree (`KeysAgree`), do `NoOrphan`, `ExclusiveExecution`, `OutcomesAndAttemptsStand` and `KeepsContract` hold on Redis? | 1 task, 2 workers, restore and discard, failing calls, 1 retry, due now or later | holds |
| RedisShortBatch | "Returning fewer records than `limit` tells the caller the queue is drained" (`ShortBatchMeansDrained`) | 2 tasks, 1 worker of 2 slots, restore | **violated** |
| RuntimeShutdown | `run` returns Ok last (`ReturnsIdle`), a pause takes hold (`PauseTakesHold`), shutdown ends (`ShutdownCompletes`), a resumed group works (`ResumedGroupsWork`) | 2 groups of 1 permit, up to 2 waiting tasks each, 2 control events and Ctrl-C | holds |
| LocksEvents | one contract for three locks (`KeepsLockContract`), no locked session in a pool (`PoolIsClean`), locks come back (`LocksComeBack`); a section that has its lock is left alone (`HolderIsLeftAlone`); events in order and none twice (`YieldsInOrder`), none skipped but twins, late or dropped ones (`SkipsOnlyTwins`), of those in time one for each stamp is yielded (`EachStampIsHeard`) | 3 sections of 2 processes on 2 locks, pools of 2 connections; 3 events, one not decodable, 1 listener, 4 ticks, clocks 1 tick apart, a channel that keeps 1 | holds |
| EventsMissed | "will be received by all workers subscribed" (`SubscribersReceiveAll`) | 2 events, 1 listener that stays subscribed, 2 ticks, clocks that agree, a channel that keeps both | **violated** |
| MemoryFleet | claims in order (`ClaimsInOrder`), done stays done (`DoneTasksStayDone`), answers stand (`AnswersStand`), `KeepsContract`, waits end (`EverythingSettles`) | 2 tasks of one group of 2 permits, the first may wait for the second, 1 client, 1 retry, due now or later | holds |

Why the bounds are enough to meet the cases: exclusivity needs two contenders for one task and a slot to spare; a partial claim needs two tasks
in one call; a listing must be full once to be widened; a restore races with the worker it judged, with a second worker that
claims meanwhile, and with a finish, so one task with two workers meets each; one retry tells an attempt from the next; a
schedule call must span two points to select between them, and the clock passes three; pause then resume, or pause then
shutdown, are two events.  The limit of a discard's listing (`TrashLimit`) is reached in SqlFleetClaims, where a second expired task waits for
the next call; that of a sweep's (`StageLimit`) is not reached with these tasks.  Heartbeats are in time in the runs: late ones, which
make a sweep take a task from a worker that runs, are in the proofs (the restores of RedisFleet and MemoryFleet judge any staged task, so they meet them).  A pool of 2 connections is exhausted by the two sections of one process, each of which then waits for one more.  A second holder of a key needs two
processes on one lock.  Three events within two ticks share a stamp, and one that cannot be decoded stands before or behind another one.  Two tasks
in two permits are the least in which one handler waits for another task; that a restored task takes a second permit is reached too.  In MemoryFleet an id is
submitted once (`task.rs:77` lets a caller choose one again after the discard; the model has one life for each) and the sweep doubts one task at a time, which bounds the restores under way; the TTL is zero, so that every done
task expires with the next tick.

Every bound is a constant (`MaxRetry`, `MaxTime`, `MaxTasks`, `MaxEvents`, `MaxHolds`, `Skew`, `Capacity`) or named where it is.  TLC's instances with `SYMMETRY` check no
liveness.

`ExclusiveExecution`, the contract and the outcome property speak of undisturbed tasks.  That is what the code offers: a restore may
take a task from a worker whose heartbeat is late, at any time, and then two executions of it overlap.  The proofs include
those behaviours, and show that nothing else than a service's judgement opens the door.  SqlFleetClaims has no restores and SqlFleetLiveness
has them; `NoOrphan` is checked in the one and `ExclusiveExecution` in the other.  The proofs cover both with any services, and `KeepsContract` keeps a
sound task to one execution in SqlFleetClaims too.

Three definitions are stated beside the runs' properties for the proofs alone: `RunningWorkersStayListed` (SqlFleet), `ShortBatchOfTasksMeansDrained`
(RedisFleet) and `WaitsCanEnd` (MemoryFleet).

### What the violated runs show

* **SqlFleetDrain.**  `RefreshWorkerLifetime` (`service.rs:44`) skips workers that were told to stop.  A worker that drains for longer
  than `WORKER_TTL` counts as dead and its running tasks are restored and executed elsewhere, although `backend.rs` says restore
  recovers "tasks from dead workers" and `kit.rs` that a shutdown completes current tasks.
* **SqlFleetDoneAgain.**  `restore` clears `began` of any row (`impls/postgres.rs:501`).  A task that finished between the stage listing and
  the restore is queued again with its outcome in place and runs a second time.
* **SchedulerLostLock.**  The id of a scheduled task keeps a duplicate out only while the first row exists.  A call that outlived its
  lock moves `last_run_at` back, the points are looked at again, and a task that was run and discarded meanwhile is inserted again,
  although `task.rs:37` rules that out.
* **RedisShortBatch.**  `restore` looks a task up and adds its id to the queue in a later pipeline.  A discard in between leaves an id
  without data in the queue.  The claim script skips it and never removes it; it uses up the limit of every claim after it.

* **EventsMissed.**  After it yielded an event the stream of an SQL backend polls for `sent > $1` with that event's `sent` (`impls/sqlx.rs:557`,
  `impls/postgres.rs:590`).  A second event with the very same stamp is behind the offset then, and is never received, although `backend.rs:440` says an event
  "will be received by all workers subscribed to the event stream".  `SubscribersReceiveAll` counts only events that are in the table before the
  offset reaches their stamp, and listeners that stay subscribed.

### What the holding runs border on

* **EverythingSettles** exempts behaviours in which a task runs twice at once.  Without the exemption TLC finds a deadlock: a handler that waits with
  `avoid_assertion` for a task of its own group, and is restored while it waits because a heartbeat was late, runs a second time, waits in
  a second permit, and the task both wait for never gets one.  "No risk of deadlock" (`result.rs`) depends on timely heartbeats.
* **SkipsOnlyTwins** and **EachStampIsHeard** say how far the loss shown by EventsMissed goes: an event can take the place of another one of its own stamp only,
  and one that is alone at its stamp is received.  They exempt events in `lost`, which are lost against the same sentence of the documentation: on the SQL
  backends an insert that commits after a listener has read a later stamp, in memory an event that a full channel dropped (`Lagged` is ignored, `impls/memory.rs:477`).
  An event that was published before a stream opened, or after its connection broke, is not for that subscriber.
* **PoolIsClean** exempts connections on which an unlock failed (`dirty`): their error is ignored and they go back to the pool still locked, until the pool
  closes them for their age (`LocksComeBack` relies on this).
* **WaitsCanEnd**, which is a theorem and in no run, exempts the same overlap.  It is why `Safe` must leave a permit: of the tasks that may wait for one of a group, fewer than its permits are
  in that group (`SafeAssumption`, what the caller of `avoid_assertion` vouches for).
* Unlike a SQL restore (SqlFleetDoneAgain), a restore in memory cannot queue a done task, since `is_queued` looks at `done`.

### Fairness

`SqlFleet!FairSpec`: timers fire (clock, lease expiry), a stable worker is spawned, its loop goes on and its handlers return (weak
fairness).  Strong fairness on `ClaimTask`, because a row that is locked by somebody else is skipped and met again by a later
listing, and on `JudgeStage` and `RestoreTask`, because a sweep may end early now and then and the service is called again.
Nothing is assumed of crashes, stops or clients.  Retries are excluded there (`MaxRetry = 0`): a task that is retried for ever never settles, and the
code leaves the limit to the handler's `RetryAfter`/`Discard` decision.

`Scheduler!FairSpec`: the clock advances, a call goes on once started, `release` happens; a stable process gets the free lock
again and again (the service is called once a second) and not every call to the backend fails (strong fairness).

`Runtime!FairSpec`: the runtime's tasks are scheduled, handlers and service calls return, and an assign call does not come back empty
for ever while tasks wait (a backend that always fails is excluded).  No event is assumed to arrive.

`LocksFairness`: a section goes on, with success or failure, because the pool gives up waiting; keys expire; a connection that is
in the pool now and then is closed some day (the pool's `max_lifetime`, strong fairness).  That a work step succeeds is not assumed.

`EventsFairness`: a listener polls its stream and not every query fails.  `MemoryFleet!FairSpec`: the clock advances, loops run, calls poll;
handlers return, and each waits only so many times (strong fairness on `HandleTask`).  Timeouts are not assumed: no wait needs one to end.

## Proofs

`TaskContract` proves about itself, for any tasks and executions:

* `ContractRunsAlone`: a sound task has one execution at most, and only while it is started.
* `ContractLivesInOrder`: it goes through its life in order, `Course`.
* `ContractOnlyItsExecution`: a started task that stays sound is moved on by its only execution, which ends with that step.
* `ContractBeginsFromQueue`: sound or not, a task begins to run only from the queue.

Each implementation inherits them through its refinement (`FleetTaskLife`, `RedisTaskLife`, `MemoryTaskLife`): the four are stated once and hold on SQL, on
Redis and in memory, with batches, lost replies and services at work.  The last one is what bounds the damage of a restore: a second execution
of a task always begins with a claim that took it from the queue, so somebody queued it.

`SqlFleetProofs` proves, for every `Task`, `Worker`, `Sweeper`, finite non-empty `Slot` and every limit:

* `TypeCorrect`: `Spec => []TypeOK`.
* `NothingIsOrphaned`: `Spec => []NoOrphan`.
* `ExecutionIsExclusive`: `Spec => []ExclusiveExecution`.
* `OutcomesStand`: `Spec => OutcomesAndAttemptsStand`, an action property, from the same invariant.
* `PermitsCover`: `Spec => []PermitsCoverClaims`, which is inductive beside `TypeOK`: a claim takes a slot in the transaction that claims, so
  what is asked for and what is still to be tried never exceed the slots that are free.
* `DiscardIsSafeAlone`: `Spec => DiscardIsSafe` when all sweepers are equal, which is what the lock that admits one at a time gives.  Its invariant is
  `TrashIsDisposable`: what was listed stays past its TTL until the one who listed it deletes it.  Without the lock it is false (see below).

* `FleetKeepsContract`: `Spec => KeepsContract`, the refinement of TaskContract.
* `FleetTaskLife`: so the promises of TaskContract hold of the fleet.
* `RunningWorkersListed`: `Spec => RunningWorkersStayListed`.  Purging works from ids it read earlier; while heartbeats are in time this never unlists a
  worker that runs.  The invariant (`LeasesInTime`) is that an id on such a list belongs to a worker that has been told to stop or has crashed, which is so
  because a worker registers once it runs and its life goes one way.

The assumptions are the named ASSUMEs of the modules, which TLC evaluates in every run: `Slot` finite and not empty, `MaxRetry` a natural number,
positive limits, the model values distinct from what they stand beside.

The inductive invariant is `IInv == RowShape /\ SoundDone /\ TodoDisturbed /\ NoOrphan /\ ExclusiveExecution`, beside `TypeOK`.  The two
properties are not inductive alone.  A claim would break `ExclusiveExecution` if a slot could hold a queued undisturbed task, which it excludes itself
(what a slot holds is staged), but a restore could make such a state: hence `TodoDisturbed` (what is about to be restored is disturbed already).  The discard
service deletes undisturbed tasks that are past their TTL, which must not be running: hence `RowShape` (only a done row is disposable),
and `SoundDone` (an undisturbed done row is not queued) for the contract and the outcome property.  Most steps claim nothing; the lemma
`Carries` shows once that a step that only frees slots and changes rows for a reason keeps `IInv`, and each such action is shown to be
of that kind.  `ClaimSteps` treats the claims, `FinishSteps` the ends of executions, `RemedySteps` the services.

The refinement maps every action to one of the contract: a claim to `Start` or `StartUnheard`, an end to `Settle`, forgetting claims and crashes to
`Vanish`, the judgement of a sweep to `Doubt`, a restore to `Requeue`, a discard to `Delete`, the rest to stutters; one lemma for each group.

`LocksEventsProofs` proves about locks, for every `Process`, `Target`, set of services and size of the pools:

* `LocksTypeCorrect`: `LocksSpec => []LocksTypeOK`.
* `PoolStaysClean`: `LocksSpec => []PoolIsClean`.
* `LocksLeaveHolderAlone`: `LocksSpec => HolderIsLeftAlone`.  While a section has its lock and is inside, no other section of that lock gets in, and the
  lock is not taken from it by what others acquire, release or drop.  It rests on the guard of `TakeKey` (`SET NX`), the token in `DeleteKey`, the
  sessions of others in `TryLock`, and on `LentToOne`, so that no step of another section touches its connection (`KeptInside`, `NobodyGetsIn`).
* `LocksKeepContract`: `LocksSpec => KeepsLockContract`, the refinement of LockContract by all three kinds of lock.

Its invariant is `LentToOne /\ SessionsAgree`: a connection is lent to one running section of its own process, and a session on which no
unlock failed has locked at most the target of the section inside, once, and no target that another session has.  Dirty connections are
exempt from the first half only: a lock left behind by a failed unlock still keeps others out, which is why a second holder stays impossible.
A step maps to `Grant`, `Leave`, `Lose` or a stutter; `ContractStutter` and its siblings reduce that to which sections own their lock
before and after.

and about events, for every `Event`, `Unknown`, `Listener`, `MaxTime`, `Skew` and `Capacity`:

* `EventsTypeCorrect`: `EventsSpec => []EventsTypeOK`.
* `EventsYieldInOrder`: `EventsSpec => []YieldsInOrder`.
* `EventsSkipOnlyTwins`: `EventsSpec => []SkipsOnlyTwins`, and from it `EventsAloneAreReceived`: an event that shares its stamp with no other, can be decoded
  and was neither late nor dropped has been yielded once the stream is past its stamp.

Its invariant has one part for each place an event can be in: what was yielded lies at or behind the offset, in order (`GotShape`); what waits in a
channel lies ahead of it, in order (`BufShape`), and is everything ahead of it that was not pushed out (`ChannelShape`); an offset exists
once there is a stream (`OffsetsShape`).  `AllHeard` is `SkipsOnlyTwins` in terms of positions.  Ordering alone is not inductive:
that the next event comes after the yielded ones needs the offset between them.

A behaviour of MCLocksEvents is a behaviour of both (`SideBySide`: each part stutters while the other goes on), so that the theorems hold of the composition;
`BothTypeCorrect` is its type invariant.

`RuntimeProofs` proves, for every `Group`, number of permits and number of tasks:

* `RuntimeTypeCorrect`, `RuntimeReturnsIdle`, `RuntimePauseTakesHold`: `Spec => []TypeOK`, `[]ReturnsIdle`, `[]PauseTakesHold`.  `ReturnsIdle` is about `run`
  returning Ok; the return with an error (`Break`, `main = "broken"`) leaves what it spawned running.

Its invariant is `ClaimsFit /\ JoinsInOrder /\ EndedIsIdle`.  That `run` returns last is not inductive: it holds because services are joined before
runners and runners before the return (`JoinsInOrder`), and because a loop that has ended runs no handler (`EndedIsIdle`).

`RedisFleetProofs` proves, for every set of tasks, workers and sweepers, with or without failing calls:

* `RedisTypeCorrect`: `Spec => []TypeOK`; `RedisKeysAgree`, `RedisNoOrphan`, `RedisExclusive`: the invariants of the run.
* `RedisKeepsContract`: `Spec => KeepsContract`.  The run has one task, so that its claims take one at most; that a script claims a
  batch, heard or lost, is covered by the proof alone.
* `RedisTaskLife`: the promises of TaskContract.
* `RedisOutcomesStand`: `Spec => OutcomesAndAttemptsStand`.  What a retry may do to the keys of a task is one relation (`Stands`), which every step keeps
  for the tasks that are undisturbed after it.
* `RedisShortBatchMeansDrained`: `Spec => ShortBatchOfTasksMeansDrained`.  This is the other side of the finding of RedisShortBatch: as long as no id without
  its task is in the queue, a claim that comes back short leaves nothing due.  The claim takes the first ids of the queue, so it rests on
  `RankedFirst` and on the queue being finite (`QueueFinite`, an invariant: clients submit one task at a time).

Its invariant adds two parts to those properties.  `SweepsDoubt`: what a restore is about, looked up or not, is disturbed already; otherwise its pipeline
could queue a running task that counts as sound.  `SoundFound`: a lookup in front of a discard remembers what was there, and an undisturbed task that was
found stays found until the pipeline runs; otherwise the pipeline could leave an id in the queue, which `KeysAgree` allows of disturbed tasks only.

`MemoryFleetProofs` proves, for every set of tasks, groups and clients and any number of permits:

* `MemoryTypeCorrect`: `Spec => []TypeOK`, of which the linear order of the tasks in the map is the part that is not about types.
* `MemoryClaimsInOrder`, `MemoryDoneTasksStayDone`, `MemoryAnswersStand`: the three action properties.
* `MemoryKeepsContract`: `Spec => KeepsContract`, and `MemoryTaskLife`: the promises of TaskContract.
* `MemoryWaitsCanEnd`: `Spec => []WaitsCanEnd`.  Handlers that wait do so only where `Safe` allows it (`WaitsShape`).  No pair of `Safe` ends where
  another begins, so nobody waits for one that waits; and if all permits of a group were held by waiting handlers, different permits would be held for
  different tasks, of which there are fewer than permits.

Its invariant says of each part of the state what the others rely on: a done entry is not on the stage (`EntryShape`), an undisturbed task holds one permit,
of the worker its entry names (`RunsAlone`), what is listed for the discard is done (`TrashShape`), and what a client was told is still the outcome, or
the task is gone and cannot come back (`ToldShape`).  The claim takes the first few tasks by `CHOOSE`; that there are such tasks is `FirstFew`: every
finite set has, in a linear order, an initial segment of each size.  `FirstElements` holds it, for this module, for Redis (`RankedFirst`) and, with
`LeastNumber`, for the last run of SchedulerProofs.  The provers cannot use the library's induction theorems, so it is shown by
least counterexample, from the well-foundedness of the numbers (`LeastNumber`).  `AssignClaims` rests on it twice, for the tasks and for the permits.

`SchedulerProofs` proves, for every non-empty `Process`, every `Entry`, calendar (`Field`, `Grid`, `WallClock`, `Accepted`), `Interval`, `MaxTime`
and `Skew`:

* `SchedulerTypeCorrect`, `SchedulerKeepsPolicy`, `SchedulerStateMatches`, `SchedulerSkipsNothing`: `Spec => []TypeOK`, `[]RunsKeepPolicy`,
  `[]StateMatchesTasks`, `[]NothingIsSkipped`.
* `SchedulerNoDuplicates`: `Spec => NoDuplicates`.
* `SchedulerUsesContract`: `Spec => UsesLockContract`, the refinement of LockContract.
* `SchedulerForgetsNobody`: whatever locks are lost, an entry that accepts a point up to the last run has got a task, so that
  `NothingIsSkipped` is never satisfied by an empty selection.

Its invariant: while no lock was lost, the process inside a call is the only one (`OneInside`), what it read is still what is stored
(`ReadsAreFresh`), and the stored run is at or ahead of every run and every task made (`RunIsAhead`), which a list of points
starts behind.  None of the properties is inductive without these: a call stores what it computed from an earlier state.  Once a lock is lost
two calls may store in any order and all three fail; what remains is that each call looks at the points from some run that was stored up to
its own time (`PointsFollowRun`).  That is enough for `NothingSkippedYet`, which says of every run ever stored what `NothingIsSkipped` says of the last:
what a policy selects up to a point c, it selects up to an earlier b or between b and c (`ChosenSplits`).  The invariant was model-checked on the
instance of SchedulerRuns before it was proved.

Only model-checked: liveness (`EveryTaskSettles`, `DrainEnds`, `CatchesUp`, `LocksComeBack`, `EachStampIsHeard`, `EverythingSettles`, `ShutdownCompletes`,
`ResumedGroupsWork`), since liveness under fairness is out of the prover's reach.  Every invariant and every action property that a passing run
checks is also a theorem.

## Not modelled

* **Groups and data.**  Tasks of different groups do not meet, so a fleet has one group.  Payloads, names and encodings are left out, as is the `ORDER BY` of SQL
  listings: any subset of the right size may be listed, which is weaker than the code.
* **MySQL.**  Its task statements are those of `impls/postgres.rs` in another dialect; its pool, lock and event statements are in Locks and Events.
* **Two lock names with one key.**  A name is hashed to 64 bits on PostgreSQL; a collision would make two services exclude each other, no more.
* **Shutdown and waits.**  A handler that waits without a timeout for a task of another group keeps a shutdown from ending when that
  group stops first.  Runtime's handlers return; the documentation leaves such waits to the caller.
* **Two sweepers.**  `DiscardIsSafe` is stated with the lock held.  Without it a discard that lags behind its listing can delete a task that was submitted again
  under its id, although `backend.rs:316` asks guarded work to be right without the lock.
* **The calendar** (chrono) is the constant `WallClock`, and zones are constant.  The code reads the local zone anew in each call, so that a change
  of its offset skips or repeats wall clock times.  A corrupt stored state is treated as none by the code and left out.
* **A claim before its time.**  `ClaimTask` has the interleaving in which a row that was listed as due is retried for later and then claimed; no
  property forbids it, since the attempt runs early but alone.
* **`destroy_all`, `get_done_task_ids`, `get_queued_tasks`, conversions, logging**: they feed no other component.

## Plan

Done: the SQL fleet and its contract (the core of the system), the scheduler, the Redis fleet, the runtime, locks and events, the in-memory fleet
with task results, each with proofs of its invariants, its action properties and its refinement.

Next, extending the model: the crowded stage, in which a sweep sees the first `StageLimit` entries only and entries that nothing restores hide abandoned ones
behind them; a local zone that changes between calls of the scheduler.

Then, more proofs: that a ghost of RedisFleet is always a disturbed task's (the invariant `KeysAgree` says so) bounds how many there are, which would give
a quantitative form of `RedisShortBatchMeansDrained`.
