------------------------------- MODULE Scheduler -------------------------------
(***************************************************************************)
(* One named scheduler of scheduler.rs, run by the processes of a fleet    *)
(* under a lock: each call takes the lock, reads the stored state, derives *)
(* the schedule points since the last run and stores the new state         *)
(* together with the tasks of those points.                                *)
(*                                                                         *)
(* Time is counted in ticks; schedule points lie Interval ticks apart      *)
(* (SCHEDULE_POINT_INTERVAL).  Every time the scheduler stores is one of   *)
(* them, and they are numbered here.  A task is the entry and the point    *)
(* its id is derived from (TaskId::for_schedule_point).                    *)
(***************************************************************************)
EXTENDS Integers

CONSTANTS Process,     \* processes that run the scheduler
          Nobody,      \* no process holds the lock
          Entry,       \* schedule entries
          Field,       \* the fields of a wall clock: seconds, minutes, ... months
          Grid,        \* Grid[f]: the range of field f and the step of its values
          WallClock(_, _), \* WallClock(f, n): field f at the n-th point (chrono)
          Accepted,    \* Accepted[e][f]: the values entry e accepts in field f
          Zone,        \* Zone[e]: the timezone of entry e, or NoZone
          OwnZone,     \* the timezone of the scheduler
          NoZone,      \* the timezone of an entry is not given
          Policy,      \* Policy[e]: its duplication policy
          Interval,    \* ticks between two schedule points
          MaxTime,     \* bound on the clock
          Skew,        \* how far the clock of a process may lag behind
          CallsFail,   \* whether calls to the backend may fail
          Stable       \* processes that never crash (for liveness)

Point == Nat
Never == -1

ASSUME IntervalAssumption == Interval \in Nat \ {0}
ASSUME TimeAssumption     == MaxTime \in Nat /\ Skew \in 0 .. MaxTime
ASSUME ProcessAssumption  == Process # {} /\ Nobody \notin Process
ASSUME EntryAssumption    == /\ Policy \in [Entry -> {"OnlyEarliest", "OnlyLatest"}]
                             /\ Zone \in [Entry -> Int \cup {NoZone}] /\ OwnZone \in Int

\* `all' of a field.
All(f) == {v \in Grid[f].min .. Grid[f].max : (v - Grid[f].min) % Grid[f].step = 0}

\* The constructors of a schedule reject any other value.
ASSUME FieldAssumption == \A e \in Entry, f \in Field : Accepted[e][f] \subseteq All(f)
ASSUME FlagAssumption     == CallsFail \in BOOLEAN
ASSUME StableAssumption   == Stable \subseteq Process

VARIABLES now,    \* the clock
          lock,   \* who holds the lock "scheduler.<name>"
          lost,   \* history: a lock was ever lost while it was held
          job,    \* where each process is in its call
          begin,  \* history: what `run' was at the start
          run,    \* stored state: last_run_at, or Never
          last,   \* stored state: last_scheduled_at of each entry, or Never
          tasks,  \* scheduled tasks that are in the backend
          made,   \* history: tasks that were ever put there
          runs    \* history: the values `run' has had

storage == <<run, last, tasks, made, runs>>
vars == <<now, lock, lost, job, begin, storage>>

Time  == 0 .. MaxTime
Task  == [entry: Entry, point: Point]
Stage == {"idle", "locked", "ready", "done"}
Job   == [stage: Stage, at: Time, points: SUBSET Point,
          last: [Entry -> Point \cup {Never}]]
Idle  == [stage |-> "idle", at |-> 0, points |-> {}, last |-> [e \in Entry |-> Never]]

TypeOK ==
    /\ now \in Time
    /\ lock \in Process \cup {Nobody} /\ lost \in BOOLEAN
    /\ job \in [Process -> Job]
    /\ run \in Point \cup {Never} /\ begin \in {Never, 0}
    /\ last \in [Entry -> Point \cup {Never}]
    /\ tasks \in SUBSET Task /\ made \in SUBSET Task
    /\ runs \in SUBSET Point

\* The backend is empty, or an earlier deployment has stored its last run.
Init ==
    /\ now = 0
    /\ lock = Nobody /\ lost = FALSE
    /\ job = [p \in Process |-> Idle]
    /\ begin \in {Never, 0} /\ run = begin
    /\ last = [e \in Entry |-> Never]
    /\ tasks = {} /\ made = {}
    /\ runs = {run} \ {Never}

-----------------------------------------------------------------------------
(* Schedule points.                                                        *)

Bug_Round(t) == (t \div Interval) - 1

\* The last schedule point at or before a time.
Round(t) == t \div Interval

Bug_ListSchedulePoints(since, t) ==
    IF since = Never THEN {Round(t)} ELSE since .. Round(t)

\* Every point after the last run up to t; the current one on the first run.
ListSchedulePoints(since, t) ==
    IF since = Never THEN {Round(t)} ELSE since + 1 .. Round(t)

Earliest(S) == {q \in S : \A r \in S : q <= r}
Latest(S)   == {q \in S : \A r \in S : r <= q}

\* The timezone an entry is expressed in, as an offset in points.
ZoneOf(e) == IF Zone[e] = NoZone THEN OwnZone ELSE Zone[e]

\* filter: all fields of the wall clock of the entry agree.
Matching(e, points) ==
    {q \in points : \A f \in Field : WallClock(f, q + ZoneOf(e)) \in Accepted[e][f]}

Bug_Scheduled(e, points) ==
    LET accepted == IF Policy[e] = "OnlyEarliest" THEN Earliest(points)
                    ELSE Latest(points)
    IN Matching(e, accepted)

\* The points of an entry that become tasks: its policy applied to those that
\* its fields accept.
Scheduled(e, points) ==
    LET accepted == Matching(e, points) IN
    IF Policy[e] = "OnlyEarliest" THEN Earliest(accepted) ELSE Latest(accepted)

NewTasks(points) ==
    UNION {{[entry |-> e, point |-> q] : q \in Scheduled(e, points)} : e \in Entry}

\* last_scheduled_at of entry e after a call that read l.
LastScheduled(l, e, points) ==
    IF Scheduled(e, points) = {} THEN l
    ELSE CHOOSE q \in Scheduled(e, points) : TRUE

-----------------------------------------------------------------------------
(* One call of the service.                                                *)

Step(p, stage) == job' = [job EXCEPT ![p].stage = stage]

\* The lock is free; the time of the call is read at once.
Acquire(p) ==
    /\ job[p].stage = "idle" /\ lock = Nobody
    /\ lock' = p
    /\ \E t \in Time : /\ now - Skew <= t /\ t <= now
                       /\ job' = [job EXCEPT ![p] = [Idle EXCEPT !.stage = "locked", !.at = t]]
    /\ UNCHANGED <<now, begin, lost, storage>>

\* get_state, and the points to look at.
GetState(p) ==
    /\ job[p].stage = "locked"
    /\ LET points == ListSchedulePoints(run, job[p].at) IN
       job' = [job EXCEPT ![p].points = points, ![p].last = last,
                          ![p].stage = IF points = {} THEN "done" ELSE "ready"]
    /\ UNCHANGED <<now, begin, lock, lost, storage>>

Bug_PersistNow(p) ==
    /\ job[p].stage = "ready"
    /\ run' = Round(now)
    /\ runs' = runs \cup {Round(now)}
    /\ last' = [e \in Entry |-> LastScheduled(job[p].last[e], e, job[p].points)]
    /\ tasks' = tasks \cup NewTasks(job[p].points)
    /\ made' = made \cup NewTasks(job[p].points)
    /\ Step(p, "done")
    /\ UNCHANGED <<now, begin, lock, lost>>

Bug_Persist(p) ==
    /\ job[p].stage = "ready"
    /\ last' = [e \in Entry |-> LastScheduled(job[p].last[e], e, job[p].points)]
    /\ tasks' = tasks \cup NewTasks(job[p].points)
    /\ made' = made \cup NewTasks(job[p].points)
    /\ Step(p, "done")
    /\ UNCHANGED <<now, begin, lock, lost, run, runs>>

\* persist_scheduler_state_and_put_tasks, one transaction.  It overwrites the
\* state whatever it is by now, and adds the tasks that are not there.
Persist(p) ==
    /\ job[p].stage = "ready"
    /\ run' = Round(job[p].at)   \* the last of the points
    /\ runs' = runs \cup {Round(job[p].at)}
    /\ last' = [e \in Entry |-> LastScheduled(job[p].last[e], e, job[p].points)]
    /\ tasks' = tasks \cup NewTasks(job[p].points)
    /\ made' = made \cup NewTasks(job[p].points)
    /\ Step(p, "done")
    /\ UNCHANGED <<now, begin, lock, lost>>

\* The error of a call to the backend is dropped; nothing was stored.
CallFails(p) ==
    /\ CallsFail /\ job[p].stage \in {"locked", "ready"}
    /\ Step(p, "done")
    /\ UNCHANGED <<now, begin, lock, lost, storage>>

Bug_Release(p) ==
    /\ job[p].stage = "done"
    /\ lock' = Nobody
    /\ job' = [job EXCEPT ![p] = Idle]
    /\ UNCHANGED <<now, begin, lost, storage>>

Bug_Keep(p) ==
    /\ job[p].stage = "done"
    /\ job' = [job EXCEPT ![p] = Idle]
    /\ UNCHANGED <<now, begin, lock, lost, storage>>

\* release has no effect on a lock that somebody else holds by now.
Release(p) ==
    /\ job[p].stage = "done"
    /\ lock' = IF lock = p THEN Nobody ELSE lock
    /\ job' = [job EXCEPT ![p] = Idle]
    /\ UNCHANGED <<now, begin, lost, storage>>

Service(p) == Acquire(p) \/ GetState(p) \/ Persist(p) \/ CallFails(p) \/ Release(p)

\* The process dies, its session with it, and is started again.
Crash(p) ==
    /\ p \notin Stable /\ job[p].stage # "idle"
    /\ lock' = IF lock = p THEN Nobody ELSE lock
    /\ job' = [job EXCEPT ![p] = Idle]
    /\ UNCHANGED <<now, begin, lost, storage>>

\* The time-to-live of the lock passes, or the session that holds it breaks.
LoseLock ==
    /\ lock # Nobody
    /\ lock' = Nobody /\ lost' = TRUE
    /\ UNCHANGED <<now, begin, job, storage>>

\* A worker ran the task and its row is gone: discarded by the handler or
\* after its TTL.
Consume(x) ==
    /\ x \in tasks
    /\ tasks' = tasks \ {x}
    /\ UNCHANGED <<now, begin, lock, lost, job, run, last, made, runs>>

Tick ==
    /\ now < MaxTime
    /\ now' = now + 1
    /\ UNCHANGED <<begin, lock, lost, job, storage>>

Next ==
    \/ \E p \in Process : Service(p) \/ Crash(p)
    \/ \E x \in tasks : Consume(x)
    \/ LoseLock \/ Tick

Spec == Init /\ [][Next]_vars

\* The clock advances and the call is repeated; a stable process gets the lock
\* now and then, and not every call to the backend fails.
FairSpec ==
    /\ Spec
    /\ WF_vars(Tick)
    /\ \A p \in Process : WF_vars(Release(p)) /\ WF_vars(GetState(p) \/ CallFails(p))
    /\ \A p \in Stable : SF_vars(Acquire(p)) /\ SF_vars(GetState(p)) /\ SF_vars(Persist(p))

-----------------------------------------------------------------------------
(* Properties.                                                             *)

Consecutive(a, b) == a < b /\ ~\E c \in runs : a < c /\ c < b

MadePoints(e) == {x.point : x \in {y \in made : y.entry = e}}

Due(e, a, b) == Matching(e, a + 1 .. b)

\* However the runs are spread over processes, crashes, failures and downtime,
\* the tasks of an entry between two consecutive runs are what its policy
\* selects from the matching points in between: no point is lost at a boundary
\* and none is seen twice (list_schedule_points, schedule_entries), as long as
\* no lock is lost.
RunsKeepPolicy ==
    ~lost => \A e \in Entry : \A a, b \in runs : Consecutive(a, b) =>
       \A q \in a + 1 .. b :
          (q \in MadePoints(e) <=>
              /\ q \in Due(e, a, b)
              /\ Policy[e] = "OnlyEarliest" => \A r \in Due(e, a, b) : q <= r
              /\ Policy[e] = "OnlyLatest"   => \A r \in Due(e, a, b) : r <= q)

\* The stored state agrees with what was scheduled: last_scheduled_at is the
\* latest point of each entry that became a task, and last_run_at never lags
\* behind the tasks (persist_scheduler_state_and_put_tasks is one transaction).
StateMatchesTasks ==
    ~lost => /\ \A e \in Entry : {last[e]} \ {Never} = Latest(MadePoints(e))
             /\ {run} \ {Never} = Latest(runs)
             /\ \A x \in made : x.point <= run

\* Calls that overlap because a lock was lost move last_run_at back and forth,
\* but they skip nothing if a run was stored before: the point that the policy of an
\* entry selects from the matching points up to last_run_at has become a task,
\* whichever call stored its state last (last_run_at is the last of the points
\* the call looked at, not the time at which it stores, schedule_entries).
NothingIsSkipped ==
    begin = 0 => \A e \in Entry :
       (IF Policy[e] = "OnlyEarliest" THEN Earliest(Due(e, 0, run))
                                      ELSE Latest(Due(e, 0, run))) \subseteq MadePoints(e)

\* A schedule point becomes a task at most once, even after that task was run
\* and its row deleted, as long as no lock is lost.
NoDuplicates ==
    [][~lost => \A x \in tasks' \ tasks : x \notin made]_vars

\* "the queue never gains a duplicate even though scheduling is not guarded by
\* a lock that is guaranteed to hold" (task.rs, for_schedule_point).  The code
\* does not do this: the id keeps out a duplicate only while the first task's
\* row is still there.
NoDuplicatesEver ==
    [][\A x \in tasks' \ tasks : x \notin made]_vars

LockUse == INSTANCE LockContract WITH
    Section  <- Process,
    TargetOf <- [p \in Process |-> "scheduler"],
    inside   <- {p \in Process : job[p].stage # "idle"},
    holder   <- [t \in {"scheduler"} |-> lock]

\* The calls of the scheduler take and leave their lock as LockContract says, which
\* the locks of every backend implement (KeepsLockContract of Locks): what is shown
\* here of lost locks assumes no more and no less of them than those provide.
UsesLockContract == LockUse!Spec

\* As long as one process keeps running, the last run eventually reaches every
\* schedule point that the slowest clock has passed; for the last such point
\* within the bound, which implies it for those before.
CatchesUp ==
    now = MaxTime ~> run >= Round(MaxTime - Skew)

=============================================================================
