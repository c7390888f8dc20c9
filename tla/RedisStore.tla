------------------------------ MODULE RedisStore ------------------------------
(***************************************************************************)
(* The keys in which impls/redis.rs keeps tasks, and the scripts and MULTI *)
(* pipelines it runs on them.  Redis runs each of these atomically; what   *)
(* the backend reads before a pipeline is a step of its own.               *)
(*                                                                         *)
(* Keys that every script writes together are one field here: task_info    *)
(* and data_store are `info', stage_queue and stage_info are `stage',      *)
(* done_queue and disposable_queue are `ttl', result and error_message are *)
(* `outcome'.  The queue is one sorted set for each group, and the groups  *)
(* share nothing: one of them is modelled.                                 *)
(***************************************************************************)
EXTENDS Naturals, FiniteSets

CONSTANTS Task,      \* task ids, in the order in which a sorted set breaks ties
          Worker,    \* worker ids
          MaxRetry,  \* bound on retry_count: the last attempt never retries
          MaxTime,   \* bound on the clock and on due times
          Missing,   \* a hash field or sorted set member that is not there
          Nobody     \* the stage has no entry for the task

ASSUME TaskAssumption    == Task \subseteq Nat
ASSUME BoundAssumption   == MaxRetry \in Nat /\ MaxTime \in Nat
ASSUME MissingAssumption == Missing \notin 0 .. MaxTime
ASSUME NobodyAssumption  == Nobody \notin Worker

VARIABLES now, key

Time    == 0 .. MaxTime
Info    == [retry: 0 .. MaxRetry, due: Time]
Outcome == {"result", "error"}

ASSUME InfoAssumption == Missing \notin Info

Key == [info: Info \cup {Missing}, queue: Time \cup {Missing},
        stage: Worker \cup {Nobody}, outcome: SUBSET Outcome,
        ttl: {"null", "kept", "past"}]

NoKey == [info |-> Missing, queue |-> Missing, stage |-> Nobody,
          outcome |-> {}, ttl |-> "null"]

StoreTypeOK == now \in Time /\ key \in [Task -> Key]

StoreInit == now = 0 /\ key = [t \in Task |-> NoKey]

Known(t)  == key[t].info # Missing   \* lookup_tasks
Queued(t) == key[t].queue # Missing
Staged(t) == key[t].stage # Nobody

\* An id in the queue that no task goes with.
Ghost(t) == Queued(t) /\ ~Known(t)

-----------------------------------------------------------------------------
(* What each script or pipeline does to the keys of one task.              *)

Bug_Enqueue(k, i) == [k EXCEPT !.info = i, !.queue = i.due]

\* enqueue_tasks, OnKnownId::Keep
Enqueue(k, i) ==
    IF k.info = Missing THEN [k EXCEPT !.info = i, !.queue = i.due] ELSE k

\* enqueue_tasks, OnKnownId::Replace: the outcome keys are left alone.
Replace(k, i) == Enqueue([k EXCEPT !.stage = Nobody, !.info = Missing], i)

Claim(k, w) == [k EXCEPT !.queue = Missing, !.stage = w]

\* succeed and fail store the record the worker holds.
Settle(k, i, outcome) ==
    [k EXCEPT !.queue = Missing, !.stage = Nobody, !.ttl = "kept",
              !.outcome = @ \cup {outcome}, !.info = i]

\* discard_tasks: the id leaves the queue of the group that the lookup found.
Discard(k, found) ==
    [NoKey EXCEPT !.queue = IF found THEN Missing ELSE k.queue]

Bug_Requeue(k, due) == [k EXCEPT !.stage = Nobody]

\* restore, after its lookup
Requeue(k, due) == [k EXCEPT !.stage = Nobody, !.queue = due]

Update(t, k) == key' = [key EXCEPT ![t] = k]

-----------------------------------------------------------------------------
(* The claim: one script looks at the first n ids of the queue.            *)

Before(t, u) == \/ key[t].queue < key[u].queue
                \/ key[t].queue = key[u].queue /\ t < u

QueuedTasks == {t \in Task : Queued(t)}

Candidates(n) ==
    {t \in QueuedTasks : Cardinality({u \in QueuedTasks : Before(u, t)}) < n}

\* Those of them that are due and have their data; the others stay where they
\* are, and nothing is looked at in their place.
Claimable(n) == {t \in Candidates(n) : key[t].queue <= now /\ Known(t)}

ClaimAll(w, T) ==
    key' = [t \in Task |-> IF t \in T THEN Claim(key[t], w) ELSE key[t]]

DisposableTasks == {t \in Task : key[t].ttl = "past"}

-----------------------------------------------------------------------------
(* The clock.                                                              *)

Tick ==
    /\ now < MaxTime
    /\ now' = now + 1
    /\ UNCHANGED key

TtlPasses(t) ==
    /\ key[t].ttl = "kept"
    /\ Update(t, [key[t] EXCEPT !.ttl = "past"])
    /\ UNCHANGED now

=============================================================================
