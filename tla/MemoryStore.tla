------------------------------ MODULE MemoryStore ------------------------------
(***************************************************************************)
(* The tasks of the in-memory backend (impls/memory.rs).  Every operation  *)
(* holds the mutex from its first line to its last, and none of them can   *)
(* fail: each is one step.                                                 *)
(*                                                                         *)
(* `seq' of an entry is only ever compared with that of another one, so it *)
(* is abstracted to the order of insertion, a relation between tasks.      *)
(* `began' and `assignee' are set and cleared together, and a task is done *)
(* when it has an outcome.                                                 *)
(***************************************************************************)
EXTENDS Naturals, FiniteSets, FiniteSetsExt, Functions

CONSTANTS Task,      \* task ids
          Worker,    \* the worker of each task group of the process
          GroupOf,   \* GroupOf[t]: the worker of the group task t is in
          MaxRetry,  \* bound on the attempts of a task
          MaxTime,   \* bound on the clock
          NoEntry,   \* no such key in the map
          Nobody     \* the assignee is None

ASSUME GroupAssumption == GroupOf \in [Task -> Worker]
ASSUME BoundAssumption == MaxRetry \in Nat /\ MaxTime \in Nat
ASSUME NullAssumption  == Nobody \notin Worker

VARIABLES now,    \* the clock
          entry,  \* entry[t]: the entry of task t, or NoEntry
          order   \* <<t, u>>: of two tasks in the map, t has the lower `seq'

Time    == 0 .. MaxTime
Never   == MaxTime + 1
Attempt == 0 .. MaxRetry
Outcome == {"none", "result", "error"}

Entry == [due: Time, retry: Attempt, worker: Worker \cup {Nobody},
          outcome: Outcome, until: Time \cup {Never}]

ASSUME EntryAssumption == NoEntry \notin Entry

KnownTasks == {t \in Task : entry[t] # NoEntry}

\* No two tasks in the map have the same `seq'.
OrderOK ==
    /\ order \subseteq KnownTasks \X KnownTasks
    /\ \A t, u \in KnownTasks : <<t, u>> \in order <=> t # u /\ <<u, t>> \notin order
    /\ \A t, u, v \in KnownTasks : <<t, u>> \in order /\ <<u, v>> \in order => <<t, v>> \in order

StoreTypeOK ==
    /\ now \in Time
    /\ entry \in [Task -> Entry \cup {NoEntry}]
    /\ OrderOK

StoreInit == now = 0 /\ entry = [t \in Task |-> NoEntry] /\ order = {}

NewEntry(due, retry) ==
    [due |-> due, retry |-> retry, worker |-> Nobody, outcome |-> "none", until |-> Never]

Known(t)  == entry[t] # NoEntry
Done(t)   == Known(t) /\ entry[t].outcome # "none"
Staged(t) == Known(t) /\ entry[t].worker # Nobody

Bug_Queued(t) == Known(t) /\ ~Staged(t)

\* is_queued: a task that is done is never queued, whoever restores it.
Queued(t) == Known(t) /\ ~Staged(t) /\ ~Done(t)

-----------------------------------------------------------------------------
(* What is read.                                                           *)

Precedes(t, u) ==
    \/ entry[t].due < entry[u].due
    \/ entry[t].due = entry[u].due /\ <<t, u>> \in order

Bug_FirstOf(S, n) ==
    CHOOSE P \in SUBSET S : Cardinality(P) = Min({n, Cardinality(S)})

\* The first n of S (`ordered', then `take').
FirstOf(S, n) ==
    CHOOSE P \in SUBSET S :
       /\ Cardinality(P) = Min({n, Cardinality(S)})
       /\ \A t \in P, u \in S \ P : Precedes(t, u)

DueTasks(w) == {t \in Task : GroupOf[t] = w /\ Queued(t) /\ entry[t].due <= now}

DisposableTasks == {t \in Task : Known(t) /\ entry[t].until < now}

\* What get_result says of a task.
GetResult(t) ==
    IF ~Known(t) THEN "NotFound"
    ELSE [none |-> "NoResult", result |-> "value", error |-> "Failed"][entry[t].outcome]

-----------------------------------------------------------------------------
(* What is written.                                                        *)

Bug_Listed(t) == order \cup (KnownTasks \X {t})

\* Only a task that is new to the map gets the next `seq'.
Listed(t) == IF Known(t) THEN order ELSE order \cup (KnownTasks \X {t})

Bug_PutTask(t, due) ==
    /\ entry' = [entry EXCEPT ![t] = NewEntry(due, 0)]
    /\ order' = Listed(t)

\* State::put: an entry that is there stays as it is.
PutTask(t, due) ==
    /\ entry' = IF Known(t) THEN entry ELSE [entry EXCEPT ![t] = NewEntry(due, 0)]
    /\ order' = Listed(t)

\* assign_tasks: the records claimed are those of the set T.
AssignTasks(w, T) ==
    /\ entry' = [t \in Task |-> IF t \in T THEN [entry[t] EXCEPT !.worker = w] ELSE entry[t]]
    /\ UNCHANGED order

\* succeed and fail: the record of the worker is put back if its entry is gone, an
\* entry that is there keeps its own data; either way the outcome replaces
\* whatever outcome it had.  The TTL of the tasks is zero.
Finish(t, due, retry, outcome) ==
    /\ entry' = [entry EXCEPT ![t] =
                   [(IF Known(t) THEN @ ELSE NewEntry(due, retry)) EXCEPT
                      !.worker = Nobody, !.outcome = outcome, !.until = now]]
    /\ order' = Listed(t)

\* retry_task: a fresh entry in the place of the old one.
RetryTask(t, retry, due) ==
    /\ entry' = [entry EXCEPT ![t] = NewEntry(due, retry)]
    /\ order' = Listed(t)

DiscardTasks(T) ==
    /\ entry' = [t \in Task |-> IF t \in T THEN NoEntry ELSE entry[t]]
    /\ order' = {p \in order : p[1] \notin T /\ p[2] \notin T}

Bug_Restore(t) ==
    /\ entry' = IF Known(t) THEN [entry EXCEPT ![t].worker = Nobody, ![t].outcome = "none"]
                ELSE entry
    /\ UNCHANGED order

\* restore looks at nothing but whether the task is there.
Restore(t) ==
    /\ entry' = IF Known(t) THEN [entry EXCEPT ![t].worker = Nobody] ELSE entry
    /\ UNCHANGED order

=============================================================================
