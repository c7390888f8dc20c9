------------------------------ MODULE TaskWorkers -----------------------------
(***************************************************************************)
(* The workers of a fleet on an SQL backend: for each, the fetch loop of   *)
(* runner.rs, the claim of impls/sqlx.rs (one transaction per row, other   *)
(* workers' steps in between) and Worker::handle_task of worker.rs.        *)
(*                                                                         *)
(* A worker has as many slots as its group's concurrency.  A claimed       *)
(* record occupies a slot from the transaction that claims it: the loop    *)
(* claims no more than the permits it saw free, and only it takes permits. *)
(***************************************************************************)
EXTENDS TaskTable, FiniteSets

CONSTANTS Slot,         \* execution slots of each worker (its concurrency)
          ScanMin,      \* smallest LIMIT of the listing of due ids (8 in the code)
          BackendFails, \* whether calls to the backend may fail
          Free          \* the content of a slot that holds no permit

ASSUME SlotAssumption    == IsFiniteSet(Slot) /\ Slot # {}
ASSUME ScanAssumption    == ScanMin \in Nat \ {0}
ASSUME BackendAssumption == BackendFails \in BOOLEAN

VARIABLES phase,   \* life of each worker's process
          call,    \* the assign_tasks call its loop is in
          slot,    \* what each of its slots holds
          dropped  \* tasks some call about which failed after it was claimed

workerVars == <<phase, call, slot, dropped>>

Phase == {"new", "up", "draining", "exited", "crashed"}
Held  == [task: Task, retry: Attempt, running: BOOLEAN]
Call  == [limit: 0 .. Cardinality(Slot), scan: Nat, full: BOOLEAN, ids: SUBSET Task]
NoCall == [limit |-> 0, scan |-> 0, full |-> FALSE, ids |-> {}]

ASSUME FreeAssumption == Free \notin Held

WorkersTypeOK ==
    /\ phase \in [Worker -> Phase]
    /\ call \in [Worker -> Call]
    /\ slot \in [Worker -> [Slot -> Held \cup {Free}]]
    /\ dropped \in SUBSET Task

WorkersInit ==
    /\ phase = [w \in Worker |-> "new"]
    /\ call = [w \in Worker |-> NoCall]
    /\ slot = [w \in Worker |-> [s \in Slot |-> Free]]
    /\ dropped = {}

\* available_permits
FreeSlots(w) == {s \in Slot : slot[w][s] = Free}

Holds(w, s, t) == slot[w][s] # Free /\ slot[w][s].task = t
HeldBy(w, t)   == \E s \in Slot : Holds(w, s, t)

Assigning(w) == call[w] # NoCall

\* is_alive: the worker was not told to stop.
Alive(w) == phase[w] = "up"

-----------------------------------------------------------------------------
(* The process: spawned, told to stop, joined, killed.                     *)

Spawn(w) ==
    /\ phase[w] = "new"
    /\ phase' = [phase EXCEPT ![w] = "up"]
    /\ UNCHANGED <<row, call, slot, dropped>>

Stop(w) ==
    /\ phase[w] = "up"
    /\ phase' = [phase EXCEPT ![w] = "draining"]
    /\ UNCHANGED <<row, call, slot, dropped>>

Bug_Exit(w) ==
    /\ phase[w] = "draining" /\ ~Assigning(w)
    /\ phase' = [phase EXCEPT ![w] = "exited"]
    /\ slot' = [slot EXCEPT ![w] = [s \in Slot |-> Free]]
    /\ UNCHANGED <<row, call, dropped>>

\* The loop has ended and acquire_many has got every permit back.
Exit(w) ==
    /\ phase[w] = "draining" /\ ~Assigning(w)
    /\ FreeSlots(w) = Slot
    /\ phase' = [phase EXCEPT ![w] = "exited"]
    /\ UNCHANGED <<row, call, slot, dropped>>

\* The process dies with whatever it holds.
Crash(w) ==
    /\ phase[w] \in {"up", "draining"}
    /\ phase' = [phase EXCEPT ![w] = "crashed"]
    /\ call' = [call EXCEPT ![w] = NoCall]
    /\ slot' = [slot EXCEPT ![w] = [s \in Slot |-> Free]]
    /\ UNCHANGED <<row, dropped>>

-----------------------------------------------------------------------------
(* assign_tasks.                                                           *)

\* One listing of due ids with LIMIT n: every due id, or n of them.
Listing(n, ids) ==
    /\ ids \subseteq DueTasks
    /\ \/ ids = DueTasks /\ Cardinality(ids) <= n
       \/ Cardinality(ids) = n

\* limit.max(8), then twice the last one.
NextScan(w) == IF call[w].scan > 0 THEN 2 * call[w].scan
               ELSE IF call[w].limit > ScanMin THEN call[w].limit
               ELSE ScanMin

Bug_BeginAssign(w) ==
    /\ phase[w] = "up" /\ ~Assigning(w)
    /\ FreeSlots(w) # {}
    /\ call' = [call EXCEPT ![w] = [limit |-> Cardinality(Slot), scan |-> 0,
                                    full |-> TRUE, ids |-> {}]]
    /\ UNCHANGED <<row, phase, slot, dropped>>

\* The loop finds it may go on, reads the number of free permits and calls
\* assign_tasks with it.
BeginAssign(w) ==
    /\ phase[w] = "up" /\ ~Assigning(w)
    /\ FreeSlots(w) # {}
    /\ call' = [call EXCEPT ![w] = [limit |-> Cardinality(FreeSlots(w)), scan |-> 0,
                                    full |-> TRUE, ids |-> {}]]
    /\ UNCHANGED <<row, phase, slot, dropped>>

\* The next listing: the first one, or one twice as wide since the last one
\* was full and may have more behind it.
ListDue(w) ==
    /\ call[w].limit > 0 /\ call[w].ids = {} /\ call[w].full
    /\ \E ids \in SUBSET Task :
          /\ Listing(NextScan(w), ids)
          /\ call' = [call EXCEPT ![w] =
                        [limit |-> @.limit, scan |-> NextScan(w), ids |-> ids,
                         full |-> Cardinality(ids) = NextScan(w)]]
    /\ UNCHANGED <<row, phase, slot, dropped>>

Bug_ClaimTask(w, t) ==
    /\ t \in call[w].ids
    /\ AssignTask(t, w)
    /\ \E s \in FreeSlots(w) :
          slot' = [slot EXCEPT ![w][s] =
                     [task |-> t, retry |-> row[t].retry, running |-> FALSE]]
    /\ call' = [call EXCEPT ![w].limit = @ - 1, ![w].ids = @ \ {t}]
    /\ UNCHANGED <<phase, dropped>>

\* The transaction about one listed id, when it finds the row unclaimed.
ClaimTask(w, t) ==
    /\ call[w].limit > 0 /\ t \in call[w].ids
    /\ AssignTask(t, w)
    /\ \E s \in FreeSlots(w) :
          slot' = [slot EXCEPT ![w][s] =
                     [task |-> t, retry |-> row[t].retry, running |-> FALSE]]
    /\ call' = [call EXCEPT ![w].limit = @ - 1, ![w].ids = @ \ {t}]
    /\ UNCHANGED <<phase, dropped>>

\* It finds the row claimed, gone, or locked by somebody else (SKIP LOCKED).
SkipTask(w, t) ==
    /\ call[w].limit > 0 /\ t \in call[w].ids
    /\ call' = [call EXCEPT ![w].ids = @ \ {t}]
    /\ UNCHANGED <<row, phase, slot, dropped>>

ClaimedSlots(w) == {s \in Slot : slot[w][s] # Free /\ ~slot[w][s].running}

Bug_Dispatch(w) ==
    /\ Assigning(w)
    /\ call[w].limit = 0 \/ (call[w].ids = {} /\ ~call[w].full)
    /\ call' = [call EXCEPT ![w] = NoCall]
    /\ slot' = [slot EXCEPT ![w] =
                  [s \in Slot |-> IF s \in ClaimedSlots(w) /\ phase[w] = "up"
                                  THEN [slot[w][s] EXCEPT !.running = TRUE]
                                  ELSE IF s \in ClaimedSlots(w) THEN Free
                                  ELSE slot[w][s]]]
    /\ UNCHANGED <<row, phase, dropped>>

\* assign_tasks returns and the loop spawns an execution for each record,
\* also when the worker was told to stop meanwhile.
Dispatch(w) ==
    /\ Assigning(w)
    /\ call[w].limit = 0 \/ (call[w].ids = {} /\ ~call[w].full)
    /\ call' = [call EXCEPT ![w] = NoCall]
    /\ slot' = [slot EXCEPT ![w] =
                  [s \in Slot |-> IF s \in ClaimedSlots(w)
                                  THEN [slot[w][s] EXCEPT !.running = TRUE]
                                  ELSE slot[w][s]]]
    /\ UNCHANGED <<row, phase, dropped>>

\* A statement of the call fails: `?' returns the error, the records already
\* claimed are dropped with it and Worker::assign reports an empty batch.
ForgetClaims(w) ==
    /\ call' = [call EXCEPT ![w] = NoCall]
    /\ slot' = [slot EXCEPT ![w] =
                  [s \in Slot |-> IF s \in ClaimedSlots(w) THEN Free ELSE slot[w][s]]]

AssignFails(w) ==
    /\ BackendFails /\ call[w].limit > 0
    /\ ForgetClaims(w)
    /\ dropped' = dropped \cup {slot[w][s].task : s \in ClaimedSlots(w)}
    /\ UNCHANGED <<row, phase>>

\* The commit that reports an error did claim the row.
ClaimLost(w, t) ==
    /\ BackendFails /\ call[w].limit > 0 /\ t \in call[w].ids
    /\ AssignTask(t, w)
    /\ ForgetClaims(w)
    /\ dropped' = dropped \cup {t} \cup {slot[w][s].task : s \in ClaimedSlots(w)}
    /\ UNCHANGED phase

-----------------------------------------------------------------------------
(* handle_task: the handler's verdict, one call to the backend whose error *)
(* is ignored, and the permit given back.                                  *)

FreeSlot(w, s) == slot' = [slot EXCEPT ![w][s] = Free]

Running(w, s) == slot[w][s] # Free /\ slot[w][s].running

\* The handler returned.
FinishOk(w, s) ==
    /\ Running(w, s)
    /\ Succeed(slot[w][s].task)
    /\ FreeSlot(w, s)
    /\ UNCHANGED <<phase, call, dropped>>

\* No executor, a fatal error or a panic.
FinishFatal(w, s) ==
    /\ Running(w, s)
    /\ Fail(slot[w][s].task)
    /\ FreeSlot(w, s)
    /\ UNCHANGED <<phase, call, dropped>>

Bug_FinishDiscard(w, s) ==
    /\ Running(w, s)
    /\ DiscardTasks({slot[w][s].task})
    /\ slot' = [slot EXCEPT ![w][s].running = FALSE]
    /\ UNCHANGED <<phase, call, dropped>>

FinishDiscard(w, s) ==
    /\ Running(w, s)
    /\ DiscardTasks({slot[w][s].task})
    /\ FreeSlot(w, s)
    /\ UNCHANGED <<phase, call, dropped>>

FinishRetry(w, s) ==
    /\ Running(w, s)
    /\ slot[w][s].retry < MaxRetry
    /\ \E due \in BOOLEAN : RetryTask(slot[w][s].task, slot[w][s].retry + 1, due)
    /\ FreeSlot(w, s)
    /\ UNCHANGED <<phase, call, dropped>>

\* The call fails before its transaction commits.
FinishFails(w, s) ==
    /\ BackendFails /\ Running(w, s)
    /\ FreeSlot(w, s)
    /\ dropped' = dropped \cup {slot[w][s].task}
    /\ UNCHANGED <<row, phase, call>>

HandleTask(w, s) ==
    \/ FinishOk(w, s) \/ FinishFatal(w, s) \/ FinishDiscard(w, s)
    \/ FinishRetry(w, s) \/ FinishFails(w, s)

\* What the fetch loop does when no call fails and no claim succeeds.
FetchLoop(w) ==
    \/ BeginAssign(w) \/ ListDue(w) \/ Dispatch(w) \/ Exit(w)
    \/ \E t \in Task : SkipTask(w, t)

WorkerStep(w) ==
    \/ Spawn(w) \/ FetchLoop(w) \/ AssignFails(w)
    \/ \E t \in Task : ClaimTask(w, t) \/ ClaimLost(w, t)
    \/ \E s \in Slot : HandleTask(w, s)

=============================================================================
