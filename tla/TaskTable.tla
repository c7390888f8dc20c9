------------------------------ MODULE TaskTable ------------------------------
(***************************************************************************)
(* The table `taskkit_task' and the transactions the SQL backends run on   *)
(* it.  The statements are those of impls/postgres.rs (impls/mysql.rs has  *)
(* the same ones), the transactions those of impls/sqlx.rs.  A transaction *)
(* locks the one row it reads before it writes it, so each is one step.    *)
(*                                                                         *)
(* Timestamps are abstracted to the only question the code asks of them:   *)
(* `due < now' is the flag `due', `disposable < now' is the value "past"   *)
(* of `disposable'.  Both change on their own, when the clock gets there.  *)
(* Task data, names and groups are left out: no property depends on them.  *)
(***************************************************************************)
EXTENDS Naturals

CONSTANTS Task,      \* task ids, the primary key of the table
          Worker,    \* worker ids
          MaxRetry,  \* bound on retry_count: the last attempt never retries
          NoRow,     \* no row has this primary key
          Nobody     \* assignee_worker_id IS NULL

ASSUME MaxRetryAssumption == MaxRetry \in Nat
ASSUME NobodyAssumption   == Nobody \notin Worker

VARIABLE row         \* the table: row[t] is the row of task t, or NoRow

Attempt == 0 .. MaxRetry
Outcome == {"none", "result", "error"}

Row == [due: BOOLEAN, retry: Attempt, assignee: Worker \cup {Nobody},
        began: BOOLEAN, outcome: Outcome, disposable: {"null", "kept", "past"}]

ASSUME NoRowAssumption == NoRow \notin Row

TableTypeOK == row \in [Task -> Row \cup {NoRow}]

TableInit == row = [t \in Task |-> NoRow]

Known(t)  == row[t] # NoRow
Queued(t) == Known(t) /\ ~row[t].began
Staged(t) == Known(t) /\ row[t].began /\ row[t].outcome = "none"
Done(t)   == Known(t) /\ row[t].outcome # "none"

-----------------------------------------------------------------------------
(* Statements that write rows.                                             *)

FromTaskRecord(retry, due) ==
    [due |-> due, retry |-> retry, assignee |-> Nobody, began |-> FALSE,
     outcome |-> "none", disposable |-> "null"]

Bug_UpsertTasks(tbl, ts, new) ==
    [t \in Task |-> IF t \in ts THEN new ELSE tbl[t]]

\* INSERT ... ON CONFLICT (id) DO NOTHING
UpsertTasks(tbl, ts, new) ==
    [t \in Task |-> IF t \in ts /\ tbl[t] = NoRow THEN new ELSE tbl[t]]

DeleteTasks(tbl, ts) ==
    [t \in Task |-> IF t \in ts THEN NoRow ELSE tbl[t]]

UpdateAssignment(tbl, t, w) ==
    [tbl EXCEPT ![t].assignee = w, ![t].began = TRUE]

Bug_UpdateTaskDone(tbl, t, outcome) ==
    IF tbl[t] = NoRow THEN tbl
    ELSE [tbl EXCEPT ![t].began = FALSE, ![t].outcome = outcome,
                     ![t].disposable = "kept"]

\* The UPDATE matches nothing when the row is gone.  `began' is written back
\* as it was read, or set to now.
UpdateTaskDone(tbl, t, outcome) ==
    IF tbl[t] = NoRow THEN tbl
    ELSE [tbl EXCEPT ![t].began = TRUE, ![t].outcome = outcome,
                     ![t].disposable = "kept"]

UpdateRestore(tbl, t) ==
    IF tbl[t] = NoRow THEN tbl ELSE [tbl EXCEPT ![t].began = FALSE]

-----------------------------------------------------------------------------
(* Queries.  The order of the result is left out; a LIMIT is applied by    *)
(* the caller to the set the WHERE clause selects.                         *)

DueTasks        == {t \in Task : Queued(t) /\ row[t].due}
StagedTasks     == {t \in Task : Staged(t)}
DisposableTasks == {t \in Task : Known(t) /\ row[t].disposable = "past"}

-----------------------------------------------------------------------------
(* Transactions.                                                           *)

PutTasks(ts, due) == row' = UpsertTasks(row, ts, FromTaskRecord(0, due))

Bug_AssignTask(t, w) ==
    /\ Known(t)
    /\ row' = UpdateAssignment(row, t, w)

\* The body of the loop of assign_tasks: nothing but `began' is looked at
\* again under the row lock.
AssignTask(t, w) ==
    /\ Queued(t)
    /\ row' = UpdateAssignment(row, t, w)

Succeed(t) == row' = UpdateTaskDone(row, t, "result")
Fail(t)    == row' = UpdateTaskDone(row, t, "error")

RetryTask(t, retry, due) ==
    row' = UpsertTasks(DeleteTasks(row, {t}), {t}, FromTaskRecord(retry, due))

DiscardTasks(ts) == row' = DeleteTasks(row, ts)

Restore(t) == row' = UpdateRestore(row, t)

-----------------------------------------------------------------------------
(* The clock.                                                              *)

BecomesDue(t) ==
    /\ Known(t) /\ ~row[t].due
    /\ row' = [row EXCEPT ![t].due = TRUE]

BecomesDisposable(t) ==
    /\ Known(t) /\ row[t].disposable = "kept"
    /\ row' = [row EXCEPT ![t].disposable = "past"]

=============================================================================
