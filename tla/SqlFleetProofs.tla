---------------------------- MODULE SqlFleetProofs ----------------------------
(***************************************************************************)
(* Proofs about SqlFleet, for any set of tasks, workers, slots, sweepers   *)
(* and any limits.                                                         *)
(***************************************************************************)
EXTENDS SqlFleet, FiniteSetTheorems, TLAPS

-----------------------------------------------------------------------------
(* The statements of the table keep its type.                              *)

\* What every statement of TaskTable leaves in the table (postgres.rs).
LEMMA StatementTypes ==
  ASSUME TableTypeOK, NEW t \in Task
  PROVE  /\ \A ts \in SUBSET Task, r \in Attempt, d \in BOOLEAN :
               /\ UpsertTasks(row, ts, FromTaskRecord(r, d)) \in [Task -> Row \cup {NoRow}]
               /\ UpsertTasks(DeleteTasks(row, ts), ts, FromTaskRecord(r, d))
                     \in [Task -> Row \cup {NoRow}]
         /\ \A ts \in SUBSET Task : DeleteTasks(row, ts) \in [Task -> Row \cup {NoRow}]
         /\ \A w \in Worker :
               Known(t) => UpdateAssignment(row, t, w) \in [Task -> Row \cup {NoRow}]
         /\ \A o \in {"result", "error"} :
               UpdateTaskDone(row, t, o) \in [Task -> Row \cup {NoRow}]
         /\ UpdateRestore(row, t) \in [Task -> Row \cup {NoRow}]
<1>1. \A r \in Attempt, d \in BOOLEAN : FromTaskRecord(r, d) \in Row
  BY DEF FromTaskRecord, Row, Outcome
<1>2. row \in [Task -> Row \cup {NoRow}]
  BY DEF TableTypeOK
<1>3. Known(t) => row[t] \in Row
  BY <1>2 DEF Known
<1>4. ASSUME NEW ts \in SUBSET Task, NEW r \in Attempt, NEW d \in BOOLEAN
      PROVE  /\ UpsertTasks(row, ts, FromTaskRecord(r, d)) \in [Task -> Row \cup {NoRow}]
             /\ UpsertTasks(DeleteTasks(row, ts), ts, FromTaskRecord(r, d))
                   \in [Task -> Row \cup {NoRow}]
  <2> DEFINE new == FromTaskRecord(r, d)
  <2>1. new \in Row
    BY <1>1
  <2> HIDE DEF new
  <2> QED BY <1>2, <2>1 DEF UpsertTasks, DeleteTasks, new
<1>5. \A ts \in SUBSET Task : DeleteTasks(row, ts) \in [Task -> Row \cup {NoRow}]
  BY <1>2 DEF DeleteTasks
<1>6. \A w \in Worker :
         Known(t) => UpdateAssignment(row, t, w) \in [Task -> Row \cup {NoRow}]
  BY <1>2, <1>3 DEF UpdateAssignment, Row
<1>7. \A o \in {"result", "error"} :
         UpdateTaskDone(row, t, o) \in [Task -> Row \cup {NoRow}]
  BY <1>2, <1>3 DEF UpdateTaskDone, Row, Outcome, Known
<1>8. UpdateRestore(row, t) \in [Task -> Row \cup {NoRow}]
  BY <1>2, <1>3 DEF UpdateRestore, Row, Known
<1> QED BY <1>4, <1>5, <1>6, <1>7, <1>8

-----------------------------------------------------------------------------
(* Type correctness.                                                       *)

\* The steps of the workers keep every variable in its type.
LEMMA WorkerTypes ==
  ASSUME TypeOK, NEW w \in Worker, Work(WorkerStep(w)) \/ Work(Leave(w))
  PROVE  TypeOK'
<1> USE DEF TypeOK, TableTypeOK, WorkersTypeOK, HouseTypeOK, houseVars
<1>a. HouseTypeOK'
  BY DEF Work
<1>f. FreeSlots(w) \subseteq Slot /\ IsFiniteSet(FreeSlots(w))
      /\ Cardinality(FreeSlots(w)) \in 0 .. Cardinality(Slot)
  BY SlotAssumption, FS_Subset, FS_CardinalityType DEF FreeSlots
<1>0. NoCall \in Call
  BY SlotAssumption, FS_CardinalityType DEF NoCall, Call
<1>h. \A s \in Slot : slot[w][s] # Free => slot[w][s] \in Held
  OBVIOUS
<1>1. CASE Spawn(w) \/ Exit(w) \/ Stop(w)
  BY <1>a, <1>1 DEF Spawn, Exit, Stop, Phase
<1>2. CASE Crash(w)
  BY <1>a, <1>0, <1>2 DEF Crash, Phase
<1>3. CASE BeginAssign(w)
  <2>1. [limit |-> Cardinality(FreeSlots(w)), scan |-> 0, full |-> TRUE, ids |-> {}] \in Call
    BY <1>f DEF Call
  <2> QED BY <1>a, <1>3, <2>1 DEF BeginAssign
<1>4. CASE ListDue(w)
  <2>1. NextScan(w) \in Nat
    BY ScanAssumption DEF NextScan, Call
  <2> QED BY <1>a, <1>4, <2>1 DEF ListDue, Call
<1>5. CASE Dispatch(w)
  <2>1. \A s \in Slot : slot[w][s] # Free =>
           [slot[w][s] EXCEPT !.running = TRUE] \in Held
    BY <1>h DEF Held
  <2> QED BY <1>a, <1>0, <1>5, <2>1 DEF Dispatch, ClaimedSlots
<1>6. CASE AssignFails(w) \/ \E t \in Task : ClaimLost(w, t)
  <2>1. ForgetClaims(w) /\ dropped' \subseteq Task /\ phase' = phase
    BY <1>h, <1>6 DEF AssignFails, ClaimLost, ClaimedSlots, Held
  <2>2. WorkersTypeOK'
    BY <2>1, <1>0 DEF ForgetClaims
  <2>3. TableTypeOK'
    BY <1>6, StatementTypes DEF AssignFails, ClaimLost, AssignTask, Queued, Attempt
  <2> QED BY <1>a, <2>2, <2>3
<1>7. ASSUME NEW t \in Task, ClaimTask(w, t) PROVE TypeOK'
  <2>1. row[t] \in Row /\ row[t].retry \in Attempt
    BY <1>7 DEF ClaimTask, AssignTask, Queued, Known, Row
  <2>2. TableTypeOK'
    BY <1>7, <2>1, StatementTypes DEF ClaimTask, AssignTask, Queued
  <2>3. slot' \in [Worker -> [Slot -> Held \cup {Free}]]
    BY <1>7, <1>f, <2>1 DEF ClaimTask, Held
  <2>4. call' \in [Worker -> Call]
    BY <1>7, SlotAssumption, FS_CardinalityType DEF ClaimTask, Call
  <2> QED BY <1>a, <1>7, <2>2, <2>3, <2>4 DEF ClaimTask
<1>8. ASSUME NEW t \in Task, SkipTask(w, t) PROVE TypeOK'
  BY <1>a, <1>8 DEF SkipTask, Call
<1>9. ASSUME NEW s \in Slot, HandleTask(w, s) PROVE TypeOK'
  <2>1. slot[w][s] \in Held /\ slot[w][s].task \in Task
        /\ slot[w][s].retry \in Attempt
    BY <1>9, <1>h DEF HandleTask, FinishOk, FinishFatal, FinishDiscard, FinishRetry,
                      FinishFails, Running, Held
  <2>2. WorkersTypeOK'
    <3>1. /\ FreeSlot(w, s) /\ phase' = phase /\ call' = call
          /\ dropped' \in {dropped, dropped \cup {slot[w][s].task}}
      BY <1>9 DEF HandleTask, FinishOk, FinishFatal, FinishDiscard, FinishRetry,
                  FinishFails
    <3>2. slot' \in [Worker -> [Slot -> Held \cup {Free}]]
      BY <3>1 DEF FreeSlot
    <3> QED BY <2>1, <3>1, <3>2
  <2>3. TableTypeOK'
    <3>1. slot[w][s].retry < MaxRetry => slot[w][s].retry + 1 \in Attempt
      BY <2>1, MaxRetryAssumption DEF Attempt
    <3>2. 0 \in Attempt
      BY MaxRetryAssumption DEF Attempt
    <3> DEFINE t == slot[w][s].task
    <3>3. CASE FinishOk(w, s) \/ FinishFatal(w, s)
      BY <2>1, <3>3, StatementTypes DEF FinishOk, FinishFatal, Succeed, Fail
    <3>4. CASE FinishDiscard(w, s)
      BY <2>1, <3>4, StatementTypes DEF FinishDiscard, DiscardTasks
    <3>5. CASE FinishRetry(w, s)
      <4>1. PICK due \in BOOLEAN : RetryTask(t, slot[w][s].retry + 1, due)
        BY <3>5 DEF FinishRetry
      <4>2. slot[w][s].retry + 1 \in Attempt /\ {t} \in SUBSET Task
        BY <2>1, <3>1, <3>5 DEF FinishRetry
      <4> QED BY <2>1, <4>1, <4>2, StatementTypes DEF RetryTask
    <3>6. CASE FinishFails(w, s)
      BY <3>6 DEF FinishFails
    <3> QED BY <1>9, <3>3, <3>4, <3>5, <3>6 DEF HandleTask
  <2> QED BY <1>a, <2>2, <2>3
<1> QED
  BY <1>1, <1>2, <1>3, <1>4, <1>5, <1>6, <1>7, <1>8, <1>9
  DEF Work, WorkerStep, FetchLoop, Leave

\* The steps of the services keep every variable in its type.
LEMMA ServiceTypes ==
  ASSUME TypeOK, NEW p \in Sweeper, Housekeep(HouseStep(p))
  PROVE  TypeOK'
<1> USE DEF TypeOK, TableTypeOK, WorkersTypeOK, HouseTypeOK
<1>a. WorkersTypeOK'
  BY DEF Housekeep, workerVars
<1>0. NoSweep \in Sweep
  BY DEF NoSweep, Sweep
<1>1. CASE ListStage(p)
  <2>1. StageEntries \subseteq StageEntry
    <3>1. \A t \in StagedTasks : t \in Task /\ row[t] \in Row
      BY DEF StagedTasks, Staged, Known
    <3> QED BY <3>1 DEF StageEntries, StageEntry, Row
  <2> QED BY <1>a, <1>1, <2>1 DEF ListStage, Sweep
<1>2. CASE JudgeStage(p)
  <2>1. Abandoned(sweep[p].seen) \subseteq Task
    BY DEF Abandoned, Sweep, StageEntry
  <2> QED BY <1>a, <1>2, <2>1 DEF JudgeStage, Sweep
<1>3. CASE SweepEnds(p)
  BY <1>a, <1>0, <1>3 DEF SweepEnds
<1>4. ASSUME NEW t \in Task, RestoreTask(p, t) PROVE TypeOK'
  <2>1. TableTypeOK'
    BY <1>4, StatementTypes, MaxRetryAssumption DEF RestoreTask, Restore, Attempt
  <2> QED BY <1>a, <1>4, <2>1 DEF RestoreTask, Sweep
<1>5. CASE ListExpired(p) \/ PurgeWorkers(p) \/ ListDisposable(p)
  BY <1>a, <1>5 DEF ListExpired, PurgeWorkers, ListDisposable, DisposableTasks
<1>6. CASE DiscardDisposable(p)
  BY <1>a, <1>6 DEF DiscardDisposable, DiscardTasks, DeleteTasks
<1> QED BY <1>1, <1>2, <1>3, <1>4, <1>5, <1>6 DEF Housekeep, HouseStep

\* An empty table and idle workers are well typed.
LEMMA TypeInit == Init => TypeOK
<1> SUFFICES ASSUME Init PROVE TypeOK
  OBVIOUS
<1>1. NoCall \in Call /\ NoSweep \in Sweep
  BY SlotAssumption, FS_CardinalityType DEF NoCall, Call, NoSweep, Sweep
<1> QED
  BY <1>1 DEF Init, TableInit, WorkersInit, HouseInit, TypeOK, TableTypeOK,
              WorkersTypeOK, HouseTypeOK, Phase

\* Every step of the fleet keeps the types, one group of actions at a time.
LEMMA TypeStep == TypeOK /\ [Next]_vars => TypeOK'
<1> SUFFICES ASSUME TypeOK, [Next]_vars PROVE TypeOK'
  OBVIOUS
<1> USE DEF TypeOK
<1>1. ASSUME NEW t \in Task, Submit(t) \/ Clock(t) PROVE TypeOK'
  <2>1. WorkersTypeOK' /\ HouseTypeOK'
    BY <1>1 DEF Submit, Clock, workerVars, houseVars, WorkersTypeOK, HouseTypeOK
  <2>2. CASE Submit(t)
    <3>1. 0 \in Attempt /\ {t} \in SUBSET Task
      BY MaxRetryAssumption DEF Attempt
    <3>2. TableTypeOK'
      <4>1. PICK due \in BOOLEAN : row' = UpsertTasks(row, {t}, FromTaskRecord(0, due))
        BY <2>2 DEF Submit, PutTasks
      <4>2. TableTypeOK
        OBVIOUS
      <4>3. row' \in [Task -> Row \cup {NoRow}]
        BY <3>1, <4>1, <4>2, StatementTypes
      <4> QED BY <4>3 DEF TableTypeOK
    <3> QED BY <2>1, <3>2
  <2>3. CASE Clock(t)
    <3>1. TableTypeOK'
      BY <2>3 DEF Clock, BecomesDue, BecomesDisposable, TableTypeOK, Known, Row
    <3> QED BY <2>1, <3>1
  <2> QED BY <1>1, <2>2, <2>3
<1>2. ASSUME NEW w \in Worker, Heartbeat(w) \/ ExpireLease(w) PROVE TypeOK'
  BY <1>2 DEF Heartbeat, ExpireLease, ReadAlive, SetWorkerTtl, LeaseExpires, workerVars,
              TableTypeOK, WorkersTypeOK, HouseTypeOK
<1>3. CASE UNCHANGED vars
  BY <1>3 DEF vars, TableTypeOK, WorkersTypeOK, HouseTypeOK
<1> QED BY <1>1, <1>2, <1>3, WorkerTypes, ServiceTypes DEF Next

\* Every variable of the fleet keeps its type.
THEOREM TypeCorrect == Spec => []TypeOK
BY TypeInit, TypeStep, PTL DEF Spec

-----------------------------------------------------------------------------
(* The invariant behind NoOrphan and ExclusiveExecution.                   *)

\* The columns of a row agree: only a done row can be disposable, and a staged
\* row names a worker.
RowShape ==
    \A t \in Task :
       /\ Known(t) /\ row[t].disposable # "null" => Done(t)
       /\ Staged(t) => row[t].assignee \in Worker

\* An undisturbed task that is done has left the queue for good.
SoundDone == \A t \in Task \ disturbed : Done(t) => row[t].began

\* What a sweep is about to restore counts as disturbed.
TodoDisturbed == \A p \in Sweeper : sweep[p].todo \subseteq disturbed

IInv == RowShape /\ SoundDone /\ TodoDisturbed /\ NoOrphan /\ ExclusiveExecution

\* No step but a claim stages a task or lets a slot hold one; such a step keeps
\* the invariant if it frees slots and changes rows for a reason.
LEMMA Carries ==
  ASSUME IInv,
         disturbed \subseteq disturbed', dropped \subseteq dropped',
         \A p \in Sweeper : sweep'[p].todo \subseteq disturbed',
         \A v \in Worker : phase[v] = "crashed" => phase'[v] = "crashed",
         \A v \in Worker, r \in Slot, t \in Task :
            Holds(v, r, t)' => Holds(v, r, t) /\ slot'[v][r].retry = slot[v][r].retry,
         \A t \in Task : Staged(t)' => /\ Staged(t)
                                       /\ row'[t].assignee = row[t].assignee
                                       /\ row'[t].retry = row[t].retry,
         \A v \in Worker, t \in Task :
            HeldBy(v, t) => \/ HeldBy(v, t)' \/ phase'[v] = "crashed"
                            \/ t \in dropped' \/ ~Staged(t)',
         \A t \in Task \ disturbed' : \A v \in Worker, r \in Slot :
            Holds(v, r, t)' => Staged(t)',
         \A t \in Task : Known(t)' /\ row'[t].disposable # "null" => Done(t)',
         \A t \in Task \ disturbed' : Done(t)' => row'[t].began
  PROVE  IInv'
<1>1. RowShape' /\ SoundDone' /\ TodoDisturbed'
  BY DEF IInv, RowShape, SoundDone, TodoDisturbed
<1>2. NoOrphan'
  BY DEF IInv, NoOrphan, RowShape
<1>3. ExclusiveExecution'
  BY DEF IInv, ExclusiveExecution
<1> QED BY <1>1, <1>2, <1>3 DEF IInv

\* Steps that leave the table alone and free no slot.
LEMMA QuietSteps ==
  ASSUME TypeOK, IInv, row' = row, dropped' = dropped,
         disturbed \subseteq disturbed',
         \A p \in Sweeper : sweep'[p].todo \subseteq disturbed',
         \A v \in Worker : phase[v] = "crashed" => phase'[v] = "crashed",
         \A v \in Worker, r \in Slot, t \in Task :
            /\ Holds(v, r, t)' <=> Holds(v, r, t)
            /\ Holds(v, r, t) => slot'[v][r].retry = slot[v][r].retry
  PROVE  IInv'
<1>1. \A t \in Task : (Known(t)' <=> Known(t)) /\ (Staged(t)' <=> Staged(t))
                      /\ (Done(t)' <=> Done(t))
  BY DEF Known, Staged, Done
<1>2. \A v \in Worker, t \in Task : HeldBy(v, t) => HeldBy(v, t)'
  BY DEF HeldBy
<1>3. \A t \in Task \ disturbed' : \A v \in Worker, r \in Slot :
         Holds(v, r, t)' => Staged(t)'
  BY <1>1 DEF IInv, ExclusiveExecution
<1> QED BY <1>1, <1>2, <1>3, Carries DEF IInv, RowShape, SoundDone

\* The steps of a worker other than a claim or the end of an execution.
LEMMA LoopSteps ==
  ASSUME TypeOK, IInv, NEW w \in Worker, UNCHANGED houseVars,
         \/ Spawn(w) \/ Stop(w) \/ Exit(w) \/ BeginAssign(w) \/ ListDue(w)
         \/ Dispatch(w) \/ \E t \in Task : SkipTask(w, t)
  PROVE  IInv'
<1>1. /\ row' = row /\ dropped' = dropped
      /\ disturbed \subseteq disturbed'
      /\ \A p \in Sweeper : sweep'[p].todo \subseteq disturbed'
  BY DEF Spawn, Stop, Exit, BeginAssign, ListDue, Dispatch, SkipTask, houseVars,
         IInv, TodoDisturbed
<1>2. \A v \in Worker : phase[v] = "crashed" => phase'[v] = "crashed"
  BY DEF Spawn, Stop, Exit, BeginAssign, ListDue, Dispatch, SkipTask, TypeOK,
         WorkersTypeOK
<1>3. ASSUME NEW v \in Worker, NEW r \in Slot, NEW t \in Task
      PROVE  /\ Holds(v, r, t)' <=> Holds(v, r, t)
             /\ Holds(v, r, t) => slot'[v][r].retry = slot[v][r].retry
  <2>1. CASE slot' = slot
    BY <2>1 DEF Holds
  <2>2. CASE Dispatch(w)
    <3>1. slot'[v][r] = slot[v][r]
          \/ /\ slot[v][r] # Free
             /\ slot'[v][r] = [slot[v][r] EXCEPT !.running = TRUE]
      BY <2>2 DEF Dispatch, ClaimedSlots, TypeOK, WorkersTypeOK
    <3>2. slot[v][r] # Free => slot[v][r] \in Held
      BY DEF TypeOK, WorkersTypeOK
    <3> QED BY <3>1, <3>2, FreeAssumption DEF Holds, Held
  <2> QED BY <2>1, <2>2 DEF Spawn, Stop, Exit, BeginAssign, ListDue, SkipTask
<1> QED BY <1>1, <1>2, <1>3, QuietSteps

\* A crash, or a failed assign_tasks call, drops what the slots hold.
LEMMA ForgetSteps ==
  ASSUME TypeOK, IInv, NEW w \in Worker, UNCHANGED houseVars,
         Crash(w) \/ AssignFails(w)
  PROVE  IInv'
<1> USE DEF TypeOK, WorkersTypeOK
<1>1. /\ row' = row /\ disturbed' = disturbed /\ sweep' = sweep
      /\ dropped \subseteq dropped'
      /\ \A v \in Worker : phase[v] = "crashed" => phase'[v] = "crashed"
  BY DEF Crash, AssignFails, houseVars
<1>2. \A v \in Worker, r \in Slot : slot'[v][r] \in {slot[v][r], Free}
  BY DEF Crash, AssignFails, ForgetClaims
<1>3. \A v \in Worker, r \in Slot, t \in Task :
         Holds(v, r, t)' => Holds(v, r, t) /\ slot'[v][r].retry = slot[v][r].retry
  BY <1>2 DEF Holds
<1>4. \A v \in Worker, t \in Task :
         HeldBy(v, t) => HeldBy(v, t)' \/ phase'[v] = "crashed" \/ t \in dropped'
  <2> SUFFICES ASSUME NEW v \in Worker, NEW t \in Task, NEW r \in Slot, Holds(v, r, t)
               PROVE  HeldBy(v, t)' \/ phase'[v] = "crashed" \/ t \in dropped'
    BY DEF HeldBy
  <2>1. CASE slot'[v][r] = slot[v][r]
    BY <2>1 DEF HeldBy, Holds
  <2>2. CASE Crash(w) /\ slot'[v][r] # slot[v][r]
    BY <2>2 DEF Crash
  <2>3. CASE AssignFails(w) /\ slot'[v][r] # slot[v][r]
    BY <2>3 DEF AssignFails, ForgetClaims, Holds
  <2> QED BY <2>1, <2>2, <2>3
<1>5. \A t \in Task : (Known(t)' <=> Known(t)) /\ (Staged(t)' <=> Staged(t))
                      /\ (Done(t)' <=> Done(t))
  BY <1>1 DEF Known, Staged, Done
<1>6. \A t \in Task \ disturbed' : \A v \in Worker, r \in Slot :
         Holds(v, r, t)' => Staged(t)'
  BY <1>1, <1>3, <1>5 DEF IInv, ExclusiveExecution
<1> QED BY <1>1, <1>3, <1>4, <1>5, <1>6, Carries DEF IInv, RowShape, SoundDone, TodoDisturbed

\* What claiming a queued task does to the table.
LEMMA ClaimedRow ==
  ASSUME TypeOK, NEW w \in Worker, NEW t \in Task, AssignTask(t, w)
  PROVE  /\ Queued(t) /\ Known(t)'
         /\ row'[t].began /\ row'[t].assignee = w
         /\ row'[t].retry = row[t].retry /\ row'[t].outcome = row[t].outcome
         /\ row'[t].disposable = row[t].disposable
         /\ \A u \in Task \ {t} : row'[u] = row[u]
<1>1. row \in [Task -> Row \cup {NoRow}] /\ row[t] \in Row
  BY DEF TypeOK, TableTypeOK, AssignTask, Queued, Known
<1>2. row' = [row EXCEPT ![t] = [@ EXCEPT !.assignee = w, !.began = TRUE]]
  BY <1>1 DEF AssignTask, UpdateAssignment
<1>3. row'[t] = [row[t] EXCEPT !.assignee = w, !.began = TRUE]
      /\ \A u \in Task \ {t} : row'[u] = row[u]
  BY <1>1, <1>2
<1>4. row'[t] \in Row
  BY <1>1, <1>3 DEF Row
<1>5. /\ row'[t].began /\ row'[t].assignee = w
      /\ row'[t].retry = row[t].retry /\ row'[t].outcome = row[t].outcome
      /\ row'[t].disposable = row[t].disposable
  BY <1>1, <1>3 DEF Row
<1>6. Queued(t) /\ Known(t)'
  BY <1>4, NoRowAssumption DEF AssignTask, Known
<1> QED BY <1>3, <1>5, <1>6

\* A claim, heard by the worker or not.
LEMMA ClaimSteps ==
  ASSUME TypeOK, IInv, NEW w \in Worker, NEW t \in Task, UNCHANGED houseVars,
         ClaimTask(w, t) \/ ClaimLost(w, t)
  PROVE  IInv'
<1> USE DEF TypeOK, WorkersTypeOK
<1>1. AssignTask(t, w) /\ phase' = phase /\ disturbed' = disturbed /\ sweep' = sweep
      /\ dropped \subseteq dropped'
  BY DEF ClaimTask, ClaimLost, houseVars
<1>2. /\ Queued(t) /\ Known(t)'
      /\ row'[t].began /\ row'[t].assignee = w
      /\ row'[t].retry = row[t].retry /\ row'[t].outcome = row[t].outcome
      /\ row'[t].disposable = row[t].disposable
      /\ \A u \in Task \ {t} : row'[u] = row[u]
  BY <1>1, ClaimedRow
<1>3. \A u \in Task \ {t} : (Known(u)' <=> Known(u)) /\ (Staged(u)' <=> Staged(u))
                            /\ (Done(u)' <=> Done(u))
  BY <1>2 DEF Known, Staged, Done
<1>4. t \notin disturbed =>
         Staged(t)' /\ \A v \in Worker, r \in Slot : ~Holds(v, r, t)
  BY <1>2 DEF IInv, SoundDone, ExclusiveExecution, Queued, Staged, Done, Known
<1>5. RowShape'
  <2> SUFFICES ASSUME NEW u \in Task
               PROVE  /\ Known(u)' /\ row'[u].disposable # "null" => Done(u)'
                      /\ Staged(u)' => row'[u].assignee \in Worker
    BY DEF RowShape
  <2>1. CASE u = t
    BY <1>2, <2>1 DEF IInv, RowShape, Queued, Known, Done
  <2>2. CASE u # t
    BY <1>2, <1>3, <2>2 DEF IInv, RowShape
  <2> QED BY <2>1, <2>2
<1>6. SoundDone' /\ TodoDisturbed'
  BY <1>1, <1>2, <1>3 DEF IInv, SoundDone, TodoDisturbed, Done, Known
<1>7. NoOrphan' /\ ExclusiveExecution'
  <2>1. CASE ClaimTask(w, t)
    <3>1. PICK s \in Slot :
             /\ slot[w][s] = Free
             /\ slot' = [slot EXCEPT ![w][s] =
                           [task |-> t, retry |-> row[t].retry, running |-> FALSE]]
      BY <2>1 DEF ClaimTask, FreeSlots
    <3>2. slot'[w][s].task = t /\ slot'[w][s].retry = row[t].retry
      BY <3>1
    <3>3. slot'[w][s] # Free
      <4>1. row[t].retry \in Attempt
        BY <1>2 DEF Queued, Known, TableTypeOK, Row
      <4>2. [task |-> t, retry |-> row[t].retry, running |-> FALSE] \in Held
        BY <4>1 DEF Held
      <4> QED BY <3>1, <4>2, FreeAssumption
    <3>4. \A v \in Worker, r \in Slot : v # w \/ r # s => slot'[v][r] = slot[v][r]
      BY <3>1
    <3>5. Holds(w, s, t)'
      BY <3>2, <3>3 DEF Holds
    <3>6. \A v \in Worker, r \in Slot, u \in Task :
             /\ v # w \/ r # s => (Holds(v, r, u)' <=> Holds(v, r, u))
             /\ Holds(w, s, u)' <=> u = t
             /\ ~Holds(w, s, u)
      BY <3>1, <3>2, <3>3, <3>4 DEF Holds
    <3>7. NoOrphan'
      <4> SUFFICES ASSUME NEW u \in Task, Staged(u)'
                   PROVE  \/ HeldBy(row[u].assignee, u)'
                          \/ phase'[row'[u].assignee] = "crashed" \/ u \in dropped'
        BY DEF NoOrphan
      <4>1. CASE u = t
        BY <1>2, <3>5, <4>1 DEF HeldBy
      <4>2. CASE u # t
        BY <1>1, <1>2, <1>3, <3>6, <4>2 DEF IInv, NoOrphan, HeldBy, RowShape
      <4> QED BY <4>1, <4>2
    <3>8. ExclusiveExecution'
      <4> SUFFICES ASSUME NEW u \in Task \ disturbed, NEW v \in Worker, NEW r \in Slot,
                          Holds(v, r, u)'
                   PROVE  /\ Staged(u)' /\ row'[u].assignee = v
                          /\ row'[u].retry = slot'[v][r].retry
                          /\ \A x \in Worker : \A y \in Slot :
                                Holds(x, y, u)' => x = v /\ y = r
        BY <1>1 DEF ExclusiveExecution
      <4>1. CASE u = t
        BY <1>2, <1>4, <3>2, <3>6, <4>1
      <4>2. CASE u # t
        <5>1. Holds(v, r, u) /\ slot'[v][r] = slot[v][r]
          BY <3>4, <3>6, <4>2
        <5> QED BY <1>2, <1>3, <3>6, <4>2, <5>1 DEF IInv, ExclusiveExecution
      <4> QED BY <4>1, <4>2
    <3> QED BY <3>7, <3>8
  <2>2. CASE ClaimLost(w, t)
    <3>1. \A v \in Worker, r \in Slot : slot'[v][r] \in {slot[v][r], Free}
      BY <2>2 DEF ClaimLost, ForgetClaims
    <3>2. \A v \in Worker, r \in Slot, u \in Task :
             Holds(v, r, u)' => Holds(v, r, u) /\ slot'[v][r] = slot[v][r]
      BY <3>1 DEF Holds
    <3>3. \A v \in Worker, r \in Slot, u \in Task :
             Holds(v, r, u) => Holds(v, r, u)' \/ u \in dropped'
      BY <2>2 DEF ClaimLost, ForgetClaims, Holds
    <3>4. t \in dropped'
      BY <2>2 DEF ClaimLost
    <3>5. NoOrphan'
      BY <1>1, <1>2, <1>3, <3>3, <3>4 DEF IInv, NoOrphan, HeldBy, RowShape
    <3>6. ExclusiveExecution'
      BY <1>1, <1>2, <1>3, <1>4, <3>2 DEF IInv, ExclusiveExecution
    <3> QED BY <3>5, <3>6
  <2> QED BY <2>1, <2>2
<1> QED BY <1>5, <1>6, <1>7 DEF IInv

\* However an execution ends, its task is off the stage, a done row is off the
\* queue, and no other row changes; or the backend call failed.
LEMMA FinishedRow ==
  ASSUME TypeOK, NEW w \in Worker, NEW s \in Slot, HandleTask(w, s),
         NEW t \in Task, t = slot[w][s].task
  PROVE  /\ Running(w, s) /\ FreeSlot(w, s)
         /\ \A u \in Task \ {t} : row'[u] = row[u]
         /\ \/ row' = row /\ t \in dropped'
            \/ /\ ~Staged(t)'
               /\ Known(t)' /\ row'[t].disposable # "null" => Done(t)'
               /\ Done(t)' => row'[t].began
<1>1. Running(w, s) /\ FreeSlot(w, s)
  BY DEF HandleTask, FinishOk, FinishFatal, FinishDiscard, FinishRetry, FinishFails
<1>2. t \in Task
  OBVIOUS
<1>3. row \in [Task -> Row \cup {NoRow}]
  BY DEF TypeOK, TableTypeOK
<1>4. CASE FinishOk(w, s) \/ FinishFatal(w, s)
  <2>1. PICK o \in {"result", "error"} : row' = UpdateTaskDone(row, t, o)
    BY <1>4 DEF FinishOk, FinishFatal, Succeed, Fail
  <2>2. CASE row[t] = NoRow
    BY <1>1, <1>2, <2>1, <2>2 DEF UpdateTaskDone, Known, Staged, Done
  <2>3. CASE row[t] # NoRow
    <3>1. /\ row'[t] = [row[t] EXCEPT !.began = TRUE, !.outcome = o, !.disposable = "kept"]
          /\ \A u \in Task \ {t} : row'[u] = row[u]
      BY <1>2, <1>3, <2>1, <2>3 DEF UpdateTaskDone
    <3>2. row[t] \in Row
      BY <1>2, <1>3, <2>3
    <3>3. row'[t].began /\ row'[t].outcome = o
      BY <3>1, <3>2 DEF Row
    <3> QED BY <1>1, <1>2, <3>1, <3>3 DEF Known, Staged, Done
  <2> QED BY <2>2, <2>3
<1>5. CASE FinishDiscard(w, s)
  BY <1>1, <1>2, <1>5 DEF FinishDiscard, DiscardTasks, DeleteTasks, Known, Staged, Done
<1>6. CASE FinishRetry(w, s)
  <2>1. PICK due \in BOOLEAN : RetryTask(t, slot[w][s].retry + 1, due)
    BY <1>6 DEF FinishRetry
  <2>2. /\ row'[t] = FromTaskRecord(slot[w][s].retry + 1, due)
        /\ \A u \in Task \ {t} : row'[u] = row[u]
    BY <1>2, <2>1 DEF RetryTask, UpsertTasks, DeleteTasks
  <2> QED BY <1>1, <1>2, <2>2 DEF FromTaskRecord, Known, Staged, Done
<1>7. CASE FinishFails(w, s)
  BY <1>1, <1>2, <1>7 DEF FinishFails
<1> QED BY <1>4, <1>5, <1>6, <1>7 DEF HandleTask

\* The end of an execution.
LEMMA FinishSteps ==
  ASSUME TypeOK, IInv, NEW w \in Worker, NEW s \in Slot, UNCHANGED houseVars,
         HandleTask(w, s)
  PROVE  IInv'
<1>0. Running(w, s)
  BY DEF HandleTask, FinishOk, FinishFatal, FinishDiscard, FinishRetry, FinishFails
<1>t. PICK t \in Task : t = slot[w][s].task
  BY <1>0 DEF Running, TypeOK, WorkersTypeOK, Held
<1>1. /\ Running(w, s) /\ FreeSlot(w, s)
      /\ \A u \in Task \ {t} : row'[u] = row[u]
      /\ \/ row' = row /\ t \in dropped'
         \/ /\ ~Staged(t)'
            /\ Known(t)' /\ row'[t].disposable # "null" => Done(t)'
            /\ Done(t)' => row'[t].began
  BY <1>t, FinishedRow
<1>2. phase' = phase /\ dropped \subseteq dropped' /\ disturbed' = disturbed
      /\ sweep' = sweep
  BY DEF HandleTask, FinishOk, FinishFatal, FinishDiscard, FinishRetry, FinishFails,
         houseVars
<1>3. \A u \in Task \ {t} : (Known(u)' <=> Known(u)) /\ (Staged(u)' <=> Staged(u))
                            /\ (Done(u)' <=> Done(u))
  BY <1>1 DEF Known, Staged, Done
<1>4. /\ slot'[w][s] = Free
      /\ \A v \in Worker, r \in Slot : v # w \/ r # s => slot'[v][r] = slot[v][r]
  BY <1>1 DEF FreeSlot, TypeOK, WorkersTypeOK
<1>5. \A v \in Worker, r \in Slot, u \in Task :
         Holds(v, r, u)' <=> Holds(v, r, u) /\ (v # w \/ r # s)
  BY <1>4 DEF Holds
<1>6. row' = row => \A u \in Task : (Known(u)' <=> Known(u)) /\ (Staged(u)' <=> Staged(u))
                                    /\ (Done(u)' <=> Done(u))
  BY DEF Known, Staged, Done
<1>7. Holds(w, s, t)
  BY <1>1, <1>t DEF Running, Holds
<1>8. \A u \in Task \ disturbed' : \A v \in Worker, r \in Slot :
         Holds(v, r, u)' => Staged(u)'
  BY <1>1, <1>2, <1>3, <1>5, <1>7 DEF IInv, ExclusiveExecution
<1>9. \A v \in Worker, u \in Task :
         HeldBy(v, u) => HeldBy(v, u)' \/ u \in dropped' \/ ~Staged(u)'
  <2> SUFFICES ASSUME NEW v \in Worker, NEW u \in Task, NEW r \in Slot, Holds(v, r, u)
               PROVE  HeldBy(v, u)' \/ u \in dropped' \/ ~Staged(u)'
    BY DEF HeldBy
  <2>1. CASE v # w \/ r # s
    BY <1>5, <2>1 DEF HeldBy
  <2>2. CASE v = w /\ r = s
    BY <1>1, <1>7, <2>2 DEF Holds
  <2> QED BY <2>1, <2>2
<1>10. \A u \in Task : /\ Known(u)' /\ row'[u].disposable # "null" => Done(u)'
                       /\ u \notin disturbed' /\ Done(u)' => row'[u].began
  BY <1>1, <1>2, <1>3, <1>6 DEF IInv, RowShape, SoundDone
<1>11. \A u \in Task : Staged(u)' => /\ Staged(u) /\ row'[u].assignee = row[u].assignee
                                     /\ row'[u].retry = row[u].retry
  BY <1>1, <1>3, <1>6
<1>12. \A v \in Worker, r \in Slot, u \in Task :
          Holds(v, r, u)' => Holds(v, r, u) /\ slot'[v][r].retry = slot[v][r].retry
  BY <1>4, <1>5
<1> QED
  BY <1>2, <1>8, <1>9, <1>10, <1>11, <1>12, Carries DEF IInv, TodoDisturbed

\* Clients and the clock.
LEMMA ClientSteps ==
  ASSUME TypeOK, IInv, NEW t \in Task, Submit(t) \/ Clock(t)
  PROVE  IInv'
<1>1. UNCHANGED <<workerVars, houseVars>>
  BY DEF Submit, Clock
<1>2. row \in [Task -> Row \cup {NoRow}]
  BY DEF TypeOK, TableTypeOK
<1>3. \A u \in Task \ {t} : row'[u] = row[u]
  BY <1>2 DEF Submit, PutTasks, UpsertTasks, Clock, BecomesDue, BecomesDisposable
<1>4. \/ row'[t] = row[t]
      \/ /\ ~Known(t) /\ ~Staged(t)' /\ ~Done(t)'
         /\ row'[t].disposable = "null"
      \/ /\ Known(t) /\ Known(t)'
         /\ row'[t].began = row[t].began /\ row'[t].outcome = row[t].outcome
         /\ row'[t].assignee = row[t].assignee /\ row'[t].retry = row[t].retry
         /\ row'[t].disposable = "null" => row[t].disposable = "null"
         /\ row[t].disposable = "null" => row'[t].disposable = "null"
  <2>1. CASE Submit(t)
    <3>1. PICK due \in BOOLEAN : row' = UpsertTasks(row, {t}, FromTaskRecord(0, due))
      BY <2>1 DEF Submit, PutTasks
    <3> QED BY <3>1 DEF UpsertTasks, FromTaskRecord, Known, Staged, Done
  <2>2. CASE Clock(t)
    <3>1. Known(t) /\ row[t] \in Row
      BY <1>2, <2>2 DEF Clock, BecomesDue, BecomesDisposable, Known
    <3>2. \/ row'[t] = [row[t] EXCEPT !.due = TRUE]
          \/ row'[t] = [row[t] EXCEPT !.disposable = "past"] /\ row[t].disposable = "kept"
      BY <1>2, <2>2 DEF Clock, BecomesDue, BecomesDisposable
    <3>3. row'[t] \in Row
      BY <3>1, <3>2 DEF Row
    <3> QED BY <3>1, <3>2, <3>3, NoRowAssumption DEF Known, Row
  <2> QED BY <2>1, <2>2
<1>5. \A u \in Task :
         /\ Staged(u)' => /\ Staged(u) /\ row'[u].assignee = row[u].assignee
                          /\ row'[u].retry = row[u].retry
         /\ Staged(u) => Staged(u)'
         /\ Known(u)' /\ row'[u].disposable # "null" => Done(u)'
         /\ u \notin disturbed /\ Done(u)' => row'[u].began
  BY <1>3, <1>4 DEF IInv, RowShape, SoundDone, Known, Staged, Done
<1>6. \A v \in Worker, r \in Slot, u \in Task :
         /\ Holds(v, r, u)' <=> Holds(v, r, u)
         /\ slot'[v][r].retry = slot[v][r].retry
  BY <1>1 DEF workerVars, Holds
<1>7. \A v \in Worker, u \in Task : HeldBy(v, u) => HeldBy(v, u)'
  BY <1>6 DEF HeldBy
<1>8. \A u \in Task \ disturbed' : \A v \in Worker, r \in Slot :
         Holds(v, r, u)' => Staged(u)'
  BY <1>1, <1>5, <1>6 DEF IInv, ExclusiveExecution, houseVars
<1> QED
  BY <1>1, <1>5, <1>6, <1>7, <1>8, Carries
  DEF IInv, TodoDisturbed, workerVars, houseVars

\* Heartbeats and the steps of the services that only read or write other
\* tables.
LEMMA WatchSteps ==
  ASSUME TypeOK, IInv,
         \/ \E w \in Worker : Heartbeat(w) \/ ExpireLease(w)
         \/ /\ UNCHANGED workerVars
            /\ \E p \in Sweeper : \/ ListStage(p) \/ JudgeStage(p) \/ SweepEnds(p)
                                  \/ ListExpired(p) \/ PurgeWorkers(p) \/ ListDisposable(p)
  PROVE  IInv'
<1>1. UNCHANGED workerVars /\ row' = row /\ disturbed \subseteq disturbed'
  BY DEF Heartbeat, ExpireLease, ReadAlive, SetWorkerTtl, LeaseExpires, ListStage, JudgeStage,
         SweepEnds, ListExpired, PurgeWorkers, ListDisposable
<1>2. \A p \in Sweeper : sweep'[p].todo \subseteq disturbed'
  <2>1. CASE sweep' = sweep
    BY <1>1, <2>1 DEF IInv, TodoDisturbed
  <2>2. ASSUME NEW q \in Sweeper, ListStage(q) \/ SweepEnds(q)
        PROVE  \A p \in Sweeper : sweep'[p].todo \subseteq disturbed'
    BY <2>2 DEF ListStage, SweepEnds, NoSweep, IInv, TodoDisturbed, TypeOK, HouseTypeOK
  <2>3. ASSUME NEW q \in Sweeper, JudgeStage(q)
        PROVE  \A p \in Sweeper : sweep'[p].todo \subseteq disturbed'
    BY <2>3 DEF JudgeStage, IInv, TodoDisturbed, TypeOK, HouseTypeOK
  <2> QED
    BY <2>1, <2>2, <2>3 DEF Heartbeat, ExpireLease, ReadAlive, SetWorkerTtl, LeaseExpires,
                            ListExpired, PurgeWorkers, ListDisposable
<1>3. \A v \in Worker, r \in Slot, t \in Task :
         /\ Holds(v, r, t)' <=> Holds(v, r, t)
         /\ Holds(v, r, t) => slot'[v][r].retry = slot[v][r].retry
  BY <1>1 DEF workerVars, Holds
<1> QED BY <1>1, <1>2, <1>3, QuietSteps DEF workerVars

\* A restore, and the discard of disposable tasks.
LEMMA RemedySteps ==
  ASSUME TypeOK, IInv, NEW p \in Sweeper, UNCHANGED workerVars,
         DiscardDisposable(p) \/ \E t \in Task : RestoreTask(p, t)
  PROVE  IInv'
<1>1. row \in [Task -> Row \cup {NoRow}]
  BY DEF TypeOK, TableTypeOK
<1>2. /\ disturbed \subseteq disturbed'
      /\ \A q \in Sweeper : sweep'[q].todo \subseteq sweep[q].todo
  BY DEF DiscardDisposable, RestoreTask, TypeOK, HouseTypeOK, Sweep
<1>3. \A v \in Worker, r \in Slot, t \in Task :
         /\ Holds(v, r, t)' <=> Holds(v, r, t)
         /\ slot'[v][r].retry = slot[v][r].retry
  BY DEF workerVars, Holds
<1>4. \A v \in Worker, t \in Task : HeldBy(v, t) => HeldBy(v, t)'
  BY <1>3 DEF HeldBy
<1>5. ASSUME NEW t \in Task
      PROVE  \/ row'[t] = row[t]
             \/ ~Known(t)' /\ (t \in disturbed' \/ ~Staged(t))
             \/ /\ t \in disturbed' /\ Known(t) /\ Known(t)' /\ ~row'[t].began
                /\ row'[t].outcome = row[t].outcome
                /\ row'[t].disposable = row[t].disposable
  <2>1. CASE DiscardDisposable(p)
    <3>1. CASE t \in trash[p]
      <4>1. ~Known(t)'
        BY <2>1, <3>1 DEF DiscardDisposable, DiscardTasks, DeleteTasks, Known
      <4>2. t \in disturbed' \/ ~Staged(t)
        BY <2>1, <3>1
        DEF DiscardDisposable, DisposableTasks, IInv, RowShape, Staged, Done, Known
      <4> QED BY <4>1, <4>2
    <3>2. CASE t \notin trash[p]
      <4>1. row' = DeleteTasks(row, trash[p])
        BY <2>1 DEF DiscardDisposable, DiscardTasks
      <4>2. row'[t] = row[t]
        BY <3>2, <4>1 DEF DeleteTasks
      <4> QED BY <4>2
    <3> QED BY <3>1, <3>2
  <2>2. ASSUME NEW u \in Task, RestoreTask(p, u)
        PROVE  \/ row'[t] = row[t]
               \/ /\ t \in disturbed' /\ Known(t) /\ Known(t)' /\ ~row'[t].began
                  /\ row'[t].outcome = row[t].outcome
                  /\ row'[t].disposable = row[t].disposable
    <3>1. CASE t # u \/ row[u] = NoRow
      BY <1>1, <2>2, <3>1 DEF RestoreTask, Restore, UpdateRestore
    <3>2. CASE t = u /\ row[u] # NoRow
      <4>1. t \in disturbed'
        BY <2>2, <3>2 DEF RestoreTask, IInv, TodoDisturbed
      <4>2. row'[t] = [row[t] EXCEPT !.began = FALSE] /\ row[t] \in Row
        BY <1>1, <2>2, <3>2 DEF RestoreTask, Restore, UpdateRestore
      <4>3. row'[t] \in Row
        BY <4>2 DEF Row
      <4> QED BY <3>2, <4>1, <4>2, <4>3, NoRowAssumption DEF Known, Row
    <3> QED BY <3>1, <3>2
  <2>3. CASE \E u \in Task : RestoreTask(p, u)
    BY <2>2, <2>3 DEF Known
  <2> QED BY <2>1, <2>3
<1>6. \A t \in Task :
         /\ Staged(t)' => /\ Staged(t) /\ row'[t].assignee = row[t].assignee
                          /\ row'[t].retry = row[t].retry
         /\ t \notin disturbed' /\ Staged(t) => Staged(t)'
         /\ Known(t)' /\ row'[t].disposable # "null" => Done(t)'
         /\ t \notin disturbed' /\ Done(t)' => row'[t].began
  BY <1>2, <1>5 DEF IInv, RowShape, SoundDone, Known, Staged, Done
<1>7. \A t \in Task \ disturbed' : \A v \in Worker, r \in Slot :
         Holds(v, r, t)' => Staged(t)'
  BY <1>2, <1>3, <1>6 DEF IInv, ExclusiveExecution
<1> QED
  BY <1>2, <1>3, <1>4, <1>6, <1>7, Carries DEF IInv, TodoDisturbed, workerVars

\* At the start no row, no claim and no sweep is there to contradict IInv.
LEMMA IInvInit == Init => IInv
<1> SUFFICES ASSUME Init PROVE IInv
  OBVIOUS
<1> QED
  BY DEF Init, TableInit, WorkersInit, HouseInit, IInv, RowShape, SoundDone,
         TodoDisturbed, NoSweep, NoOrphan, ExclusiveExecution, Known, Staged, Done, Holds

\* Every step keeps IInv, by the lemma of the group it belongs to.
LEMMA IInvStep == TypeOK /\ IInv /\ [Next]_vars => IInv'
<1> SUFFICES ASSUME TypeOK, IInv, [Next]_vars PROVE IInv'
  OBVIOUS
<1>1. ASSUME NEW t \in Task, Submit(t) \/ Clock(t) PROVE IInv'
  BY <1>1, ClientSteps
<1>2. ASSUME NEW w \in Worker, Heartbeat(w) \/ ExpireLease(w) PROVE IInv'
  BY <1>2, WatchSteps
<1>3. ASSUME NEW w \in Worker, Work(WorkerStep(w)) PROVE IInv'
  <2>1. UNCHANGED houseVars /\ WorkerStep(w)
    BY <1>3 DEF Work
  <2> QED BY <2>1, LoopSteps, ForgetSteps, ClaimSteps, FinishSteps DEF WorkerStep, FetchLoop
<1>4. ASSUME NEW w \in Worker, Work(Leave(w)) PROVE IInv'
  BY <1>4, LoopSteps, ForgetSteps DEF Work, Leave
<1>5. ASSUME NEW p \in Sweeper, Housekeep(HouseStep(p)) PROVE IInv'
  BY <1>5, WatchSteps, RemedySteps DEF Housekeep, HouseStep
<1>6. CASE UNCHANGED vars
  <2>1. \A v \in Worker, r \in Slot, t \in Task : Holds(v, r, t)' <=> Holds(v, r, t)
    BY <1>6 DEF vars, Holds
  <2> QED BY <1>6, <2>1, QuietSteps DEF vars, IInv, TodoDisturbed
<1> QED BY <1>1, <1>2, <1>3, <1>4, <1>5, <1>6 DEF Next

\* What all invariants of the fleet are drawn from.
LEMMA Invariance == Spec => [](TypeOK /\ IInv)
BY TypeInit, TypeStep, IInvInit, IInvStep, PTL DEF Spec

\* A staged task is always with its worker, or that worker crashed, or a call
\* to the backend about the task failed.
THEOREM NothingIsOrphaned == Spec => []NoOrphan
BY Invariance, PTL DEF IInv

\* A task no service interfered with runs in at most one slot of the fleet,
\* which is the one its row names.
THEOREM ExecutionIsExclusive == Spec => []ExclusiveExecution
BY Invariance, PTL DEF IInv

-----------------------------------------------------------------------------
(* Outcomes stand and attempts only move forward.                          *)

\* What OutcomesAndAttemptsStand says, of one step and one task.
LEMMA OutcomeStep ==
  ASSUME TypeOK, IInv, [Next]_vars, NEW t \in Task \ disturbed'
  PROVE  /\ Done(t) => \/ Known(t)' /\ row'[t].outcome = row[t].outcome
                       \/ row[t].disposable = "past"
         /\ Known(t) /\ row[t].began /\ Queued(t)' => row'[t].retry = row[t].retry + 1
<1> DEFINE Goal == /\ Done(t) => \/ Known(t)' /\ row'[t].outcome = row[t].outcome
                                 \/ row[t].disposable = "past"
                   /\ Known(t) /\ row[t].began /\ Queued(t)'
                         => row'[t].retry = row[t].retry + 1
<1>0. ASSUME row'[t] = row[t] PROVE Goal
  BY <1>0 DEF Done, Known, Queued
<1>1. ASSUME NEW u \in Task, Submit(u) \/ Clock(u) PROVE Goal
  <2>1. row \in [Task -> Row \cup {NoRow}]
    BY DEF TypeOK, TableTypeOK
  <2>2. CASE t # u \/ Submit(u)
    <3>1. row'[t] = row[t] \/ ~Known(t)
      BY <1>1, <2>1, <2>2 DEF Submit, PutTasks, UpsertTasks, Clock, BecomesDue,
                              BecomesDisposable, Known
    <3> QED BY <1>0, <3>1 DEF Done
  <2>3. CASE t = u /\ Clock(u)
    <3>1. Known(t) /\ row[t] \in Row
      BY <2>1, <2>3 DEF Clock, BecomesDue, BecomesDisposable, Known
    <3>2. \/ row'[t] = [row[t] EXCEPT !.due = TRUE]
          \/ row'[t] = [row[t] EXCEPT !.disposable = "past"]
      BY <2>1, <2>3 DEF Clock, BecomesDue, BecomesDisposable
    <3>3. row'[t] \in Row /\ row'[t].outcome = row[t].outcome
          /\ row'[t].began = row[t].began
      BY <3>1, <3>2 DEF Row
    <3> QED BY <3>3, NoRowAssumption DEF Known, Queued
  <2> QED BY <1>1, <2>2, <2>3
<1>2. ASSUME NEW w \in Worker, NEW u \in Task, AssignTask(u, w) PROVE Goal
  <2>1. CASE t # u
    BY <1>0, <1>2, <2>1, ClaimedRow
  <2>2. CASE t = u
    <3>1. Known(t)' /\ row'[t].began /\ row'[t].outcome = row[t].outcome
      BY <1>2, <2>2, ClaimedRow
    <3> QED BY <3>1 DEF Queued
  <2> QED BY <2>1, <2>2
<1>3. ASSUME NEW w \in Worker, NEW s \in Slot, HandleTask(w, s), UNCHANGED houseVars
      PROVE  Goal
  <2>1. Running(w, s)
    BY <1>3 DEF HandleTask, FinishOk, FinishFatal, FinishDiscard, FinishRetry, FinishFails
  <2>2. PICK u \in Task : u = slot[w][s].task
    BY <2>1 DEF Running, TypeOK, WorkersTypeOK, Held
  <2>3. CASE t # u
    BY <1>0, <1>3, <2>2, <2>3, FinishedRow
  <2>4. CASE t = u
    <3>1. Staged(t) /\ row[t].retry = slot[w][s].retry
      BY <1>3, <2>1, <2>2, <2>4 DEF IInv, ExclusiveExecution, Running, Holds, houseVars
    <3>2. CASE FinishRetry(w, s)
      <4>1. PICK due \in BOOLEAN : RetryTask(t, slot[w][s].retry + 1, due)
        BY <2>2, <2>4, <3>2 DEF FinishRetry
      <4>2. row'[t] = FromTaskRecord(slot[w][s].retry + 1, due)
        BY <4>1 DEF RetryTask, UpsertTasks, DeleteTasks
      <4> QED BY <3>1, <4>2 DEF FromTaskRecord, Staged, Done
    <3>3. CASE FinishOk(w, s) \/ FinishFatal(w, s)
      <4>1. PICK o \in {"result", "error"} : row' = UpdateTaskDone(row, t, o)
        BY <2>2, <2>4, <3>3 DEF FinishOk, FinishFatal, Succeed, Fail
      <4>2. row[t] \in Row
        BY <3>1 DEF Staged, Known, TypeOK, TableTypeOK
      <4>3. row'[t] = [row[t] EXCEPT !.began = TRUE, !.outcome = o, !.disposable = "kept"]
        BY <3>1, <4>1 DEF UpdateTaskDone, Staged, Known, TypeOK, TableTypeOK
      <4>4. row'[t].began
        BY <4>2, <4>3 DEF Row
      <4> QED BY <3>1, <4>4 DEF Staged, Done, Queued
    <3>4. CASE FinishDiscard(w, s)
      BY <2>2, <2>4, <3>1, <3>4
      DEF FinishDiscard, DiscardTasks, DeleteTasks, Staged, Done, Queued, Known
    <3>5. CASE FinishFails(w, s)
      BY <1>0, <3>5 DEF FinishFails
    <3> QED BY <1>3, <3>2, <3>3, <3>4, <3>5 DEF HandleTask
  <2> QED BY <2>3, <2>4
<1>4. ASSUME NEW p \in Sweeper, NEW u \in Task, RestoreTask(p, u) PROVE Goal
  <2>1. t # u
    BY <1>4 DEF RestoreTask, IInv, TodoDisturbed
  <2>2. row'[t] = row[t]
    BY <1>4, <2>1 DEF RestoreTask, Restore, UpdateRestore, TypeOK, TableTypeOK
  <2> QED BY <1>0, <2>2
<1>5. ASSUME NEW p \in Sweeper, DiscardDisposable(p) PROVE Goal
  <2>1. CASE t \notin trash[p]
    <3>1. row'[t] = row[t]
      BY <1>5, <2>1 DEF DiscardDisposable, DiscardTasks, DeleteTasks
    <3> QED BY <1>0, <3>1
  <2>2. CASE t \in trash[p]
    BY <1>5, <2>2 DEF DiscardDisposable, DiscardTasks, DeleteTasks, DisposableTasks,
                      Done, Known, Queued
  <2> QED BY <2>1, <2>2
<1>6. ASSUME row' = row PROVE Goal
  BY <1>0, <1>6
<1>7. ASSUME NEW w \in Worker, Work(WorkerStep(w)) \/ Work(Leave(w)) PROVE Goal
  <2>1. ASSUME NEW u \in Task, ClaimTask(w, u) \/ ClaimLost(w, u) PROVE AssignTask(u, w)
    BY <2>1 DEF ClaimTask, ClaimLost
  <2>2. ASSUME \/ Spawn(w) \/ Exit(w) \/ Stop(w) \/ Crash(w) \/ BeginAssign(w)
               \/ ListDue(w) \/ Dispatch(w) \/ AssignFails(w)
               \/ \E u \in Task : SkipTask(w, u)
        PROVE  row' = row
    BY <2>2 DEF Spawn, Exit, Stop, Crash, BeginAssign, ListDue, Dispatch, AssignFails,
                SkipTask
  <2> QED BY <1>2, <1>3, <1>6, <1>7, <2>1, <2>2 DEF Work, WorkerStep, FetchLoop, Leave
<1>8. ASSUME NEW p \in Sweeper, Housekeep(HouseStep(p)) PROVE Goal
  <2>1. ASSUME \/ ListStage(p) \/ JudgeStage(p) \/ SweepEnds(p) \/ ListExpired(p)
               \/ PurgeWorkers(p) \/ ListDisposable(p)
        PROVE  row' = row
    BY <2>1 DEF ListStage, JudgeStage, SweepEnds, ListExpired, PurgeWorkers,
                ListDisposable
  <2> QED BY <1>4, <1>5, <1>6, <1>8, <2>1 DEF Housekeep, HouseStep
<1>9. ASSUME NEW w \in Worker, Heartbeat(w) \/ ExpireLease(w) PROVE Goal
  BY <1>6, <1>9 DEF Heartbeat, ExpireLease, ReadAlive, SetWorkerTtl, LeaseExpires
<1>10. CASE UNCHANGED vars
  BY <1>6, <1>10 DEF vars
<1> QED BY <1>1, <1>7, <1>8, <1>9, <1>10 DEF Next

\* The outcome of an undisturbed task stands until its TTL has passed, and its
\* attempts are never run a second time.
THEOREM OutcomesStand == Spec => OutcomesAndAttemptsStand
<1>1. TypeOK /\ IInv /\ [Next]_vars =>
         [\A t \in Task \ disturbed' :
             /\ Done(t) => \/ Known(t)' /\ row'[t].outcome = row[t].outcome
                           \/ row[t].disposable = "past"
             /\ Known(t) /\ row[t].began /\ Queued(t)'
                   => row'[t].retry = row[t].retry + 1]_vars
  BY OutcomeStep
<1> QED BY <1>1, Invariance, PTL DEF Spec, OutcomesAndAttemptsStand

-----------------------------------------------------------------------------
(* The permits.                                                            *)

\* No step lets a claim outgrow the permits that cover it.
LEMMA PermitsStep ==
  ASSUME TypeOK, TypeOK', PermitsCoverClaims, [Next]_vars
  PROVE  PermitsCoverClaims'
<1> SUFFICES ASSUME NEW w \in Worker
             PROVE  Cardinality(FreeSlots(w)') >= call'[w].limit
  BY DEF PermitsCoverClaims
<1> USE DEF TypeOK, WorkersTypeOK
<1>1. /\ IsFiniteSet(FreeSlots(w)) /\ IsFiniteSet(FreeSlots(w)')
      /\ Cardinality(FreeSlots(w)) \in Nat /\ Cardinality(FreeSlots(w)') \in Nat
      /\ Cardinality(FreeSlots(w)) >= call[w].limit
      /\ call[w] \in Call /\ call[w].limit \in Nat
  <2>1. IsFiniteSet(FreeSlots(w)) /\ IsFiniteSet(FreeSlots(w)')
    BY SlotAssumption, FS_Subset DEF FreeSlots
  <2>2. Cardinality(Slot) \in Nat
    BY SlotAssumption, FS_CardinalityType
  <2> QED BY <2>1, <2>2, FS_CardinalityType DEF PermitsCoverClaims, Call
<1>2. ASSUME \A s \in Slot : slot[w][s] = Free => slot'[w][s] = Free,
             call'[w].limit = call[w].limit
      PROVE  Cardinality(FreeSlots(w)') >= call'[w].limit
  <2>1. FreeSlots(w) \subseteq FreeSlots(w)'
    BY <1>2 DEF FreeSlots
  <2>2. Cardinality(FreeSlots(w)) <= Cardinality(FreeSlots(w)')
    BY <1>1, <2>1, FS_Subset
  <2> QED BY <1>1, <1>2, <2>2
<1>3. ASSUME call'[w] = NoCall
      PROVE  Cardinality(FreeSlots(w)') >= call'[w].limit
  BY <1>1, <1>3 DEF NoCall
<1>4. ASSUME NEW v \in Worker, Work(WorkerStep(v)) \/ Work(Leave(v))
      PROVE  Cardinality(FreeSlots(w)') >= call'[w].limit
  <2>1. CASE v # w
    <3>1. slot'[w] = slot[w] /\ call'[w] = call[w]
      BY <1>4, <2>1
      DEF Work, Leave, WorkerStep, FetchLoop, Spawn, Stop, Exit, Crash, BeginAssign,
          ListDue, ClaimTask, SkipTask, Dispatch, ForgetClaims, AssignFails, ClaimLost,
          HandleTask, FinishOk, FinishFatal, FinishDiscard, FinishRetry, FinishFails,
          FreeSlot
    <3> QED BY <1>2, <3>1
  <2>2. CASE v = w
    <3>1. CASE Spawn(w) \/ Stop(w) \/ Exit(w)
      BY <1>2, <3>1 DEF Spawn, Stop, Exit
    <3>2. CASE Crash(w) \/ Dispatch(w) \/ AssignFails(w) \/ \E t \in Task : ClaimLost(w, t)
      BY <1>3, <3>2 DEF Crash, Dispatch, AssignFails, ClaimLost, ForgetClaims
    <3>3. CASE BeginAssign(w)
      <4>1. call'[w] = [limit |-> Cardinality(FreeSlots(w)), scan |-> 0,
                        full |-> TRUE, ids |-> {}]
        BY <3>3 DEF BeginAssign
      <4>2. FreeSlots(w)' = FreeSlots(w)
        BY <3>3 DEF BeginAssign, FreeSlots
      <4> QED BY <1>1, <4>1, <4>2
    <3>4. CASE ListDue(w) \/ \E t \in Task : SkipTask(w, t)
      <4>1. slot' = slot /\ call'[w].limit = call[w].limit
        BY <1>1, <3>4 DEF ListDue, SkipTask, Call
      <4> QED BY <1>2, <4>1
    <3>5. ASSUME NEW t \in Task, ClaimTask(w, t)
          PROVE  Cardinality(FreeSlots(w)') >= call'[w].limit
      <4>1. PICK s \in FreeSlots(w) :
               slot' = [slot EXCEPT ![w][s] =
                          [task |-> t, retry |-> row[t].retry, running |-> FALSE]]
        BY <3>5 DEF ClaimTask
      <4>2. \A r \in Slot \ {s} : slot'[w][r] = slot[w][r]
        BY <4>1 DEF FreeSlots
      <4>3. FreeSlots(w) \ {s} \subseteq FreeSlots(w)'
        BY <4>2 DEF FreeSlots
      <4>4. Cardinality(FreeSlots(w) \ {s}) = Cardinality(FreeSlots(w)) - 1
        BY <1>1, FS_RemoveElement
      <4>5. Cardinality(FreeSlots(w) \ {s}) <= Cardinality(FreeSlots(w)')
        BY <1>1, <4>3, FS_Subset
      <4>6. call'[w].limit = call[w].limit - 1
        BY <1>1, <3>5 DEF ClaimTask, Call
      <4> QED BY <1>1, <4>4, <4>5, <4>6
    <3>6. ASSUME NEW s \in Slot, HandleTask(w, s)
          PROVE  Cardinality(FreeSlots(w)') >= call'[w].limit
      <4>1. FreeSlot(w, s) /\ call' = call
        BY <3>6 DEF HandleTask, FinishOk, FinishFatal, FinishDiscard, FinishRetry,
                    FinishFails
      <4>2. \A r \in Slot : slot[w][r] = Free => slot'[w][r] = Free
        BY <4>1 DEF FreeSlot
      <4> QED BY <1>2, <4>1, <4>2
    <3> QED
      BY <1>4, <2>2, <3>1, <3>2, <3>3, <3>4, <3>5, <3>6
      DEF Work, WorkerStep, FetchLoop, Leave
  <2> QED BY <2>1, <2>2
<1>5. CASE UNCHANGED workerVars
  <2>1. slot' = slot /\ call' = call
    BY <1>5 DEF workerVars
  <2> QED BY <1>2, <2>1
<1>6. CASE UNCHANGED vars
  BY <1>5, <1>6 DEF vars, workerVars
<1> QED
  BY <1>4, <1>5, <1>6 DEF Next, Submit, Clock, Heartbeat, ExpireLease, Housekeep

\* A worker that fills its batch has a permit for every task it may yet claim
\* (runner.rs: "the free count cannot shrink").
THEOREM PermitsCover == Spec => []PermitsCoverClaims
<1>1. Init => PermitsCoverClaims
  <2> SUFFICES ASSUME Init, NEW w \in Worker
               PROVE  Cardinality(FreeSlots(w)) >= call[w].limit
    BY DEF PermitsCoverClaims
  <2>1. FreeSlots(w) = Slot /\ call[w].limit = 0
    BY DEF Init, WorkersInit, FreeSlots, NoCall
  <2>2. Cardinality(Slot) \in Nat
    BY SlotAssumption, FS_CardinalityType
  <2> QED BY <2>1, <2>2
<1>2. TypeOK /\ TypeOK' /\ PermitsCoverClaims /\ [Next]_vars => PermitsCoverClaims'
  BY PermitsStep
<1> QED BY <1>1, <1>2, TypeCorrect, PTL DEF Spec

-----------------------------------------------------------------------------
(* The discard of old results.                                             *)

\* What a sweep listed as disposable still is, unless a service interfered.
TrashIsDisposable ==
    \A p \in Sweeper : \A t \in trash[p] \ disturbed : t \in DisposableTasks

\* An undisturbed disposable task is done: nobody holds it, and no step but the
\* discard itself changes its row.
LEMMA DisposableStays ==
  ASSUME TypeOK, IInv, [Next]_vars, NEW t \in Task \ disturbed', t \in DisposableTasks
  PROVE  \/ t \in DisposableTasks'
         \/ \E p \in Sweeper : DiscardDisposable(p) /\ t \in trash[p]
<1> USE DEF TypeOK
<1>1. Known(t) /\ row[t].disposable = "past" /\ row[t] \in Row
  BY DEF DisposableTasks, TableTypeOK, Known
<1>2. ASSUME t \notin disturbed
      PROVE  /\ ~Queued(t) /\ ~Staged(t) /\ row[t].began
             /\ \A w \in Worker, s \in Slot : ~Holds(w, s, t)
  <2>1. Done(t) /\ row[t].began
    BY <1>1, <1>2 DEF IInv, RowShape, SoundDone
  <2> QED BY <1>2, <2>1 DEF Done, Queued, Staged, IInv, ExclusiveExecution
<1>3. disturbed \subseteq disturbed'
  BY DEF Next, Submit, Clock, Heartbeat, ExpireLease, Work, Housekeep, HouseStep,
         ReadAlive, SetWorkerTtl, LeaseExpires, ListStage, JudgeStage, SweepEnds,
         RestoreTask, ListExpired, PurgeWorkers, ListDisposable, DiscardDisposable,
         houseVars, vars
<1>4. t \notin disturbed
  BY <1>3
<1>5. ASSUME row'[t] = row[t] PROVE t \in DisposableTasks'
  BY <1>1, <1>5 DEF DisposableTasks, Known
<1>6. ASSUME NEW u \in Task, Submit(u) \/ Clock(u) PROVE t \in DisposableTasks'
  <2>1. CASE row'[t] = row[t]
    BY <1>5, <2>1
  <2>2. CASE row'[t] # row[t]
    <3>1. row'[t] = [row[t] EXCEPT !.due = TRUE]
      BY <1>1, <1>6, <2>2 DEF Submit, PutTasks, UpsertTasks, Clock, BecomesDue,
                              BecomesDisposable, TableTypeOK, Known
    <3>2. row'[t] \in Row /\ row'[t].disposable = "past"
      BY <1>1, <3>1 DEF Row
    <3> QED BY <3>2, NoRowAssumption DEF DisposableTasks, Known
  <2> QED BY <2>1, <2>2
<1>7. ASSUME NEW w \in Worker, Work(WorkerStep(w)) \/ Work(Leave(w))
      PROVE  t \in DisposableTasks'
  <2>1. ASSUME NEW u \in Task, ClaimTask(w, u) \/ ClaimLost(w, u)
        PROVE  t \in DisposableTasks'
    <3>1. AssignTask(u, w)
      BY <2>1 DEF ClaimTask, ClaimLost
    <3>2. t # u
      BY <1>2, <1>4, <3>1 DEF AssignTask
    <3> QED BY <1>5, <3>1, <3>2, ClaimedRow
  <2>2. ASSUME \/ Spawn(w) \/ Exit(w) \/ Stop(w) \/ Crash(w) \/ BeginAssign(w)
               \/ ListDue(w) \/ Dispatch(w) \/ AssignFails(w)
               \/ \E u \in Task : SkipTask(w, u)
        PROVE  t \in DisposableTasks'
    BY <1>5, <2>2 DEF Spawn, Exit, Stop, Crash, BeginAssign, ListDue, Dispatch,
                      AssignFails, SkipTask
  <2>3. ASSUME NEW s \in Slot, HandleTask(w, s), UNCHANGED houseVars
        PROVE  t \in DisposableTasks'
    <3>1. Running(w, s)
      BY <2>3 DEF HandleTask, FinishOk, FinishFatal, FinishDiscard, FinishRetry, FinishFails
    <3>2. PICK u \in Task : u = slot[w][s].task
      BY <3>1 DEF Running, WorkersTypeOK, Held
    <3>3. t # u
      BY <1>2, <1>4, <3>1, <3>2 DEF Running, Holds
    <3> QED BY <1>5, <2>3, <3>2, <3>3, FinishedRow
  <2> QED BY <1>7, <2>1, <2>2, <2>3 DEF Work, WorkerStep, FetchLoop, Leave
<1>8. ASSUME NEW p \in Sweeper, Housekeep(HouseStep(p)), ~(DiscardDisposable(p) /\ t \in trash[p])
      PROVE  t \in DisposableTasks'
  <2>1. CASE DiscardDisposable(p)
    BY <1>5, <1>8, <2>1 DEF DiscardDisposable, DiscardTasks, DeleteTasks
  <2>2. ASSUME NEW u \in Task, RestoreTask(p, u) PROVE t \in DisposableTasks'
    <3>1. t # u
      BY <1>4, <2>2 DEF RestoreTask, IInv, TodoDisturbed
    <3>2. row'[t] = row[t]
      BY <2>2, <3>1 DEF RestoreTask, Restore, UpdateRestore, TableTypeOK
    <3> QED BY <1>5, <3>2
  <2>3. ASSUME \/ ListStage(p) \/ JudgeStage(p) \/ SweepEnds(p) \/ ListExpired(p)
               \/ PurgeWorkers(p) \/ ListDisposable(p)
        PROVE  t \in DisposableTasks'
    BY <1>5, <2>3 DEF ListStage, JudgeStage, SweepEnds, ListExpired, PurgeWorkers,
                      ListDisposable
  <2> QED BY <1>8, <2>1, <2>2, <2>3 DEF Housekeep, HouseStep
<1>9. ASSUME NEW w \in Worker, Heartbeat(w) \/ ExpireLease(w) PROVE t \in DisposableTasks'
  BY <1>5, <1>9 DEF Heartbeat, ExpireLease, ReadAlive, SetWorkerTtl, LeaseExpires
<1>10. CASE UNCHANGED vars
  BY <1>5, <1>10 DEF vars
<1> QED
  BY <1>6, <1>7, <1>8, <1>9, <1>10
  DEF Next, Housekeep, HouseStep

\* While one process at a time runs the discard, its list stays true.
LEMMA TrashStep ==
  ASSUME \A p, q \in Sweeper : p = q,
         TypeOK, IInv, TrashIsDisposable, [Next]_vars
  PROVE  TrashIsDisposable'
<1> SUFFICES ASSUME NEW p \in Sweeper, NEW t \in trash'[p], t \notin disturbed'
             PROVE  t \in DisposableTasks'
  BY DEF TrashIsDisposable
<1> USE DEF TypeOK, HouseTypeOK
<1>1. CASE trash' = trash
  <2>1. t \in Task
    BY <1>1
  <2>2. \A q \in Sweeper : ~(DiscardDisposable(q) /\ t \in trash[q])
    BY <1>1 DEF DiscardDisposable
  <2>3. t \notin disturbed
    BY DEF Next, Submit, Clock, Heartbeat, ExpireLease, Work, Housekeep, HouseStep,
           ReadAlive, SetWorkerTtl, LeaseExpires, ListStage, JudgeStage, SweepEnds,
           RestoreTask, ListExpired, PurgeWorkers, ListDisposable, DiscardDisposable,
           houseVars, vars
  <2>4. t \in DisposableTasks
    BY <1>1, <2>3 DEF TrashIsDisposable
  <2> QED BY <2>1, <2>2, <2>4, DisposableStays
<1>2. CASE ListDisposable(p)
  <2>1. trash'[p] \subseteq DisposableTasks /\ row' = row
    BY <1>2 DEF ListDisposable
  <2> QED BY <2>1 DEF DisposableTasks, Known
<1>3. CASE DiscardDisposable(p)
  BY <1>3 DEF DiscardDisposable
<1>4. CASE \E q \in Sweeper : ListDisposable(q) \/ DiscardDisposable(q)
  BY <1>2, <1>3, <1>4
<1> QED
  BY <1>1, <1>4
  DEF Next, Submit, Clock, Heartbeat, ExpireLease, Work, Housekeep, HouseStep,
      ReadAlive, SetWorkerTtl, LeaseExpires, ListStage, JudgeStage, SweepEnds,
      RestoreTask, ListExpired, PurgeWorkers, houseVars, vars

\* With the lock of DiscardDisposableTasks held by one process, what it deletes is
\* past its TTL, however long it takes between listing and deleting (service.rs).
THEOREM DiscardIsSafeAlone ==
  ASSUME \A p, q \in Sweeper : p = q
  PROVE  Spec => DiscardIsSafe
<1>1. Init => TrashIsDisposable
  BY DEF Init, HouseInit, TrashIsDisposable
<1>2. TypeOK /\ IInv /\ TrashIsDisposable /\ [Next]_vars => TrashIsDisposable'
  BY TrashStep
<1>3. TrashIsDisposable =>
         [\A p \in Sweeper : DiscardDisposable(p) =>
             \A t \in trash[p] \ disturbed : Known(t) => t \in DisposableTasks]_vars
  BY DEF TrashIsDisposable
<1> QED BY <1>1, <1>2, <1>3, Invariance, PTL DEF Spec, DiscardIsSafe

-----------------------------------------------------------------------------
(* Heartbeats in time.                                                     *)

\* A worker is registered only once it runs; what has expired, or is about to be
\* purged, is the registration of a worker that was told to stop or is gone.
LeasesInTime ==
    \A w \in Worker :
       /\ phase[w] = "new" => lease[w] = "none" /\ w \notin beat
       /\ lease[w] = "expired" => phase[w] \notin {"new", "up"}
       /\ \A p \in Sweeper : w \in purge[p] => phase[w] \notin {"new", "up"}

\* The life of a process goes one way.
LEMMA PhaseGoesOn ==
  ASSUME TypeOK, [Next]_vars, NEW w \in Worker
  PROVE  /\ phase'[w] = "new" => phase[w] = "new"
         /\ phase'[w] = "up" => phase[w] \in {"new", "up"}
<1> USE DEF TypeOK, WorkersTypeOK
<1>1. ASSUME NEW v \in Worker, Work(WorkerStep(v))
      PROVE  /\ phase'[w] = "new" => phase[w] = "new"
             /\ phase'[w] = "up" => phase[w] \in {"new", "up"}
  BY <1>1 DEF Work, WorkerStep, Spawn, FetchLoop, BeginAssign, ListDue, SkipTask, Dispatch, Exit,
              AssignFails, ClaimTask, ClaimLost, HandleTask, FinishOk, FinishFatal,
              FinishDiscard, FinishRetry, FinishFails
<1>2. ASSUME NEW v \in Worker, Work(Leave(v))
      PROVE  /\ phase'[w] = "new" => phase[w] = "new"
             /\ phase'[w] = "up" => phase[w] \in {"new", "up"}
  BY <1>2 DEF Work, Leave, Stop, Crash
<1>3. CASE phase' = phase
  BY <1>3
<1> QED BY <1>1, <1>2, <1>3
        DEF Next, Submit, Clock, Heartbeat, ExpireLease, Housekeep, workerVars, vars

\* What a step does to the registrations, to the heartbeats on their way and to
\* what a purge has read.
LEMMA LeaseSteps ==
  ASSUME TypeOK, [Next]_vars, Timely
  PROVE  /\ \A w \in Worker :
              \/ lease'[w] = lease[w]
              \/ lease'[w] = "valid" /\ w \in beat
              \/ lease'[w] = "expired" /\ phase[w] # "up" /\ lease[w] = "valid" /\ phase'[w] = phase[w]
              \/ lease'[w] = "none" /\ (\E p \in Sweeper : w \in purge[p])
         /\ \A w \in beat' : w \in beat \/ (phase[w] = "up" /\ phase'[w] = phase[w])
         /\ \A p \in Sweeper : \A w \in purge'[p] : 
              \/ w \in purge[p]
              \/ w \in Worker /\ lease[w] = "expired" /\ phase'[w] = phase[w]
<1> DEFINE Goal ==
      /\ \A w \in Worker :
           \/ lease'[w] = lease[w]
           \/ lease'[w] = "valid" /\ w \in beat
           \/ lease'[w] = "expired" /\ phase[w] # "up" /\ lease[w] = "valid" /\ phase'[w] = phase[w]
           \/ lease'[w] = "none" /\ (\E p \in Sweeper : w \in purge[p])
      /\ \A w \in beat' : w \in beat \/ (phase[w] = "up" /\ phase'[w] = phase[w])
      /\ \A p \in Sweeper : \A w \in purge'[p] :
           \/ w \in purge[p]
           \/ w \in Worker /\ lease[w] = "expired" /\ phase'[w] = phase[w]
<1> USE DEF TypeOK, HouseTypeOK
<1>1. CASE UNCHANGED <<lease, beat, purge>>
  BY <1>1
<1>2. ASSUME NEW w \in Worker, Heartbeat(w) PROVE Goal
  BY <1>2 DEF Heartbeat, Alive, ReadAlive, SetWorkerTtl, workerVars
<1>3. ASSUME NEW w \in Worker, ExpireLease(w) PROVE Goal
  BY <1>3 DEF ExpireLease, LeaseExpires, workerVars
<1>4. ASSUME NEW p \in Sweeper, Housekeep(HouseStep(p)) PROVE Goal
  <2>1. CASE Housekeep(ListExpired(p))
    BY <2>1 DEF Housekeep, ListExpired, workerVars
  <2>2. CASE PurgeWorkers(p)
    BY <2>2 DEF PurgeWorkers
  <2> QED BY <1>1, <1>4, <2>1, <2>2
          DEF Housekeep, HouseStep, ListStage, JudgeStage, SweepEnds, RestoreTask,
              ListDisposable, DiscardDisposable
<1> QED BY <1>1, <1>2, <1>3, <1>4
        DEF Next, Submit, Clock, Work, houseVars, vars

\* Each step keeps that so.
LEMMA LeasesStayInTime ==
  ASSUME TypeOK, LeasesInTime, [Next]_vars, Timely
  PROVE  LeasesInTime'
<1> SUFFICES ASSUME NEW w \in Worker
             PROVE  /\ phase'[w] = "new" => lease'[w] = "none" /\ w \notin beat'
                    /\ lease'[w] = "expired" => phase'[w] \notin {"new", "up"}
                    /\ \A p \in Sweeper : w \in purge'[p] => phase'[w] \notin {"new", "up"}
  BY DEF LeasesInTime
<1>1. /\ phase'[w] = "new" => phase[w] = "new"
      /\ phase'[w] = "up" => phase[w] \in {"new", "up"}
  BY PhaseGoesOn
<1>2. /\ phase[w] = "new" => lease[w] = "none" /\ w \notin beat
      /\ lease[w] = "expired" => phase[w] \notin {"new", "up"}
      /\ \A p \in Sweeper : w \in purge[p] => phase[w] \notin {"new", "up"}
  BY DEF LeasesInTime
<1>3. phase[w] = "new" => lease'[w] = "none" /\ w \notin beat'
  BY <1>2, LeaseSteps
<1>4. lease'[w] = "expired" => phase'[w] \notin {"new", "up"}
  BY <1>1, <1>2, LeaseSteps
<1>5. ASSUME NEW p \in Sweeper, w \in purge'[p] PROVE phase'[w] \notin {"new", "up"}
  BY <1>1, <1>2, <1>5, LeaseSteps
<1> QED BY <1>1, <1>3, <1>4, <1>5

\* Where heartbeats are in time, no purge deletes the registration of a worker that
\* runs, however long it holds what it read, for any number of workers and of
\* processes that purge (service.rs, PurgeDeadWorkers and RefreshWorkerLifetime).
THEOREM RunningWorkersListed == Spec => RunningWorkersStayListed
<1>1. Init => LeasesInTime
  BY DEF Init, WorkersInit, HouseInit, LeasesInTime
<1>2. Timely /\ TypeOK /\ LeasesInTime /\ [Next]_vars => LeasesInTime'
  BY LeasesStayInTime
<1>3. TypeOK /\ LeasesInTime /\ [Next]_vars
      => [Timely => \A w \in Worker :
             phase[w] = "up" /\ lease[w] = "valid" => lease'[w] = "valid"]_vars
  <2> SUFFICES ASSUME TypeOK, LeasesInTime, [Next]_vars, Timely, NEW w \in Worker,
                      phase[w] = "up", lease[w] = "valid"
               PROVE  lease'[w] = "valid"
    OBVIOUS
  <2>1. \A p \in Sweeper : w \notin purge[p]
    BY DEF LeasesInTime
  <2> QED BY <2>1, LeaseSteps
<1>4. CASE Timely
  BY <1>1, <1>2, <1>3, <1>4, Invariance, PTL DEF Spec, RunningWorkersStayListed
<1>5. CASE ~Timely
  <2>1. [Next]_vars => [Timely => \A w \in Worker :
           phase[w] = "up" /\ lease[w] = "valid" => lease'[w] = "valid"]_vars
    BY <1>5
  <2> QED BY <2>1, PTL DEF Spec, RunningWorkersStayListed
<1> QED BY <1>4, <1>5

-----------------------------------------------------------------------------
(* The fleet implements the contract of TaskContract.                      *)

\* What a client sees of the fleet: the values of the contract's variables.
statusBar == [t \in Task |-> Status(t)]
runsBar   == [t \in Task |-> Runs(t)]
soundBar  == Task \ disturbed

\* The status of a task is a function of its row.
LEMMA StatusCases ==
  ASSUME NEW t \in Task
  PROVE  /\ Status(t) = "absent" <=> ~Known(t)
         /\ Status(t) = "queued" <=> Queued(t)
         /\ Status(t) = "started" <=> Staged(t)
         /\ Status(t) = "settled" <=> Done(t) /\ row[t].began
         /\ Status(t) \in {"absent", "queued", "started", "settled"}
BY DEF Status, Known, Queued, Staged, Done

\* The same after a step.
LEMMA StatusCasesNext ==
  ASSUME NEW t \in Task
  PROVE  /\ Status(t)' = "absent" <=> ~Known(t)'
         /\ Status(t)' = "queued" <=> Queued(t)'
         /\ Status(t)' = "started" <=> Staged(t)'
         /\ Status(t)' = "settled" <=> Done(t)' /\ row'[t].began
         /\ Status(t)' \in {"absent", "queued", "started", "settled"}
         /\ row'[t] = row[t] => Status(t)' = Status(t)
BY DEF Status, Known, Queued, Staged, Done

\* A fleet that has not begun is a contract that has not begun.
LEMMA ContractInit == Init => Contract!Init
<1> SUFFICES ASSUME Init PROVE Contract!Init
  OBVIOUS
<1>1. \A t \in Task : Status(t) = "absent"
  BY StatusCases DEF Init, TableInit, Known
<1>2. \A t \in Task : Runs(t) = {}
  BY DEF Init, WorkersInit, Runs, Holds
<1>3. disturbed = {}
  BY DEF Init, HouseInit
<1> QED BY <1>1, <1>2, <1>3 DEF Contract!Init

\* Steps that show nothing to a client.
LEMMA ContractStutter ==
  ASSUME \A t \in Task : Status(t)' = Status(t) /\ Runs(t)' = Runs(t),
         disturbed' = disturbed
  PROVE  UNCHANGED Contract!vars
BY DEF Contract!vars

\* When no slot changes, no execution starts or ends.
LEMMA RunsKept ==
  ASSUME slot' = slot, NEW t \in Task
  PROVE  Runs(t)' = Runs(t)
BY DEF Runs, Holds

\* A submission is Submit of the contract, or shows nothing.
LEMMA ContractClient ==
  ASSUME TypeOK, NEW t \in Task, Submit(t) \/ Clock(t)
  PROVE  Contract!Submit(t) \/ UNCHANGED Contract!vars
<1>1. slot' = slot /\ disturbed' = disturbed
  BY DEF Submit, Clock, workerVars, houseVars
<1>2. row \in [Task -> Row \cup {NoRow}]
  BY DEF TypeOK, TableTypeOK
<1>3. \A u \in Task \ {t} : row'[u] = row[u]
  BY <1>2 DEF Submit, PutTasks, UpsertTasks, Clock, BecomesDue, BecomesDisposable
<1>4. CASE row'[t] = row[t]
  BY <1>1, <1>3, <1>4, RunsKept, StatusCasesNext, ContractStutter
<1>5. CASE Submit(t) /\ row'[t] # row[t]
  <2>1. PICK due \in BOOLEAN : row' = UpsertTasks(row, {t}, FromTaskRecord(0, due))
    BY <1>5 DEF Submit, PutTasks
  <2>2. ~Known(t) /\ row'[t] = FromTaskRecord(0, due)
    BY <1>5, <2>1 DEF UpsertTasks, Known
  <2>3. FromTaskRecord(0, due) \in Row
    BY MaxRetryAssumption DEF FromTaskRecord, Row, Outcome, Attempt
  <2>4. Queued(t)'
    <3>1. row'[t] # NoRow
      BY <2>2, <2>3, NoRowAssumption
    <3>2. FromTaskRecord(0, due).began = FALSE
      BY DEF FromTaskRecord
    <3> QED BY <2>2, <3>1, <3>2 DEF Queued, Known
  <2>5. Status(t) = "absent" /\ Status(t)' = "queued"
    BY <2>2, <2>4, StatusCases, StatusCasesNext
  <2>6. statusBar' = [statusBar EXCEPT ![t] = "queued"]
    BY <1>3, <2>5, StatusCasesNext DEF statusBar
  <2>7. runsBar' = runsBar
    BY <1>1, RunsKept DEF runsBar
  <2> QED
    BY <1>1, <2>5, <2>6, <2>7
    DEF Contract!Submit, Contract!Become, statusBar, runsBar
<1>6. CASE Clock(t)
  <2>1. Known(t) /\ row[t] \in Row
    BY <1>2, <1>6 DEF Clock, BecomesDue, BecomesDisposable, Known
  <2>2. \/ row'[t] = [row[t] EXCEPT !.due = TRUE]
        \/ row'[t] = [row[t] EXCEPT !.disposable = "past"]
    BY <1>2, <1>6 DEF Clock, BecomesDue, BecomesDisposable
  <2>3. row'[t] \in Row /\ row'[t].outcome = row[t].outcome
        /\ row'[t].began = row[t].began
    BY <2>1, <2>2 DEF Row
  <2>4. Status(t)' = Status(t)
    BY <2>1, <2>3, NoRowAssumption DEF Status, Known, Queued, Staged, Done
  <2> QED BY <1>1, <1>3, <2>4, RunsKept, StatusCasesNext, ContractStutter
<1> QED BY <1>4, <1>5, <1>6

\* Executions that leave the slots E leave every task's executions.
LEMMA RunsLeave ==
  ASSUME NEW E \in SUBSET (Worker \X Slot),
         \A v \in Worker, r \in Slot, u \in Task :
            Holds(v, r, u)' <=> Holds(v, r, u) /\ <<v, r>> \notin E
  PROVE  /\ \A u \in Task : Runs(u)' = Runs(u) \ E
         /\ runsBar' = [u \in Task |-> runsBar[u] \ E]
<1>1. \A u \in Task : Runs(u)' = Runs(u) \ E
  <2> SUFFICES ASSUME NEW u \in Task, NEW e \in Worker \X Slot
               PROVE  e \in Runs(u)' <=> e \in Runs(u) /\ e \notin E
    BY DEF Runs
  <2>1. e[1] \in Worker /\ e[2] \in Slot /\ e = <<e[1], e[2]>>
    OBVIOUS
  <2> QED BY <2>1 DEF Runs
<1> QED BY <1>1 DEF runsBar

\* A claim is Start of the contract when the worker learns of it, and
\* StartUnheard when the call fails.
LEMMA ContractClaim ==
  ASSUME TypeOK, IInv, NEW w \in Worker, NEW t \in Task, UNCHANGED houseVars,
         ClaimTask(w, t) \/ ClaimLost(w, t)
  PROVE  Contract!Next
<1> USE DEF TypeOK, WorkersTypeOK
<1>1. AssignTask(t, w) /\ disturbed' = disturbed
  BY DEF ClaimTask, ClaimLost, houseVars
<1>2. /\ Queued(t) /\ Known(t)'
      /\ row'[t].began /\ row'[t].outcome = row[t].outcome
      /\ \A u \in Task \ {t} : row'[u] = row[u]
  BY <1>1, ClaimedRow
<1>3. Status(t) = "queued"
  BY <1>2, StatusCases
<1>4. Status(t)' = "started" \/ (t \in disturbed /\ Status(t)' = "settled")
  <2>1. Staged(t)' \/ Done(t)'
    BY <1>2 DEF Staged, Done, Known
  <2>2. Done(t)' => Done(t)
    BY <1>2 DEF Done, Queued
  <2>3. t \notin disturbed => ~Done(t)
    BY <1>2 DEF IInv, SoundDone, Queued
  <2> QED BY <1>2, <2>1, <2>2, <2>3, StatusCasesNext
<1> DEFINE settled == IF Status(t)' = "settled" THEN {t} ELSE {}
<1>5. statusBar' = [u \in Task |-> IF u \in settled THEN "settled"
                                  ELSE IF u \in {t} THEN "started" ELSE statusBar[u]]
  BY <1>2, <1>4, StatusCasesNext DEF statusBar
<1>6. Contract!Begin({t})
  <2>1. settled \in SUBSET ({t} \ soundBar)
    BY <1>4 DEF soundBar
  <2>2. \A u \in {t} : statusBar[u] = "queued"
    BY <1>3 DEF statusBar
  <2> QED BY <1>5, <2>1, <2>2 DEF Contract!Begin, statusBar, soundBar
<1>7. CASE ClaimTask(w, t)
  <2>1. PICK s \in Slot :
           /\ slot[w][s] = Free
           /\ slot' = [slot EXCEPT ![w][s] =
                         [task |-> t, retry |-> row[t].retry, running |-> FALSE]]
    BY <1>7 DEF ClaimTask, FreeSlots
  <2>2. slot'[w][s].task = t /\ slot'[w][s] # Free
    <3>1. row[t].retry \in Attempt
      BY <1>2 DEF Queued, Known, TableTypeOK, Row
    <3>2. [task |-> t, retry |-> row[t].retry, running |-> FALSE] \in Held
      BY <3>1 DEF Held
    <3> QED BY <2>1, <3>2, FreeAssumption
  <2>3. \A v \in Worker, r \in Slot, u \in Task :
           /\ v # w \/ r # s => (Holds(v, r, u)' <=> Holds(v, r, u))
           /\ Holds(w, s, u)' <=> u = t
           /\ ~Holds(w, s, u)
    BY <2>1, <2>2 DEF Holds
  <2>4. \A u \in Task \ {t} : Runs(u)' = Runs(u)
    <3> SUFFICES ASSUME NEW u \in Task \ {t}, NEW e \in Worker \X Slot
                 PROVE  e \in Runs(u)' <=> e \in Runs(u)
      BY DEF Runs
    <3> QED BY <2>3 DEF Runs
  <2>5. Runs(t)' = Runs(t) \cup {<<w, s>>}
    <3> SUFFICES ASSUME NEW e \in Worker \X Slot
                 PROVE  e \in Runs(t)' <=> e \in Runs(t) \/ e = <<w, s>>
      BY DEF Runs
    <3>1. e[1] \in Worker /\ e[2] \in Slot /\ e = <<e[1], e[2]>>
      OBVIOUS
    <3> QED BY <2>3, <3>1 DEF Runs
  <2> DEFINE exec == [u \in {t} |-> <<w, s>>]
  <2>6. runsBar' = [u \in Task |-> IF u \in {t} THEN runsBar[u] \cup {exec[u]} ELSE runsBar[u]]
    BY <2>4, <2>5 DEF runsBar
  <2>7. t \notin disturbed => Runs(t) = {}
    BY <1>2 DEF IInv, ExclusiveExecution, Runs, Staged, Queued
  <2>8. Contract!Start({t}, exec)
    BY <1>1, <1>6, <2>6, <2>7 DEF Contract!Start, runsBar, soundBar
  <2>9. {t} \in SUBSET Task /\ exec \in [{t} -> Worker \X Slot]
    OBVIOUS
  <2> QED BY <2>8, <2>9 DEF Contract!Next
<1>8. CASE ClaimLost(w, t)
  <2> DEFINE E == {e \in Worker \X Slot : e[1] = w /\ e[2] \in ClaimedSlots(w)}
  <2>1. \A v \in Worker, r \in Slot, u \in Task :
           Holds(v, r, u)' <=> Holds(v, r, u) /\ <<v, r>> \notin E
    BY <1>8 DEF ClaimLost, ForgetClaims, Holds
  <2>2. E \in SUBSET (Worker \X Slot)
    OBVIOUS
  <2> HIDE DEF E
  <2>3. runsBar' = [u \in Task |-> runsBar[u] \ E]
    BY <2>1, <2>2, RunsLeave
  <2>4. Contract!StartUnheard({t}, E)
    BY <1>1, <1>6, <2>3 DEF Contract!StartUnheard, runsBar, soundBar
  <2>5. {t} \in SUBSET Task
    OBVIOUS
  <2> QED BY <2>2, <2>4, <2>5 DEF Contract!Next
<1> QED BY <1>7, <1>8

\* A crash or a failed assign_tasks call is Vanish of the contract.
LEMMA ContractForget ==
  ASSUME TypeOK, NEW w \in Worker, UNCHANGED houseVars, Crash(w) \/ AssignFails(w)
  PROVE  Contract!Next
<1> USE DEF TypeOK, WorkersTypeOK
<1> DEFINE E == {e \in Worker \X Slot : slot[e[1]][e[2]] # Free /\ slot'[e[1]][e[2]] = Free}
<1>1. \A v \in Worker, r \in Slot : slot'[v][r] \in {slot[v][r], Free}
  BY DEF Crash, AssignFails, ForgetClaims
<1>2. \A v \in Worker, r \in Slot, u \in Task :
         Holds(v, r, u)' <=> Holds(v, r, u) /\ <<v, r>> \notin E
  BY <1>1 DEF Holds
<1>3. E \in SUBSET (Worker \X Slot)
  OBVIOUS
<1> HIDE DEF E
<1>4. runsBar' = [u \in Task |-> runsBar[u] \ E]
  BY <1>2, <1>3, RunsLeave
<1>5. row' = row /\ disturbed' = disturbed
  BY DEF Crash, AssignFails, houseVars
<1>6. statusBar' = statusBar
  BY <1>5, StatusCasesNext DEF statusBar
<1>7. Contract!Vanish(E)
  BY <1>4, <1>5, <1>6 DEF Contract!Vanish, statusBar, runsBar, soundBar
<1> QED BY <1>3, <1>7 DEF Contract!Next

\* The end of an execution is Settle of the contract, or Vanish when the call
\* to the backend failed.
LEMMA ContractFinish ==
  ASSUME TypeOK, IInv, NEW w \in Worker, NEW s \in Slot, UNCHANGED houseVars,
         HandleTask(w, s)
  PROVE  Contract!Next
<1>0. Running(w, s)
  BY DEF HandleTask, FinishOk, FinishFatal, FinishDiscard, FinishRetry, FinishFails
<1>1. PICK t \in Task : t = slot[w][s].task
  BY <1>0 DEF Running, TypeOK, WorkersTypeOK, Held
<1>2. /\ FreeSlot(w, s)
      /\ \A u \in Task \ {t} : row'[u] = row[u]
      /\ row' = row \/ ~Staged(t)'
  BY <1>1, FinishedRow
<1>3. disturbed' = disturbed
  BY DEF houseVars
<1>4. Holds(w, s, t)
  BY <1>0, <1>1 DEF Running, Holds
<1>5. \A v \in Worker, r \in Slot, u \in Task :
         Holds(v, r, u)' <=> Holds(v, r, u) /\ <<v, r>> \notin {<<w, s>>}
  BY <1>2 DEF FreeSlot, Holds, TypeOK, WorkersTypeOK
<1>6. {<<w, s>>} \in SUBSET (Worker \X Slot)
  OBVIOUS
<1>7. runsBar' = [u \in Task |-> runsBar[u] \ {<<w, s>>}]
      /\ \A u \in Task : Runs(u)' = Runs(u) \ {<<w, s>>}
  BY <1>5, <1>6, RunsLeave
<1>8. CASE row' = row
  <2>1. statusBar' = statusBar
    BY <1>8, StatusCasesNext DEF statusBar
  <2>2. Contract!Vanish({<<w, s>>})
    BY <1>3, <1>7, <2>1 DEF Contract!Vanish, statusBar, runsBar, soundBar
  <2> QED BY <1>6, <2>2 DEF Contract!Next
<1>9. CASE ~Staged(t)'
  <2>1. Status(t)' \in {"settled", "queued", "absent"}
    BY <1>9, StatusCasesNext
  <2>2. statusBar' = [statusBar EXCEPT ![t] = Status(t)']
    BY <1>2, StatusCasesNext DEF statusBar
  <2>3. \A u \in Task \ {t} : <<w, s>> \notin Runs(u)
    BY <1>4 DEF Runs, Holds
  <2>4. runsBar' = [runsBar EXCEPT ![t] = @ \ {<<w, s>>}]
    <3>1. \A u \in Task \ {t} : Runs(u)' = Runs(u)
      BY <1>7, <2>3
    <3>2. Runs(t)' = Runs(t) \ {<<w, s>>}
      BY <1>7
    <3> QED BY <3>1, <3>2 DEF runsBar
  <2>5. <<w, s>> \in Runs(t)
    BY <1>4 DEF Runs
  <2>6. t \notin disturbed => Status(t) = "started"
    BY <1>4, StatusCases DEF IInv, ExclusiveExecution
  <2>7. Contract!Settle(t, <<w, s>>)
    BY <1>3, <2>1, <2>2, <2>4, <2>5, <2>6
    DEF Contract!Settle, Contract!Become, statusBar, runsBar, soundBar
  <2> QED BY <2>7 DEF Contract!Next
<1> QED BY <1>2, <1>8, <1>9

\* A restored task is requeued, or the row was gone.
LEMMA ContractRestore ==
  ASSUME TypeOK, IInv, NEW p \in Sweeper, NEW t \in Task, UNCHANGED workerVars,
         RestoreTask(p, t)
  PROVE  Contract!Next \/ UNCHANGED Contract!vars
<1>1. slot' = slot /\ disturbed' = disturbed /\ t \in disturbed
  BY DEF RestoreTask, workerVars, IInv, TodoDisturbed
<1>2. row \in [Task -> Row \cup {NoRow}]
  BY DEF TypeOK, TableTypeOK
<1>3. CASE row' = row
  BY <1>1, <1>3, RunsKept, StatusCasesNext, ContractStutter
<1>4. CASE row[t] # NoRow
  <2>1. row'[t] = [row[t] EXCEPT !.began = FALSE]
        /\ \A u \in Task \ {t} : row'[u] = row[u]
    BY <1>2, <1>4 DEF RestoreTask, Restore, UpdateRestore
  <2>2. row[t] \in Row
    BY <1>2, <1>4
  <2>3. row'[t] \in Row /\ row'[t].began = FALSE
    BY <2>1, <2>2 DEF Row
  <2>4. Queued(t)' /\ Known(t)
    BY <1>4, <2>3, NoRowAssumption DEF Queued, Known
  <2>5. Status(t) # "absent" /\ Status(t)' = "queued"
    BY <2>4, StatusCases, StatusCasesNext
  <2>6. statusBar' = [statusBar EXCEPT ![t] = "queued"]
    BY <2>1, <2>5, StatusCasesNext DEF statusBar
  <2>7. runsBar' = runsBar
    BY <1>1, RunsKept DEF runsBar
  <2>8. Contract!Requeue(t)
    BY <1>1, <2>5, <2>6, <2>7
    DEF Contract!Requeue, Contract!Become, statusBar, runsBar, soundBar
  <2> QED BY <2>8 DEF Contract!Next
<1> QED BY <1>3, <1>4 DEF RestoreTask, Restore, UpdateRestore

\* A sweep's judgement is Doubt of the contract.
LEMMA ContractJudge ==
  ASSUME NEW p \in Sweeper, UNCHANGED workerVars, JudgeStage(p)
  PROVE  Contract!Next
<1>1. row' = row /\ slot' = slot /\ disturbed \subseteq disturbed'
  BY DEF JudgeStage, workerVars
<1>2. statusBar' = statusBar /\ runsBar' = runsBar
  BY <1>1, StatusCasesNext, RunsKept DEF statusBar, runsBar
<1>3. soundBar' = soundBar \ (Task \cap disturbed')
  BY <1>1 DEF soundBar
<1>4. Contract!Doubt(Task \cap disturbed')
  BY <1>2, <1>3 DEF Contract!Doubt, statusBar, runsBar, soundBar
<1> QED BY <1>4 DEF Contract!Next

\* Discarding disposable tasks is Delete of the contract.
LEMMA ContractDiscard ==
  ASSUME TypeOK, IInv, NEW p \in Sweeper, UNCHANGED workerVars, DiscardDisposable(p)
  PROVE  Contract!Next
<1>1. /\ slot' = slot /\ disturbed \subseteq disturbed'
      /\ trash[p] \in SUBSET Task
      /\ \A t \in trash[p] : Known(t) /\ t \notin disturbed' => t \in DisposableTasks
  BY DEF DiscardDisposable, workerVars, TypeOK, HouseTypeOK
<1>2. \A t \in Task : row'[t] = IF t \in trash[p] THEN NoRow ELSE row[t]
  BY DEF DiscardDisposable, DiscardTasks, DeleteTasks
<1>3. runsBar' = runsBar
  BY <1>1, RunsKept DEF runsBar
<1>4. \A t \in Task : Status(t)' = IF t \in trash[p] THEN "absent" ELSE Status(t)
  <2> SUFFICES ASSUME NEW t \in Task
               PROVE  Status(t)' = IF t \in trash[p] THEN "absent" ELSE Status(t)
    OBVIOUS
  <2>1. CASE t \in trash[p]
    BY <1>2, <2>1, StatusCasesNext DEF Known
  <2>2. CASE t \notin trash[p]
    BY <1>2, <2>2, StatusCasesNext
  <2> QED BY <2>1, <2>2
<1>5. statusBar' = [t \in Task |-> IF t \in trash[p] THEN "absent" ELSE statusBar[t]]
  BY <1>4 DEF statusBar
<1>6. \A t \in trash[p] \cap soundBar' : Status(t) \in {"absent", "settled"}
  <2> SUFFICES ASSUME NEW t \in Task, t \in trash[p], t \notin disturbed'
               PROVE  Status(t) \in {"absent", "settled"}
    BY DEF soundBar
  <2>1. Known(t) => Done(t) /\ row[t].began
    BY <1>1 DEF IInv, RowShape, SoundDone, DisposableTasks
  <2> QED BY <2>1, StatusCases
<1>7. soundBar' \in SUBSET soundBar
  BY <1>1 DEF soundBar
<1>8. \A t \in trash[p] \cap soundBar' : statusBar[t] \in {"absent", "settled"}
  BY <1>1, <1>6 DEF statusBar
<1>9. Contract!Delete(trash[p])
  BY <1>3, <1>5, <1>7, <1>8 DEF Contract!Delete, statusBar, runsBar, soundBar
<1> QED BY <1>1, <1>9 DEF Contract!Next

\* Every step of the fleet is a step of the contract or shows nothing.
LEMMA ContractStep ==
  TypeOK /\ IInv /\ [Next]_vars => [Contract!Next]_(Contract!vars)
<1> DEFINE Goal == Contract!Next \/ UNCHANGED Contract!vars
<1> SUFFICES ASSUME TypeOK, IInv, [Next]_vars PROVE Goal
  OBVIOUS
<1>1. ASSUME row' = row, slot' = slot, disturbed' = disturbed PROVE Goal
  BY <1>1, RunsKept, StatusCasesNext, ContractStutter
<1>2. ASSUME NEW t \in Task, Submit(t) \/ Clock(t) PROVE Goal
  BY <1>2, ContractClient DEF Contract!Next
<1>3. ASSUME NEW w \in Worker, Heartbeat(w) \/ ExpireLease(w) PROVE Goal
  BY <1>1, <1>3 DEF Heartbeat, ExpireLease, ReadAlive, SetWorkerTtl, LeaseExpires, workerVars
<1>4. ASSUME NEW w \in Worker, Work(WorkerStep(w)) \/ Work(Leave(w)) PROVE Goal
  <2>1. UNCHANGED houseVars /\ (WorkerStep(w) \/ Stop(w) \/ Crash(w))
    BY <1>4 DEF Work, Leave
  <2>2. ASSUME \/ Spawn(w) \/ Stop(w) \/ Exit(w) \/ BeginAssign(w) \/ ListDue(w)
               \/ \E t \in Task : SkipTask(w, t)
        PROVE  Goal
    BY <1>1, <2>1, <2>2
    DEF Spawn, Stop, Exit, BeginAssign, ListDue, SkipTask, houseVars
  <2>3. ASSUME Dispatch(w) PROVE Goal
    <3>1. row' = row /\ disturbed' = disturbed
      BY <2>1, <2>3 DEF Dispatch, houseVars
    <3>2. ASSUME NEW v \in Worker, NEW r \in Slot, NEW u \in Task
          PROVE  Holds(v, r, u)' <=> Holds(v, r, u)
      <4>1. slot'[v][r] = slot[v][r]
            \/ /\ slot[v][r] # Free
               /\ slot'[v][r] = [slot[v][r] EXCEPT !.running = TRUE]
        BY <2>3 DEF Dispatch, ClaimedSlots, TypeOK, WorkersTypeOK
      <4>2. slot[v][r] # Free => slot[v][r] \in Held
        BY DEF TypeOK, WorkersTypeOK
      <4> QED BY <4>1, <4>2, FreeAssumption DEF Holds, Held
    <3>3. \A u \in Task : Runs(u)' = Runs(u)
      BY <3>2 DEF Runs
    <3> QED BY <3>1, <3>3, StatusCasesNext, ContractStutter
  <2>4. ASSUME NEW t \in Task, ClaimTask(w, t) \/ ClaimLost(w, t) PROVE Goal
    BY <2>1, <2>4, ContractClaim
  <2>5. ASSUME AssignFails(w) \/ Crash(w) PROVE Goal
    BY <2>1, <2>5, ContractForget
  <2>6. ASSUME NEW s \in Slot, HandleTask(w, s) PROVE Goal
    BY <2>1, <2>6, ContractFinish
  <2> QED BY <2>1, <2>2, <2>3, <2>4, <2>5, <2>6 DEF WorkerStep, FetchLoop
<1>5. ASSUME NEW p \in Sweeper, Housekeep(HouseStep(p)) PROVE Goal
  <2>1. UNCHANGED workerVars /\ HouseStep(p)
    BY <1>5 DEF Housekeep
  <2>2. ASSUME \/ ListStage(p) \/ SweepEnds(p) \/ ListExpired(p) \/ PurgeWorkers(p)
               \/ ListDisposable(p)
        PROVE  Goal
    BY <1>1, <2>1, <2>2
    DEF ListStage, SweepEnds, ListExpired, PurgeWorkers, ListDisposable, workerVars
  <2>3. ASSUME NEW t \in Task, RestoreTask(p, t) PROVE Goal
    BY <2>1, <2>3, ContractRestore
  <2> QED BY <2>1, <2>2, <2>3, ContractJudge, ContractDiscard DEF HouseStep
<1>6. CASE UNCHANGED vars
  BY <1>1, <1>6 DEF vars
<1> QED BY <1>2, <1>3, <1>4, <1>5, <1>6 DEF Next

\* The fleet implements the contract (backend.rs, trait TaskBackend, together
\* with worker.rs and service.rs).
THEOREM FleetKeepsContract == Spec => KeepsContract
<1>1. Init => Contract!Init
  BY ContractInit
<1>2. TypeOK /\ IInv /\ [Next]_vars => [Contract!Next]_(Contract!vars)
  BY ContractStep
<1> QED BY <1>1, <1>2, Invariance, PTL DEF Spec, KeepsContract, Contract!Spec

\* So what the contract promises of a sound task holds of the fleet: it has one
\* execution at most, goes through its life in order, is moved on by its
\* execution alone, and begins to run only from the queue (backend.rs, worker.rs,
\* service.rs).
THEOREM FleetTaskLife ==
  Spec => /\ []Contract!RunsAlone
          /\ Contract!LivesInOrder
          /\ Contract!OnlyItsExecution
          /\ Contract!BeginsFromQueue
<1>1. Spec => Contract!Spec
  BY FleetKeepsContract DEF KeepsContract
<1> QED BY <1>1, Contract!ContractRunsAlone, Contract!ContractLivesInOrder,
           Contract!ContractOnlyItsExecution, Contract!ContractBeginsFromQueue

=============================================================================
