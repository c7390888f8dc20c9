---------------------------- MODULE RedisFleetProofs ---------------------------
(***************************************************************************)
(* What holds of the fleet on Redis for any set of tasks, workers, slots   *)
(* and sweepers and any limits: the types, that the keys of a task agree,  *)
(* that no staged task is orphaned, that a sound task runs in one place,   *)
(* and that the fleet implements the contract of TaskContract.             *)
(***************************************************************************)
EXTENDS RedisFleet, FirstElements, TLAPS

\* What KeysAgree says of the keys k of one task ...
GoodKey(k) ==
    /\ k.stage # Nobody => k.info # Missing /\ k.queue = Missing
    /\ k.info # Missing => k.queue # Missing \/ k.stage # Nobody \/ k.outcome # {}
    /\ k.outcome # {} <=> k.ttl # "null"
    /\ k.outcome # {} => k.info # Missing

\* ... and of the keys of one that no service interfered with.
NoGhost(k) == k.queue # Missing => k.info # Missing

\* A restore is about tasks that were judged abandoned.
SweepsDoubt ==
    \A p \in Sweeper :
       /\ sweep[p].todo \subseteq disturbed
       /\ sweep[p].next # Missing => sweep[p].next.task \in disturbed

\* The lookup before a discard misses only tasks a service interfered with.
SoundFound ==
    \A w \in Worker : \A s \in Slot :
       slot[w][s] # Free /\ slot[w][s].stage = "unfound"
          => slot[w][s].task \in disturbed

\* The inductive invariant.
IInv == KeysAgree /\ NoOrphan /\ ExclusiveExecution /\ SweepsDoubt /\ SoundFound

-----------------------------------------------------------------------------
(* What the scripts and pipelines do to the keys of one task.              *)

\* An empty set of keys is consistent.
LEMMA NoKeyGood == NoKey \in Key /\ GoodKey(NoKey) /\ NoGhost(NoKey)
BY DEF NoKey, Key, GoodKey, NoGhost

\* put_tasks (OnKnownId::Keep): a known task is left alone, an unknown one
\* waits; no task is staged that was not.
LEMMA EnqueueKey ==
  ASSUME NEW k \in Key, NEW i \in Info, GoodKey(k)
  PROVE  /\ Enqueue(k, i) \in Key
         /\ GoodKey(Enqueue(k, i))
         /\ NoGhost(k) => NoGhost(Enqueue(k, i))
         /\ k.info # Missing => Enqueue(k, i) = k
         /\ k.info = Missing => /\ Enqueue(k, i).info # Missing
                                /\ Enqueue(k, i).queue # Missing
                                /\ Enqueue(k, i).stage = Nobody
                                /\ Enqueue(k, i).outcome = {}
BY InfoAssumption, MissingAssumption, BoundAssumption
DEF Enqueue, Key, GoodKey, NoGhost, Info, Time

\* put_tasks (OnKnownId::Replace), for a retry: the task waits again and is not
\* staged; its outcome stays.
LEMMA ReplaceKey ==
  ASSUME NEW k \in Key, NEW i \in Info, GoodKey(k)
  PROVE  /\ Replace(k, i) \in Key
         /\ GoodKey(Replace(k, i))
         /\ Replace(k, i).stage = Nobody
         /\ Replace(k, i).info # Missing /\ Replace(k, i).queue # Missing
         /\ Replace(k, i).outcome = k.outcome
<1>1. Replace(k, i) = [info |-> i, queue |-> i.due, stage |-> Nobody,
                       outcome |-> k.outcome, ttl |-> k.ttl]
  BY DEF Replace, Enqueue, Key
<1>2. i # Missing /\ i.due \in Time /\ i.due # Missing
  BY InfoAssumption, MissingAssumption DEF Info, Time
<1> QED BY <1>1, <1>2 DEF Key, GoodKey

\* assign_tasks: the task leaves the queue for the stage of worker w.
LEMMA ClaimKey ==
  ASSUME NEW k \in Key, NEW w \in Worker, GoodKey(k),
         k.info # Missing
  PROVE  /\ Claim(k, w) \in Key
         /\ GoodKey(Claim(k, w))
         /\ Claim(k, w).stage = w /\ w # Nobody
         /\ Claim(k, w).info = k.info
         /\ Claim(k, w).queue = Missing
         /\ Claim(k, w).outcome = k.outcome
BY NobodyAssumption DEF Claim, Key, GoodKey

\* succeed and fail: the task has an outcome, and neither waits nor runs.
LEMMA SettleKey ==
  ASSUME NEW k \in Key, NEW i \in Info, NEW o \in Outcome
  PROVE  /\ Settle(k, i, o) \in Key
         /\ GoodKey(Settle(k, i, o))
         /\ Settle(k, i, o).stage = Nobody
         /\ Settle(k, i, o).queue = Missing
         /\ NoGhost(Settle(k, i, o))
<1>1. k.outcome \cup {o} \in SUBSET Outcome /\ k.outcome \cup {o} # {}
  BY DEF Key
<1>2. i # Missing
  BY InfoAssumption
<1> QED BY <1>1, <1>2 DEF Settle, Key, GoodKey, NoGhost

\* discard_tasks: nothing is left, but the id in the queue when the lookup
\* missed the task.
LEMMA DiscardKey ==
  ASSUME NEW k \in Key, NEW found
  PROVE  /\ Discard(k, found) \in Key
         /\ GoodKey(Discard(k, found))
         /\ Discard(k, found).stage = Nobody
         /\ Discard(k, found).info = Missing
         /\ Discard(k, found).outcome = {}
         /\ found \/ k.queue = Missing => NoGhost(Discard(k, found))
BY DEF Discard, NoKey, Key, GoodKey, NoGhost

\* restore: the id is in the queue and not on the stage.  Where the task is gone
\* this leaves an id without its task.
LEMMA RequeueKey ==
  ASSUME NEW k \in Key, NEW due \in Time, GoodKey(k)
  PROVE  /\ Requeue(k, due) \in Key
         /\ GoodKey(Requeue(k, due))
         /\ Requeue(k, due).stage = Nobody
         /\ Requeue(k, due).queue # Missing
         /\ Requeue(k, due).info = k.info
BY MissingAssumption DEF Requeue, Key, GoodKey, Time

\* Time passes for a task with an outcome.
LEMMA PassKey ==
  ASSUME NEW k \in Key, GoodKey(k), k.ttl = "kept"
  PROVE  /\ [k EXCEPT !.ttl = "past"] \in Key
         /\ GoodKey([k EXCEPT !.ttl = "past"])
         /\ NoGhost(k) => NoGhost([k EXCEPT !.ttl = "past"])
         /\ [k EXCEPT !.ttl = "past"].info = k.info
         /\ [k EXCEPT !.ttl = "past"].queue = k.queue
         /\ [k EXCEPT !.ttl = "past"].stage = k.stage
         /\ [k EXCEPT !.ttl = "past"].outcome = k.outcome
BY DEF Key, GoodKey, NoGhost

-----------------------------------------------------------------------------
(* Types.                                                                  *)

\* KeysAgree, as a predicate of the keys of each task.
LEMMA KeysAgreeIsGood ==
  KeysAgree <=> \A t \in Task : GoodKey(key[t]) /\ (t \in disturbed \/ NoGhost(key[t]))
BY DEF KeysAgree, GoodKey, NoGhost, Known, Queued, Staged, Ghost

\* The same after a step.
LEMMA KeysAgreeIsGoodNext ==
  KeysAgree' <=> \A t \in Task : GoodKey(key'[t]) /\ (t \in disturbed' \/ NoGhost(key'[t]))
BY DEF KeysAgree, GoodKey, NoGhost, Known, Queued, Staged, Ghost

\* The initial state has the types and the invariant.
LEMMA InitInv == Init => TypeOK /\ IInv
<1> SUFFICES ASSUME Init PROVE TypeOK /\ IInv
  OBVIOUS
<1> USE DEF Init, StoreInit
<1>1. 0 \in Time
  BY BoundAssumption DEF Time
<1>2. Cardinality(Slot) \in Nat
  BY SlotAssumption, FS_CardinalityType
<1>3. NoSweep \in Sweep /\ NoTrash \in Trash
  BY DEF NoSweep, NoTrash, Sweep, Trash
<1>4. TypeOK
  BY <1>1, <1>2, <1>3, NoKeyGood DEF TypeOK, StoreTypeOK
<1>5. KeysAgree
  BY NoKeyGood, KeysAgreeIsGood
<1>6. NoOrphan
  BY DEF NoOrphan, Staged, NoKey
<1>7. ExclusiveExecution
  BY DEF ExclusiveExecution, NoKey, Holds
<1>8. SweepsDoubt
  BY DEF SweepsDoubt, NoSweep
<1>9. SoundFound
  BY DEF SoundFound
<1> QED BY <1>4, <1>5, <1>6, <1>7, <1>8, <1>9 DEF IInv

\* The claim is of tasks that are known and wait.
LEMMA ClaimableWaits ==
  ASSUME NEW n, NEW t \in Claimable(n)
  PROVE  t \in Task /\ Known(t) /\ Queued(t)
BY DEF Claimable, Candidates, QueuedTasks

\* A claim moves the keys of the tasks it takes to the stage.
LEMMA ClaimedKeys ==
  ASSUME TypeOK, KeysAgree, NEW w \in Worker, NEW n, ClaimAll(w, Claimable(n))
  PROVE  /\ key' \in [Task -> Key]
         /\ \A t \in Task : GoodKey(key'[t]) /\ (t \in disturbed \/ NoGhost(key'[t]))
         /\ \A t \in Claimable(n) :
               /\ key'[t].stage = w /\ w # Nobody
               /\ key'[t].info = key[t].info /\ key'[t].info # Missing
               /\ key'[t].queue = Missing
               /\ key'[t].outcome = key[t].outcome
         /\ \A t \in Task \ Claimable(n) : key'[t] = key[t]
<1>1. \A t \in Task : key[t] \in Key /\ GoodKey(key[t])
                      /\ (t \in disturbed \/ NoGhost(key[t]))
  BY KeysAgreeIsGood DEF TypeOK, StoreTypeOK
<1>2. \A t \in Task : key'[t] = IF t \in Claimable(n) THEN Claim(key[t], w) ELSE key[t]
  BY DEF ClaimAll
<1>3. ASSUME NEW t \in Claimable(n)
      PROVE  /\ t \in Task
             /\ key'[t] \in Key
             /\ GoodKey(key'[t]) /\ NoGhost(key'[t])
             /\ key'[t].stage = w /\ w # Nobody
             /\ key'[t].info = key[t].info /\ key'[t].info # Missing
             /\ key'[t].queue = Missing
             /\ key'[t].outcome = key[t].outcome
  <2>1. t \in Task /\ Known(t)
    BY ClaimableWaits
  <2>2. key'[t] = Claim(key[t], w)
    BY <1>2, <2>1
  <2> QED BY <1>1, <2>1, <2>2, ClaimKey DEF Known, NoGhost
<1>4. \A t \in Task : key'[t] \in Key /\ GoodKey(key'[t])
                      /\ (t \in disturbed \/ NoGhost(key'[t]))
  BY <1>1, <1>2, <1>3
<1>5. key' \in [Task -> Key]
  BY <1>4 DEF ClaimAll
<1> QED BY <1>2, <1>3, <1>4, <1>5

\* How an execution ends (handle_task, discard_tasks): the keys of its task
\* stay consistent and leave the stage, and no sound task then both waits and
\* has an outcome.
LEMMA EndedKey ==
  ASSUME TypeOK, IInv, NEW w \in Worker, NEW s \in Slot,
         Finish(w, s) \/ Retry(w, s) \/ DiscardTask(w, s)
  PROVE  \E t \in Task, k \in Key :
            /\ Holds(w, s, t) /\ t = slot[w][s].task
            /\ key' = [key EXCEPT ![t] = k]
            /\ GoodKey(k) /\ (t \in disturbed \/ NoGhost(k))
            /\ k.stage = Nobody
            /\ t \notin disturbed => k.outcome = {} \/ k.queue = Missing
<1> DEFINE h == slot[w][s]
           t == h.task
<1>1. h \in Held /\ h # Free
  BY DEF Finish, Retry, DiscardTask, Running, TypeOK
<1>2. t \in Task /\ h.info \in Info /\ Holds(w, s, t)
  BY <1>1 DEF Held, Holds
<1>3. key[t] \in Key /\ GoodKey(key[t])
  BY <1>2, KeysAgreeIsGood DEF TypeOK, StoreTypeOK, IInv
<1>4. t \notin disturbed => key[t].stage = w /\ key[t].stage # Nobody
  BY <1>2, NobodyAssumption DEF IInv, ExclusiveExecution
<1> HIDE DEF h, t
<1>5. CASE Finish(w, s)
  <2>1. PICK o \in Outcome : key' = [key EXCEPT ![t] = Settle(key[t], h.info, o)]
    BY <1>5 DEF Finish, Update, h, t
  <2>2. /\ Settle(key[t], h.info, o) \in Key
        /\ GoodKey(Settle(key[t], h.info, o))
        /\ Settle(key[t], h.info, o).stage = Nobody
        /\ Settle(key[t], h.info, o).queue = Missing
        /\ NoGhost(Settle(key[t], h.info, o))
    BY <1>2, <1>3, SettleKey
  <2> QED BY <1>2, <2>1, <2>2 DEF h, t
<1>6. CASE Retry(w, s)
  <2>1. PICK due \in now .. MaxTime :
           key' = [key EXCEPT ![t] = Replace(key[t], [retry |-> h.info.retry + 1, due |-> due])]
    BY <1>6 DEF Retry, Update, h, t
  <2> DEFINE i == [retry |-> h.info.retry + 1, due |-> due]
  <2>2. i \in Info
    <3>1. h.info.retry < MaxRetry
      BY <1>6 DEF Retry, h
    <3>2. now \in Nat /\ due \in Time
      BY BoundAssumption DEF TypeOK, StoreTypeOK, Time
    <3> QED BY <1>2, <3>1, <3>2, BoundAssumption DEF Info
  <2> HIDE DEF i
  <2>3. /\ Replace(key[t], i) \in Key
        /\ GoodKey(Replace(key[t], i))
        /\ Replace(key[t], i).stage = Nobody
        /\ Replace(key[t], i).outcome = key[t].outcome
        /\ NoGhost(Replace(key[t], i))
    BY <1>3, <2>2, ReplaceKey DEF NoGhost
  <2>4. t \notin disturbed => key[t].outcome = {}
    BY <1>2, <1>4 DEF IInv, ExclusiveExecution, Staged
  <2> QED BY <1>2, <2>1, <2>3, <2>4 DEF h, t, i
<1>7. CASE DiscardTask(w, s)
  <2> DEFINE found == h.stage = "found"
  <2>1. key' = [key EXCEPT ![t] = Discard(key[t], found)]
    BY <1>7 DEF DiscardTask, Update, h, t
  <2>3. found \/ t \in disturbed
    <3>1. h.stage # "run"
      BY <1>7 DEF DiscardTask, h
    <3> QED BY <1>1, <3>1 DEF Held, IInv, SoundFound, h, t
  <2> HIDE DEF found
  <2>4. /\ Discard(key[t], found) \in Key
        /\ GoodKey(Discard(key[t], found))
        /\ Discard(key[t], found).stage = Nobody
        /\ Discard(key[t], found).outcome = {}
        /\ t \in disturbed \/ NoGhost(Discard(key[t], found))
    BY <1>3, <2>3, DiscardKey
  <2> QED BY <1>2, <2>1, <2>4 DEF h, t
<1> QED BY <1>5, <1>6, <1>7

-----------------------------------------------------------------------------
(* The invariant, one kind of step at a time.                              *)

\* What NoOrphan says of one task.
Placed(t) == Staged(t) => LET w == key[t].stage IN
                          HeldBy(w, t) \/ phase[w] = "gone" \/ t \in dropped

\* What ExclusiveExecution says of one task.
Exclusive(t) ==
    /\ key[t].outcome # {} => ~Queued(t) /\ ~Staged(t)
    /\ \A w \in Worker : \A s \in Slot : Holds(w, s, t) =>
          /\ key[t].stage = w /\ key[t].info = slot[w][s].info
          /\ \A v \in Worker : \A r \in Slot : Holds(v, r, t) => v = w /\ r = s

\* The invariant and the types of what it is about, task by task.
LEMMA InvParts ==
  ASSUME TypeOK, IInv
  PROVE  /\ key \in [Task -> Key] /\ slot \in [Worker -> [Slot -> Held \cup {Free}]]
         /\ sweep \in [Sweeper -> Sweep] /\ trash \in [Sweeper -> Trash]
         /\ \A t \in Task : /\ GoodKey(key[t]) /\ (t \in disturbed \/ NoGhost(key[t]))
                            /\ Placed(t)
         /\ \A t \in Task \ disturbed : Exclusive(t)
         /\ SweepsDoubt /\ SoundFound
BY KeysAgreeIsGood
DEF TypeOK, StoreTypeOK, IInv, Placed, NoOrphan, Exclusive, ExclusiveExecution

\* The invariant after a step, put together from those parts.
LEMMA InvFromParts ==
  ASSUME \A t \in Task : /\ GoodKey(key'[t]) /\ (t \in disturbed' \/ NoGhost(key'[t]))
                         /\ Placed(t)',
         \A t \in Task \ disturbed' : Exclusive(t)',
         SweepsDoubt', SoundFound'
  PROVE  IInv'
BY KeysAgreeIsGoodNext DEF IInv, Placed, NoOrphan, Exclusive, ExclusiveExecution

\* A sound held task is staged by its holder, known, and has no outcome.
LEMMA SoundHeld ==
  ASSUME TypeOK, IInv, NEW w \in Worker, NEW s \in Slot, NEW t \in Task \ disturbed,
         Holds(w, s, t)
  PROVE  Staged(t) /\ Known(t) /\ ~Queued(t) /\ key[t].outcome = {} /\ key[t].stage = w
BY NobodyAssumption DEF IInv, KeysAgree, ExclusiveExecution, Staged, Known, Queued

\* A task whose keys and place a step leaves alone stays placed.
LEMMA PlacedKept ==
  ASSUME NEW t \in Task, Placed(t), key'[t].stage = key[t].stage,
         \A w \in Worker : \A s \in Slot : Holds(w, s, t) => Holds(w, s, t)',
         \A w \in Worker : phase[w] = "gone" => phase'[w] = "gone",
         dropped \subseteq dropped', key[t].stage \in Worker \cup {Nobody}
  PROVE  Placed(t)'
BY DEF Placed, Staged, HeldBy

\* A task whose keys a step leaves alone, and which no slot newly holds, still
\* runs in one place.
LEMMA ExclusiveKept ==
  ASSUME NEW t \in Task, Exclusive(t),
         key'[t].stage = key[t].stage, key'[t].info = key[t].info,
         key'[t].queue = key[t].queue, key'[t].outcome = key[t].outcome,
         \A w \in Worker : \A s \in Slot :
            Holds(w, s, t)' => Holds(w, s, t) /\ slot'[w][s].info = slot[w][s].info
  PROVE  Exclusive(t)'
BY DEF Exclusive, Queued, Staged

\* A step that changes the keys of one task only.
LEMMA OneKeyInv ==
  ASSUME TypeOK, IInv, NEW t \in Task, NEW k \in Key,
         key' = [key EXCEPT ![t] = k],
         GoodKey(k), t \in disturbed \/ NoGhost(k),
         k.stage \in {key[t].stage, Nobody},
         t \notin disturbed => Exclusive(t)',
         UNCHANGED <<phase, slot, dropped, disturbed>>,
         SweepsDoubt'
  PROVE  IInv'
<1>1. key'[t] = k /\ \A u \in Task \ {t} : key'[u] = key[u]
  BY InvParts
<1>2. \A w \in Worker : \A s \in Slot : \A u \in Task :
         Holds(w, s, u)' <=> Holds(w, s, u)
  BY DEF Holds
<1>3. ASSUME NEW u \in Task
      PROVE  GoodKey(key'[u]) /\ (u \in disturbed' \/ NoGhost(key'[u])) /\ Placed(u)'
  <2>1. GoodKey(key'[u]) /\ (u \in disturbed' \/ NoGhost(key'[u]))
    BY <1>1, InvParts
  <2>2. CASE key'[u].stage = key[u].stage
    <3>1. key[u].stage \in Worker \cup {Nobody}
      BY InvParts DEF Key
    <3> QED BY <1>2, <2>2, <3>1, InvParts, PlacedKept
  <2>3. CASE key'[u].stage # key[u].stage
    BY <1>1, <2>3 DEF Placed, Staged
  <2> QED BY <2>1, <2>2, <2>3
<1>4. ASSUME NEW u \in Task \ disturbed' PROVE Exclusive(u)'
  <2>1. CASE u = t
    BY <2>1
  <2>2. CASE u # t
    BY <1>1, <1>2, <2>2, InvParts, ExclusiveKept
  <2> QED BY <2>1, <2>2
<1>5. SoundFound'
  BY InvParts DEF SoundFound
<1> QED BY <1>3, <1>4, <1>5, InvFromParts

\* put_tasks: what it does to the keys of the task.
LEMMA SubmitKey ==
  ASSUME TypeOK, IInv, NEW t \in Task, Submit(t)
  PROVE  \E k \in Key :
            /\ key' = [key EXCEPT ![t] = k]
            /\ GoodKey(k) /\ (t \in disturbed \/ NoGhost(k))
            /\ Known(t) => k = key[t]
            /\ ~Known(t) => /\ k.info # Missing /\ k.queue # Missing
                            /\ k.stage = Nobody /\ k.outcome = {}
<1>1. PICK due \in Time : key' = [key EXCEPT ![t] = Enqueue(key[t], [retry |-> 0, due |-> due])]
  BY DEF Submit, Update
<1> DEFINE i == [retry |-> 0, due |-> due]
<1>2. i \in Info
  BY BoundAssumption DEF Info
<1> HIDE DEF i
<1>3. key[t] \in Key /\ GoodKey(key[t]) /\ (t \in disturbed \/ NoGhost(key[t]))
  BY InvParts
<1>4. /\ Enqueue(key[t], i) \in Key
      /\ GoodKey(Enqueue(key[t], i))
      /\ NoGhost(key[t]) => NoGhost(Enqueue(key[t], i))
      /\ Known(t) => Enqueue(key[t], i) = key[t]
      /\ ~Known(t) => /\ Enqueue(key[t], i).info # Missing
                      /\ Enqueue(key[t], i).queue # Missing
                      /\ Enqueue(key[t], i).stage = Nobody
                      /\ Enqueue(key[t], i).outcome = {}
  BY <1>2, <1>3, EnqueueKey DEF Known
<1> QED BY <1>1, <1>3, <1>4 DEF i

\* put_tasks
LEMMA SubmitInv ==
  ASSUME TypeOK, IInv, NEW t \in Task, Submit(t)
  PROVE  IInv'
<1>1. PICK k \in Key :
         /\ key' = [key EXCEPT ![t] = k]
         /\ GoodKey(k) /\ (t \in disturbed \/ NoGhost(k))
         /\ Known(t) => k = key[t]
         /\ ~Known(t) => /\ k.info # Missing /\ k.queue # Missing
                         /\ k.stage = Nobody /\ k.outcome = {}
  BY SubmitKey
<1>2. UNCHANGED <<phase, slot, sweep, dropped, disturbed>>
  BY DEF Submit, fleetVars
<1>3. key'[t] = k
  BY <1>1, InvParts
<1>4. ASSUME t \notin disturbed PROVE Exclusive(t)'
  <2>1. CASE Known(t)
    <3>1. \A w \in Worker : \A s \in Slot : Holds(w, s, t)' => Holds(w, s, t)
      BY <1>2 DEF Holds
    <3> QED BY <1>1, <1>2, <1>3, <1>4, <2>1, <3>1, InvParts, ExclusiveKept
  <2>2. CASE ~Known(t)
    <3>1. \A w \in Worker : \A s \in Slot : ~Holds(w, s, t)
      BY <1>4, <2>2, SoundHeld
    <3>2. \A w \in Worker : \A s \in Slot : ~Holds(w, s, t)'
      BY <1>2, <3>1 DEF Holds
    <3> QED BY <1>1, <1>3, <2>2, <3>2 DEF Exclusive
  <2> QED BY <2>1, <2>2
<1>5. k.stage \in {key[t].stage, Nobody}
  BY <1>1
<1>6. SweepsDoubt'
  BY <1>2, InvParts DEF SweepsDoubt
<1> QED BY <1>1, <1>2, <1>4, <1>5, <1>6, OneKeyInv

\* The retention of an outcome passes.
LEMMA TtlInv ==
  ASSUME TypeOK, IInv, NEW t \in Task, TtlPasses(t), UNCHANGED fleetVars
  PROVE  IInv'
<1> DEFINE k == [key[t] EXCEPT !.ttl = "past"]
<1>1. key[t] \in Key /\ GoodKey(key[t]) /\ (t \in disturbed \/ NoGhost(key[t]))
  BY InvParts
<1>2. /\ k \in Key /\ GoodKey(k) /\ (t \in disturbed \/ NoGhost(k))
      /\ k.info = key[t].info /\ k.queue = key[t].queue
      /\ k.stage = key[t].stage /\ k.outcome = key[t].outcome
  BY <1>1, PassKey DEF TtlPasses
<1>3. key' = [key EXCEPT ![t] = k]
  BY DEF TtlPasses, Update
<1> HIDE DEF k
<1>4. key'[t] = k
  BY <1>3, InvParts
<1>5. UNCHANGED <<phase, slot, sweep, dropped, disturbed>>
  BY DEF fleetVars
<1>6. ASSUME t \notin disturbed PROVE Exclusive(t)'
  <2>1. \A w \in Worker : \A s \in Slot : Holds(w, s, t)' => Holds(w, s, t)
    BY <1>5 DEF Holds
  <2> QED BY <1>2, <1>4, <1>5, <1>6, <2>1, InvParts, ExclusiveKept
<1>7. SweepsDoubt'
  BY <1>5, InvParts DEF SweepsDoubt
<1> QED BY <1>2, <1>3, <1>5, <1>6, <1>7, OneKeyInv

\* restore: what its pipeline does to the keys of a task judged abandoned.
LEMMA RestoredKey ==
  ASSUME TypeOK, IInv, NEW p \in Sweeper, RestoreTask(p)
  PROVE  \E t \in disturbed, k \in Key :
            /\ t \in Task
            /\ key' = [key EXCEPT ![t] = k]
            /\ GoodKey(k)
            /\ k.stage = Nobody /\ k.queue # Missing /\ k.info = key[t].info
<1> DEFINE n == sweep[p].next
<1>1. n # Missing /\ n.task \in Task /\ n.due \in Time /\ n.task \in disturbed
  <2>1. n \in [task: Task, due: Time] \cup {Missing}
    BY InvParts DEF Sweep
  <2>2. n # Missing /\ n.task \in disturbed
    BY InvParts DEF SweepsDoubt, RestoreTask
  <2> QED BY <2>1, <2>2
<1>2. key' = [key EXCEPT ![n.task] = Requeue(key[n.task], n.due)]
  BY DEF RestoreTask, Update
<1> HIDE DEF n
<1>3. key[n.task] \in Key /\ GoodKey(key[n.task])
  BY <1>1, InvParts
<1> QED BY <1>1, <1>2, <1>3, RequeueKey

\* restore
LEMMA RestoreInv ==
  ASSUME TypeOK, IInv, NEW p \in Sweeper, RestoreTask(p)
  PROVE  IInv'
<1>1. PICK t \in disturbed, k \in Key :
         /\ t \in Task
         /\ key' = [key EXCEPT ![t] = k]
         /\ GoodKey(k)
         /\ k.stage = Nobody
  BY RestoredKey
<1>2. UNCHANGED <<phase, slot, dropped, disturbed>>
  BY DEF RestoreTask
<1>3. SweepsDoubt'
  BY <1>2, InvParts DEF SweepsDoubt, RestoreTask, Sweep
<1> QED BY <1>1, <1>2, <1>3, OneKeyInv

\* The end of an execution: its slot is free and its task is not staged.
LEMMA EndedInv ==
  ASSUME TypeOK, IInv, NEW w \in Worker, NEW s \in Slot,
         Finish(w, s) \/ Retry(w, s) \/ DiscardTask(w, s)
  PROVE  IInv'
<1>1. PICK t \in Task, k \in Key :
         /\ Holds(w, s, t) /\ t = slot[w][s].task
         /\ key' = [key EXCEPT ![t] = k]
         /\ GoodKey(k) /\ (t \in disturbed \/ NoGhost(k))
         /\ k.stage = Nobody
         /\ t \notin disturbed => k.outcome = {} \/ k.queue = Missing
  BY EndedKey
<1>2. FreeSlot(w, s) /\ UNCHANGED <<phase, sweep, dropped, disturbed>>
  BY DEF Finish, Retry, DiscardTask
<1>3. key'[t] = k /\ \A u \in Task \ {t} : key'[u] = key[u]
  BY <1>1, InvParts
<1>4. \A v \in Worker : \A r \in Slot :
         slot'[v][r] = IF v = w /\ r = s THEN Free ELSE slot[v][r]
  BY <1>2, InvParts DEF FreeSlot
<1>5. \A v \in Worker : \A r \in Slot : \A u \in Task :
         /\ Holds(v, r, u)' => Holds(v, r, u) /\ slot'[v][r].info = slot[v][r].info
         /\ Holds(v, r, u) /\ u # t => Holds(v, r, u)'
         /\ Holds(v, r, u)' => v # w \/ r # s
  BY <1>1, <1>4 DEF Holds
<1>6. ASSUME NEW u \in Task
      PROVE  GoodKey(key'[u]) /\ (u \in disturbed' \/ NoGhost(key'[u])) /\ Placed(u)'
  <2>1. CASE u = t
    BY <1>1, <1>2, <1>3, <2>1 DEF Placed, Staged
  <2>2. CASE u # t
    <3>1. key[u].stage \in Worker \cup {Nobody}
      BY InvParts DEF Key
    <3>2. Placed(u)'
      BY <1>2, <1>3, <1>5, <2>2, <3>1, InvParts, PlacedKept
    <3> QED BY <1>2, <1>3, <2>2, <3>2, InvParts
  <2> QED BY <2>1, <2>2
<1>7. ASSUME NEW u \in Task \ disturbed' PROVE Exclusive(u)'
  <2>0. Exclusive(u)
    BY <1>2, InvParts
  <2>1. CASE u = t
    <3>1. \A v \in Worker : \A r \in Slot : ~Holds(v, r, u)'
      BY <1>1, <1>5, <2>0, <2>1 DEF Exclusive
    <3> QED BY <1>1, <1>2, <1>3, <2>1, <3>1 DEF Exclusive, Queued, Staged
  <2>2. CASE u # t
    BY <1>3, <1>5, <2>0, <2>2, ExclusiveKept
  <2> QED BY <2>1, <2>2
<1>8. SweepsDoubt'
  BY <1>2, InvParts DEF SweepsDoubt
<1>9. SoundFound'
  BY <1>2, <1>4, InvParts DEF SoundFound
<1> QED BY <1>6, <1>7, <1>8, <1>9, InvFromParts

\* A claimed batch is placed: each task of it in one free slot, with the record
\* that the script returned; what the other slots hold stays.
LEMMA AssignedSlots ==
  ASSUME TypeOK, IInv, NEW w \in Worker, Assign(w)
  PROVE  LET T == Claimable(asking[w]) IN
         \E f \in [T -> FreeSlots(w)] :
            /\ \A t, u \in T : f[t] = f[u] => t = u
            /\ \A v \in Worker : \A r \in Slot :
                  /\ v = w /\ (\E t \in T : f[t] = r) =>
                        slot[v][r] = Free
                  /\ ~(v = w /\ \E t \in T : f[t] = r) => slot'[v][r] = slot[v][r]
            /\ \A t \in T :
                  slot'[w][f[t]] = [task |-> t, info |-> key[t].info, stage |-> "run"]
            /\ \A t \in T : [task |-> t, info |-> key[t].info, stage |-> "run"] \in Held
<1> DEFINE T == Claimable(asking[w])
<1>1. PICK f \in Placements(w, T) :
         slot' = [slot EXCEPT ![w] = [s \in Slot |->
                    IF \E t \in T : f[t] = s
                    THEN LET t == CHOOSE u \in T : f[u] = s
                         IN [task |-> t, info |-> key[t].info, stage |-> "run"]
                    ELSE slot[w][s]]]
  BY DEF Assign
<1>2. \A t \in T : t \in Task /\ Known(t)
  BY ClaimableWaits
<1> HIDE DEF T
<1>3. f \in [T -> FreeSlots(w)] /\ \A t, u \in T : f[t] = f[u] => t = u
  BY DEF Placements
<1>4. slot \in [Worker -> [Slot -> Held \cup {Free}]]
  BY InvParts
<1>5. ASSUME NEW t \in T
      PROVE  slot'[w][f[t]] = [task |-> t, info |-> key[t].info, stage |-> "run"]
  <2>1. f[t] \in Slot
    BY <1>3 DEF FreeSlots
  <2>2. (CHOOSE u \in T : f[u] = f[t]) = t
    BY <1>3
  <2>3. \E u \in T : f[u] = f[t]
    OBVIOUS
  <2>4. slot'[w][f[t]] = LET u == CHOOSE u \in T : f[u] = f[t]
                         IN [task |-> u, info |-> key[u].info, stage |-> "run"]
    BY <1>1, <1>4, <2>1, <2>3
  <2> QED BY <2>2, <2>4
<1>6. ASSUME NEW v \in Worker, NEW r \in Slot
      PROVE  /\ v = w /\ (\E t \in T : f[t] = r) => slot[v][r] = Free
             /\ ~(v = w /\ \E t \in T : f[t] = r) => slot'[v][r] = slot[v][r]
  <2>1. CASE v = w /\ \E t \in T : f[t] = r
    BY <1>3, <2>1 DEF FreeSlots
  <2>2. CASE v = w /\ ~\E t \in T : f[t] = r
    BY <1>1, <1>4, <2>2
  <2>3. CASE v # w
    BY <1>1, <1>4, <2>3
  <2> QED BY <2>1, <2>2, <2>3
<1>7. ASSUME NEW t \in T
      PROVE  [task |-> t, info |-> key[t].info, stage |-> "run"] \in Held
  BY <1>2, InvParts DEF Known, Key, Held
<1> QED BY <1>3, <1>5, <1>6, <1>7 DEF T

\* assign_tasks: the batch is staged, and each task of it has a slot.
LEMMA AssignInv ==
  ASSUME TypeOK, IInv, NEW w \in Worker, Assign(w)
  PROVE  IInv'
<1> DEFINE T == Claimable(asking[w])
<1>1. PICK f \in [T -> FreeSlots(w)] :
         /\ \A t, u \in T : f[t] = f[u] => t = u
         /\ \A v \in Worker : \A r \in Slot :
               /\ v = w /\ (\E t \in T : f[t] = r) => slot[v][r] = Free
               /\ ~(v = w /\ \E t \in T : f[t] = r) => slot'[v][r] = slot[v][r]
         /\ \A t \in T :
               slot'[w][f[t]] = [task |-> t, info |-> key[t].info, stage |-> "run"]
         /\ \A t \in T : [task |-> t, info |-> key[t].info, stage |-> "run"] \in Held
  BY AssignedSlots
<1>2. UNCHANGED <<phase, sweep, dropped, disturbed>> /\ ClaimAll(w, T)
  BY DEF Assign
<1>3. /\ \A t \in Task : GoodKey(key'[t]) /\ (t \in disturbed \/ NoGhost(key'[t]))
      /\ \A t \in T : /\ key'[t].stage = w /\ w # Nobody
                      /\ key'[t].info = key[t].info
                      /\ key'[t].queue = Missing /\ key'[t].outcome = key[t].outcome
      /\ \A t \in Task \ T : key'[t] = key[t]
  BY <1>2, ClaimedKeys DEF IInv
<1>4. \A t \in T : t \in Task /\ Known(t) /\ Queued(t)
  BY ClaimableWaits
<1> HIDE DEF T
<1>5. \A t \in T : f[t] \in Slot
  BY <1>1 DEF FreeSlots
<1>6. \A t \in T : slot'[w][f[t]] # Free /\ slot'[w][f[t]].task = t
                   /\ slot'[w][f[t]].info = key[t].info /\ slot'[w][f[t]].stage = "run"
  <2> SUFFICES ASSUME NEW t \in T
               PROVE  slot'[w][f[t]] # Free /\ slot'[w][f[t]].task = t
                      /\ slot'[w][f[t]].info = key[t].info /\ slot'[w][f[t]].stage = "run"
    OBVIOUS
  <2>1. slot'[w][f[t]] = [task |-> t, info |-> key[t].info, stage |-> "run"]
        /\ [task |-> t, info |-> key[t].info, stage |-> "run"] \in Held
    BY <1>1
  <2> QED BY <2>1, FreeAssumption
<1>7. ASSUME NEW v \in Worker, NEW r \in Slot, NEW u \in Task, Holds(v, r, u)'
      PROVE  \/ v = w /\ u \in T /\ r = f[u]
             \/ Holds(v, r, u) /\ slot'[v][r] = slot[v][r]
  <2>1. CASE v = w /\ \E t \in T : f[t] = r
    BY <1>6, <1>7, <2>1 DEF Holds
  <2>2. CASE ~(v = w /\ \E t \in T : f[t] = r)
    BY <1>1, <1>7, <2>2 DEF Holds
  <2> QED BY <2>1, <2>2
<1>8. ASSUME NEW v \in Worker, NEW r \in Slot, NEW u \in Task, Holds(v, r, u)
      PROVE  Holds(v, r, u)'
  BY <1>1, <1>8 DEF Holds
<1>9. ASSUME NEW u \in Task PROVE Placed(u)'
  <2>1. CASE u \in T
    BY <1>3, <1>5, <1>6, <2>1 DEF Placed, HeldBy, Holds
  <2>2. CASE u \notin T
    <3>1. key[u].stage \in Worker \cup {Nobody}
      BY InvParts DEF Key
    <3> QED BY <1>2, <1>3, <1>8, <2>2, <3>1, InvParts, PlacedKept
  <2> QED BY <2>1, <2>2
<1>10. ASSUME NEW u \in Task \ disturbed' PROVE Exclusive(u)'
  <2>1. Exclusive(u)
    BY <1>2, InvParts
  <2>2. CASE u \in T
    <3>1. \A v \in Worker : \A r \in Slot : ~Holds(v, r, u)
      BY <1>2, <1>4, <2>2, SoundHeld
    <3>2. \A v \in Worker : \A r \in Slot : Holds(v, r, u)' => v = w /\ r = f[u]
      BY <1>7, <3>1
    <3>3. key[u].outcome = {}
      BY <1>4, <2>1, <2>2 DEF Exclusive
    <3> QED BY <1>3, <1>6, <2>2, <3>2, <3>3 DEF Exclusive
  <2>3. CASE u \notin T
    BY <1>3, <1>7, <2>1, <2>3, ExclusiveKept
  <2> QED BY <2>2, <2>3
<1>11. SweepsDoubt'
  BY <1>2, InvParts DEF SweepsDoubt
<1>12. SoundFound'
  <2> SUFFICES ASSUME NEW v \in Worker, NEW r \in Slot,
                      slot'[v][r] # Free, slot'[v][r].stage = "unfound"
               PROVE  slot'[v][r].task \in disturbed
    BY <1>2 DEF SoundFound
  <2>1. ~(v = w /\ \E t \in T : f[t] = r)
    BY <1>6
  <2> QED BY <1>1, <2>1, InvParts DEF SoundFound
<1> QED BY <1>2, <1>3, <1>9, <1>10, <1>11, <1>12, InvFromParts

\* A batch whose reply is lost is staged, and no slot holds it.
LEMMA AssignLostInv ==
  ASSUME TypeOK, IInv, NEW w \in Worker, AssignLost(w)
  PROVE  IInv'
<1> DEFINE T == Claimable(asking[w])
<1>1. UNCHANGED <<phase, slot, sweep, disturbed>> /\ ClaimAll(w, T)
      /\ dropped' = dropped \cup T
  BY DEF AssignLost
<1>2. /\ \A t \in Task : GoodKey(key'[t]) /\ (t \in disturbed \/ NoGhost(key'[t]))
      /\ \A t \in T : key'[t].queue = Missing /\ key'[t].outcome = key[t].outcome
      /\ \A t \in Task \ T : key'[t] = key[t]
  BY <1>1, ClaimedKeys DEF IInv
<1>3. \A t \in T : t \in Task /\ Known(t) /\ Queued(t)
  BY ClaimableWaits
<1> HIDE DEF T
<1>4. \A v \in Worker : \A r \in Slot : \A u \in Task : Holds(v, r, u)' <=> Holds(v, r, u)
  BY <1>1 DEF Holds
<1>5. ASSUME NEW u \in Task PROVE Placed(u)'
  <2>1. CASE u \in T
    BY <1>1, <2>1 DEF Placed
  <2>2. CASE u \notin T
    <3>1. key[u].stage \in Worker \cup {Nobody}
      BY InvParts DEF Key
    <3> QED BY <1>1, <1>2, <1>4, <2>2, <3>1, InvParts, PlacedKept
  <2> QED BY <2>1, <2>2
<1>6. ASSUME NEW u \in Task \ disturbed' PROVE Exclusive(u)'
  <2>1. Exclusive(u)
    BY <1>1, InvParts
  <2>2. CASE u \in T
    <3>1. \A v \in Worker : \A r \in Slot : ~Holds(v, r, u)
      BY <1>1, <1>3, <2>2, SoundHeld
    <3>2. \A v \in Worker : \A r \in Slot : ~Holds(v, r, u)'
      BY <1>4, <3>1
    <3>3. key[u].outcome = {}
      BY <1>3, <2>1, <2>2 DEF Exclusive
    <3> QED BY <1>2, <2>2, <3>2, <3>3 DEF Exclusive
  <2>3. CASE u \notin T
    BY <1>1, <1>2, <1>4, <2>1, <2>3, ExclusiveKept
  <2> QED BY <2>2, <2>3
<1>7. SweepsDoubt' /\ SoundFound'
  BY <1>1, InvParts DEF SweepsDoubt, SoundFound
<1> QED BY <1>1, <1>2, <1>5, <1>6, <1>7, InvFromParts

\* Steps in which slots are freed and no key changes: what a freed slot held is
\* of a worker that is gone, or counts as dropped.
LEMMA FreedInv ==
  ASSUME TypeOK, IInv, NEW w \in Worker,
         Crash(w) \/ \E s \in Slot : CallFails(w, s)
  PROVE  IInv'
<1>1. UNCHANGED <<key, sweep, disturbed>> /\ dropped \subseteq dropped'
      /\ \A v \in Worker : phase[v] = "gone" => phase'[v] = "gone"
  BY DEF Crash, CallFails, TypeOK
<1>2. ASSUME NEW v \in Worker, NEW r \in Slot
      PROVE  \/ slot'[v][r] = slot[v][r]
             \/ /\ slot'[v][r] = Free
                /\ phase'[v] = "gone" \/ slot[v][r].task \in dropped'
  <2>1. CASE Crash(w)
    BY <2>1, InvParts DEF Crash, TypeOK
  <2>2. ASSUME NEW s \in Slot, CallFails(w, s)
        PROVE  \/ slot'[v][r] = slot[v][r]
               \/ slot'[v][r] = Free /\ slot[v][r].task \in dropped'
    BY <2>2, InvParts DEF CallFails, FreeSlot
  <2> QED BY <2>1, <2>2
<1>3. \A v \in Worker : \A r \in Slot : \A u \in Task :
         Holds(v, r, u)' => Holds(v, r, u) /\ slot'[v][r].info = slot[v][r].info
  BY <1>2 DEF Holds
<1>4. ASSUME NEW u \in Task PROVE Placed(u)'
  <2> SUFFICES ASSUME Staged(u)'
               PROVE  LET v == key[u].stage IN
                      HeldBy(v, u)' \/ phase'[v] = "gone" \/ u \in dropped'
    BY <1>1 DEF Placed, Staged, HeldBy, Holds
  <2>1. PICK v \in Worker : v = key[u].stage
    BY <1>1, InvParts DEF Staged, Key
  <2>2. HeldBy(v, u) \/ phase[v] = "gone" \/ u \in dropped
    BY <1>1, <2>1, InvParts DEF Placed, Staged
  <2>3. ASSUME NEW r \in Slot, Holds(v, r, u)
        PROVE  Holds(v, r, u)' \/ phase'[v] = "gone" \/ u \in dropped'
    BY <1>2, <2>1, <2>3 DEF Holds
  <2>4. HeldBy(v, u)' \/ phase'[v] = "gone" \/ u \in dropped'
    BY <1>1, <2>1, <2>2, <2>3 DEF HeldBy
  <2> QED BY <1>1, <2>1, <2>4 DEF HeldBy, Holds
<1>5. ASSUME NEW u \in Task \ disturbed' PROVE Exclusive(u)'
  <2>1. Exclusive(u)
    BY <1>1, InvParts
  <2> QED BY <1>1, <1>3, <2>1, ExclusiveKept
<1>6. SweepsDoubt'
  BY <1>1, InvParts DEF SweepsDoubt
<1>7. SoundFound'
  BY <1>1, <1>2, InvParts DEF SoundFound
<1> QED BY <1>1, <1>4, <1>5, <1>6, <1>7, InvParts, InvFromParts

\* discard_tasks looks the task up: it finds every sound one.
LEMMA LookedUpInv ==
  ASSUME TypeOK, IInv, NEW w \in Worker, NEW s \in Slot, DiscardLookup(w, s)
  PROVE  IInv'
<1>1. UNCHANGED <<key, phase, sweep, dropped, disturbed>>
  BY DEF DiscardLookup
<1> DEFINE h == slot[w][s]
           stage == IF Known(h.task) THEN "found" ELSE "unfound"
<1>2. h \in Held /\ h # Free
  BY InvParts DEF DiscardLookup, Running
<1>3. slot' = [slot EXCEPT ![w] = [slot[w] EXCEPT ![s] = [h EXCEPT !.stage = stage]]]
  BY DEF DiscardLookup
<1>4. [h EXCEPT !.stage = stage] \in Held
      /\ [h EXCEPT !.stage = stage].task = h.task
      /\ [h EXCEPT !.stage = stage].info = h.info
      /\ [h EXCEPT !.stage = stage].stage = stage
  BY <1>2 DEF Held
<1>5. \A v \in Worker : \A r \in Slot :
         slot'[v][r] = IF v = w /\ r = s THEN [h EXCEPT !.stage = stage] ELSE slot[v][r]
  BY <1>3, InvParts
<1>6. \A v \in Worker : \A r \in Slot : \A u \in Task :
         /\ Holds(v, r, u)' <=> Holds(v, r, u)
         /\ Holds(v, r, u) => slot'[v][r].info = slot[v][r].info
  BY <1>2, <1>4, <1>5, FreeAssumption DEF Holds
<1>7. ASSUME NEW u \in Task PROVE Placed(u)'
  <2>1. key[u].stage \in Worker \cup {Nobody}
    BY InvParts DEF Key
  <2> QED BY <1>1, <1>6, <2>1, InvParts, PlacedKept
<1>8. ASSUME NEW u \in Task \ disturbed' PROVE Exclusive(u)'
  <2>1. Exclusive(u)
    BY <1>1, InvParts
  <2> QED BY <1>1, <1>6, <2>1, ExclusiveKept
<1>9. SweepsDoubt'
  BY <1>1, InvParts DEF SweepsDoubt
<1>10. stage = "unfound" => h.task \in disturbed
  BY <1>2, SoundHeld DEF Held, Holds
<1>11. SoundFound'
  <2> SUFFICES ASSUME NEW v \in Worker, NEW r \in Slot,
                      slot'[v][r] # Free, slot'[v][r].stage = "unfound"
               PROVE  slot'[v][r].task \in disturbed
    BY <1>1 DEF SoundFound
  <2>1. CASE v = w /\ r = s
    BY <1>4, <1>5, <1>10, <2>1
  <2>2. CASE ~(v = w /\ r = s)
    BY <1>5, <2>2, InvParts DEF SoundFound
  <2> QED BY <2>1, <2>2
<1> QED BY <1>1, <1>7, <1>8, <1>9, <1>11, InvParts, InvFromParts

\* Steps that change neither a key nor a slot, and doubt tasks at most.
LEMMA QuietInv ==
  ASSUME TypeOK, IInv, UNCHANGED <<key, slot, dropped>>,
         \A v \in Worker : phase[v] = "gone" => phase'[v] = "gone",
         disturbed \subseteq disturbed', SweepsDoubt'
  PROVE  IInv'
<1>1. \A v \in Worker : \A r \in Slot : \A u \in Task : Holds(v, r, u)' <=> Holds(v, r, u)
  BY DEF Holds
<1>2. ASSUME NEW u \in Task PROVE Placed(u)'
  <2>1. key[u].stage \in Worker \cup {Nobody}
    BY InvParts DEF Key
  <2> QED BY <1>1, <2>1, InvParts, PlacedKept
<1>3. ASSUME NEW u \in Task \ disturbed' PROVE Exclusive(u)'
  BY <1>1, InvParts, ExclusiveKept
<1>4. SoundFound'
  BY InvParts DEF SoundFound
<1> QED BY <1>2, <1>3, <1>4, InvParts, InvFromParts

\* The judgement of a sweep, and the lookup before a restore.
LEMMA JudgedInv ==
  ASSUME TypeOK, IInv, NEW p \in Sweeper,
         JudgeStage(p) \/ \E t \in Task : RestoreLookup(p, t)
  PROVE  IInv'
<1>1. UNCHANGED <<key, slot, dropped, phase>> /\ disturbed \subseteq disturbed'
  BY DEF JudgeStage, RestoreLookup
<1>2. SweepsDoubt'
  <2> SUFFICES ASSUME NEW q \in Sweeper
               PROVE  /\ sweep'[q].todo \subseteq disturbed'
                      /\ sweep'[q].next # Missing => sweep'[q].next.task \in disturbed'
    BY DEF SweepsDoubt
  <2>1. /\ sweep[q] \in Sweep /\ sweep[q].todo \subseteq disturbed
        /\ sweep[q].next # Missing => sweep[q].next.task \in disturbed
    BY InvParts DEF SweepsDoubt
  <2>2. CASE q # p
    BY <1>1, <2>1, <2>2, InvParts DEF JudgeStage, RestoreLookup
  <2>3. CASE q = p /\ JudgeStage(p)
    <3>1. PICK T \in SUBSET StagedTasks :
             /\ sweep' = [sweep EXCEPT ![p].todo = T]
             /\ disturbed' = disturbed \cup T
      BY <2>3 DEF JudgeStage
    <3>2. sweep'[p].todo = T /\ sweep'[p].next = sweep[p].next
      BY <3>1, InvParts DEF Sweep
    <3> QED BY <1>1, <2>1, <2>3, <3>1, <3>2
  <2>4. ASSUME q = p, NEW t \in Task, RestoreLookup(p, t)
        PROVE  /\ sweep'[q].todo \subseteq disturbed'
               /\ sweep'[q].next # Missing => sweep'[q].next.task \in disturbed'
    <3> DEFINE next == IF Known(t) THEN [task |-> t, due |-> key[t].info.due] ELSE Missing
    <3>1. next # Missing => next.task = t
      OBVIOUS
    <3>2. t \in sweep[p].todo /\ disturbed' = disturbed
          /\ sweep' = [sweep EXCEPT ![p] = [sweep[p] EXCEPT !.todo = @ \ {t}, !.next = next]]
      BY <2>4 DEF RestoreLookup
    <3> HIDE DEF next
    <3>3. sweep'[p].todo = sweep[p].todo \ {t} /\ sweep'[p].next = next
      BY <2>4, <3>2, <2>1, InvParts DEF Sweep
    <3> QED BY <2>1, <2>4, <3>1, <3>2, <3>3
  <2> QED BY <2>2, <2>3, <2>4
<1> QED BY <1>1, <1>2, QuietInv

\* discard_disposable_tasks: what it deletes while it waits or runs counts as
\* interfered with, and so does an id it leaves in the queue.
LEMMA DisposedKeys ==
  ASSUME TypeOK, IInv, NEW p \in Sweeper, DiscardDisposable(p)
  PROVE  /\ \A t \in Task : key'[t] \in Key /\ GoodKey(key'[t])
                            /\ (t \in disturbed' \/ NoGhost(key'[t]))
         /\ \A t \in trash[p].ids : /\ key'[t].info = Missing /\ key'[t].stage = Nobody
                                    /\ key'[t].outcome = {}
                                    /\ t \in disturbed' \/ ~Known(t) \/ ~(Queued(t) \/ Staged(t))
         /\ \A t \in Task \ trash[p].ids : key'[t] = key[t]
         /\ disturbed \subseteq disturbed' /\ trash[p].ids \subseteq Task
<1>1. /\ \A t \in Task : key'[t] = IF t \in trash[p].ids
                                   THEN Discard(key[t], t \in trash[p].found) ELSE key[t]
      /\ disturbed' = disturbed \cup {t \in trash[p].ids :
                         Known(t) /\ (key[t].ttl # "past" \/ Queued(t) \/ Staged(t))}
  BY DEF DiscardDisposable
<1>2. trash[p].ids \subseteq Task
  BY InvParts DEF Trash
<1>3. ASSUME NEW t \in trash[p].ids
      PROVE  /\ key'[t] \in Key /\ GoodKey(key'[t])
             /\ t \in disturbed' \/ NoGhost(key'[t])
             /\ key'[t].info = Missing /\ key'[t].stage = Nobody /\ key'[t].outcome = {}
  <2> DEFINE found == t \in trash[p].found
  <2>1. key'[t] = Discard(key[t], found) /\ t \in Task
    BY <1>1, <1>2
  <2>2. key[t] \in Key /\ GoodKey(key[t]) /\ (t \in disturbed \/ NoGhost(key[t]))
    BY <2>1, InvParts
  <2> HIDE DEF found
  <2>3. /\ Discard(key[t], found) \in Key
        /\ GoodKey(Discard(key[t], found))
        /\ Discard(key[t], found).stage = Nobody
        /\ Discard(key[t], found).info = Missing
        /\ Discard(key[t], found).outcome = {}
        /\ found \/ key[t].queue = Missing => NoGhost(Discard(key[t], found))
    BY <2>2, DiscardKey
  <2>4. t \in disturbed' \/ key[t].queue = Missing
    BY <1>1, <2>2 DEF NoGhost, Known, Queued
  <2> QED BY <2>1, <2>3, <2>4
<1> QED BY <1>1, <1>2, <1>3, InvParts

\* discard_disposable_tasks
LEMMA DisposedInv ==
  ASSUME TypeOK, IInv, NEW p \in Sweeper, DiscardDisposable(p)
  PROVE  IInv'
<1>1. /\ \A t \in Task : key'[t] \in Key /\ GoodKey(key'[t])
                         /\ (t \in disturbed' \/ NoGhost(key'[t]))
      /\ \A t \in trash[p].ids : /\ key'[t].stage = Nobody /\ key'[t].outcome = {}
                                 /\ t \in disturbed' \/ ~Known(t)
                                    \/ ~(Queued(t) \/ Staged(t))
      /\ \A t \in Task \ trash[p].ids : key'[t] = key[t]
      /\ disturbed \subseteq disturbed'
  BY DisposedKeys
<1>2. UNCHANGED <<phase, slot, sweep, dropped>>
  BY DEF DiscardDisposable
<1>3. \A v \in Worker : \A r \in Slot : \A u \in Task : Holds(v, r, u)' <=> Holds(v, r, u)
  BY <1>2 DEF Holds
<1>4. ASSUME NEW u \in Task PROVE Placed(u)'
  <2>1. CASE u \in trash[p].ids
    BY <1>1, <2>1 DEF Placed, Staged
  <2>2. CASE u \notin trash[p].ids
    <3>1. key[u].stage \in Worker \cup {Nobody}
      BY InvParts DEF Key
    <3> QED BY <1>1, <1>2, <1>3, <2>2, <3>1, InvParts, PlacedKept
  <2> QED BY <2>1, <2>2
<1>5. ASSUME NEW u \in Task \ disturbed' PROVE Exclusive(u)'
  <2>1. Exclusive(u)
    BY <1>1, InvParts
  <2>2. CASE u \in trash[p].ids
    <3>1. \A v \in Worker : \A r \in Slot : ~Holds(v, r, u)
      BY <1>1, <2>2, SoundHeld
    <3>2. \A v \in Worker : \A r \in Slot : ~Holds(v, r, u)'
      BY <1>3, <3>1
    <3> QED BY <1>1, <2>2, <3>2 DEF Exclusive
  <2>3. CASE u \notin trash[p].ids
    BY <1>1, <1>2, <1>3, <2>1, <2>3, ExclusiveKept
  <2> QED BY <2>2, <2>3
<1>6. SweepsDoubt' /\ SoundFound'
  BY <1>1, <1>2, InvParts DEF SweepsDoubt, SoundFound
<1> QED BY <1>1, <1>4, <1>5, <1>6, InvFromParts

-----------------------------------------------------------------------------
(* Every step.                                                             *)

\* The ends of executions keep the types.
LEMMA TypeEnded ==
  ASSUME TypeOK, IInv, NEW w \in Worker, NEW s \in Slot, HandleTask(w, s)
  PROVE  TypeOK'
<1> USE DEF TypeOK, StoreTypeOK
<1>1. UNCHANGED <<now, phase, asking, sweep, trash, disturbed>>
  BY DEF HandleTask, Finish, Retry, CallFails, DiscardLookup, DiscardTask
<1>2. slot' \in [Worker -> [Slot -> Held \cup {Free}]] /\ dropped' \in SUBSET Task
  <2>1. CASE FreeSlot(w, s)
    <3>1. slot' \in [Worker -> [Slot -> Held \cup {Free}]]
      BY <2>1 DEF FreeSlot
    <3>2. CASE CallFails(w, s)
      <4>1. slot[w][s] \in Held
        BY <3>2 DEF CallFails
      <4> QED BY <3>1, <3>2, <4>1 DEF CallFails, Held
    <3>3. CASE ~CallFails(w, s)
      <4>1. dropped' = dropped
        BY <3>3 DEF HandleTask, Finish, Retry, DiscardTask, DiscardLookup
      <4> QED BY <3>1, <4>1
    <3> QED BY <3>2, <3>3
  <2>2. CASE DiscardLookup(w, s)
    <3>1. slot[w][s] \in Held
      BY <2>2 DEF DiscardLookup, Running
    <3>2. PICK stage \in {"found", "unfound"} :
             slot' = [slot EXCEPT ![w] = [slot[w] EXCEPT ![s] =
                                            [slot[w][s] EXCEPT !.stage = stage]]]
      BY <2>2 DEF DiscardLookup
    <3>3. [slot[w][s] EXCEPT !.stage = stage] \in Held
      BY <3>1 DEF Held
    <3>4. [slot[w] EXCEPT ![s] = [slot[w][s] EXCEPT !.stage = stage]]
             \in [Slot -> Held \cup {Free}]
      BY <3>3
    <3> HIDE DEF TypeOK
    <3> QED BY <2>2, <3>2, <3>4, InvParts DEF DiscardLookup, TypeOK
  <2> QED BY <2>1, <2>2 DEF HandleTask, Finish, Retry, CallFails, DiscardTask
<1>3. key' \in [Task -> Key]
  <2>1. CASE Finish(w, s) \/ Retry(w, s) \/ DiscardTask(w, s)
    BY <2>1, EndedKey
  <2>2. CASE ~(Finish(w, s) \/ Retry(w, s) \/ DiscardTask(w, s))
    BY <2>2 DEF HandleTask, CallFails, DiscardLookup
  <2> QED BY <2>1, <2>2
<1> QED BY <1>1, <1>2, <1>3

\* A claim keeps the types, and so does its beginning.
LEMMA TypeAssign ==
  ASSUME TypeOK, IInv, NEW w \in Worker, BeginAssign(w) \/ Assign(w) \/ AssignLost(w)
  PROVE  TypeOK'
<1> USE DEF TypeOK, StoreTypeOK
<1>1. Cardinality(FreeSlots(w)) \in 0 .. Cardinality(Slot)
  <2>1. FreeSlots(w) \subseteq Slot
    BY DEF FreeSlots
  <2> QED BY <2>1, SlotAssumption, FS_Subset, FS_CardinalityType
<1>2. 0 \in 0 .. Cardinality(Slot)
  BY SlotAssumption, FS_CardinalityType
<1>3. CASE BeginAssign(w)
  BY <1>1, <1>3 DEF BeginAssign
<1> DEFINE T == Claimable(asking[w])
<1>4. T \subseteq Task
  BY ClaimableWaits
<1>5. CASE Assign(w)
  <2>1. key' \in [Task -> Key]
    BY <1>5, ClaimedKeys DEF Assign, IInv
  <2>2. PICK f \in [T -> FreeSlots(w)] :
           /\ \A t, u \in T : f[t] = f[u] => t = u
           /\ \A v \in Worker : \A r \in Slot :
                 /\ v = w /\ (\E t \in T : f[t] = r) => slot[v][r] = Free
                 /\ ~(v = w /\ \E t \in T : f[t] = r) => slot'[v][r] = slot[v][r]
           /\ \A t \in T :
                 slot'[w][f[t]] = [task |-> t, info |-> key[t].info, stage |-> "run"]
           /\ \A t \in T : [task |-> t, info |-> key[t].info, stage |-> "run"] \in Held
    BY <1>5, AssignedSlots
  <2> HIDE DEF T
  <2>3. ASSUME NEW v \in Worker, NEW r \in Slot
        PROVE  slot'[v][r] \in Held \cup {Free}
    <3>1. CASE v = w /\ \E t \in T : f[t] = r
      <4>1. PICK t \in T : f[t] = r
        BY <3>1
      <4>2. slot'[w][r] = [task |-> t, info |-> key[t].info, stage |-> "run"]
            /\ [task |-> t, info |-> key[t].info, stage |-> "run"] \in Held
        BY <2>2, <4>1
      <4> QED BY <3>1, <4>2
    <3>2. CASE ~(v = w /\ \E t \in T : f[t] = r)
      <4>1. slot'[v][r] = slot[v][r]
        BY <2>2, <3>2
      <4> QED BY <4>1, InvParts
    <3> QED BY <3>1, <3>2
  <2>4. \E h : slot' = [slot EXCEPT ![w] = [s \in Slot |-> h[s]]]
    <3>1. PICK f2 \in Placements(w, T) :
             slot' = [slot EXCEPT ![w] = [s \in Slot |->
                        IF \E t \in T : f2[t] = s
                        THEN LET t == CHOOSE u \in T : f2[u] = s
                             IN [task |-> t, info |-> key[t].info, stage |-> "run"]
                        ELSE slot[w][s]]]
      BY <1>5 DEF Assign, T
    <3> DEFINE h == [s \in Slot |->
                        IF \E t \in T : f2[t] = s
                        THEN LET t == CHOOSE u \in T : f2[u] = s
                             IN [task |-> t, info |-> key[t].info, stage |-> "run"]
                        ELSE slot[w][s]]
    <3>2. slot' = [slot EXCEPT ![w] = h]
      BY <3>1
    <3>3. h = [s \in Slot |-> h[s]]
      OBVIOUS
    <3> HIDE DEF h
    <3> QED BY <3>2, <3>3
  <2>5. slot' \in [Worker -> [Slot -> Held \cup {Free}]]
    BY <2>3, <2>4
  <2> QED BY <1>2, <1>5, <2>1, <2>5 DEF Assign
<1>6. CASE AssignLost(w)
  <2>1. key' \in [Task -> Key]
    BY <1>6, ClaimedKeys DEF AssignLost, IInv
  <2> QED BY <1>2, <1>4, <1>6, <2>1 DEF AssignLost
<1> QED BY <1>3, <1>5, <1>6

\* The helper services keep the types.
LEMMA TypeHouse ==
  ASSUME TypeOK, IInv, NEW p \in Sweeper, HouseStep(p)
  PROVE  TypeOK'
<1> USE DEF TypeOK, StoreTypeOK
<1>0. UNCHANGED <<now, phase, asking, slot, dropped>>
  BY DEF HouseStep, JudgeStage, RestoreLookup, RestoreTask, ListDisposable,
         LookupDisposable, DiscardDisposable
<1>1. sweep[p] \in Sweep /\ trash[p] \in Trash
  OBVIOUS
<1>2. CASE JudgeStage(p)
  <2>1. PICK T \in SUBSET Task :
           sweep' = [sweep EXCEPT ![p] = [sweep[p] EXCEPT !.todo = T]]
           /\ disturbed' = disturbed \cup T
    BY <1>2 DEF JudgeStage, StagedTasks
  <2>2. [sweep[p] EXCEPT !.todo = T] \in Sweep
    BY <1>1 DEF Sweep
  <2> QED BY <1>0, <1>2, <2>1, <2>2 DEF JudgeStage
<1>3. ASSUME NEW t \in Task, RestoreLookup(p, t) PROVE TypeOK'
  <2> DEFINE next == IF Known(t) THEN [task |-> t, due |-> key[t].info.due] ELSE Missing
  <2>1. next \in [task: Task, due: Time] \cup {Missing}
    <3>1. Known(t) => key[t].info \in Info
      BY DEF Known, Key
    <3> QED BY <3>1 DEF Info
  <2>2. sweep' = [sweep EXCEPT ![p] = [sweep[p] EXCEPT !.todo = @ \ {t}, !.next = next]]
    BY <1>3 DEF RestoreLookup
  <2> HIDE DEF next
  <2>3. [sweep[p] EXCEPT !.todo = @ \ {t}, !.next = next] \in Sweep
    BY <1>1, <2>1 DEF Sweep
  <2> QED BY <1>0, <1>3, <2>2, <2>3 DEF RestoreLookup
<1>4. CASE RestoreTask(p)
  <2>1. key' \in [Task -> Key]
    BY <1>4, RestoredKey
  <2>2. [sweep[p] EXCEPT !.next = Missing] \in Sweep
    BY <1>1 DEF Sweep
  <2>3. sweep' = [sweep EXCEPT ![p] = [sweep[p] EXCEPT !.next = Missing]]
    BY <1>4 DEF RestoreTask
  <2> QED BY <1>0, <1>4, <2>1, <2>2, <2>3 DEF RestoreTask
<1>5. CASE ListDisposable(p)
  <2>1. [trash[p] EXCEPT !.ids = DisposableTasks] \in Trash
    BY <1>1 DEF Trash, DisposableTasks
  <2>2. trash' = [trash EXCEPT ![p] = [trash[p] EXCEPT !.ids = DisposableTasks]]
    BY <1>5 DEF ListDisposable
  <2> QED BY <1>0, <1>5, <2>1, <2>2 DEF ListDisposable
<1>6. CASE LookupDisposable(p)
  <2> DEFINE found == {t \in trash[p].ids : Known(t)}
  <2>1. found \in SUBSET Task
    BY <1>1 DEF Trash
  <2>2. trash' = [trash EXCEPT ![p] = [trash[p] EXCEPT !.looked = TRUE, !.found = found]]
    BY <1>6 DEF LookupDisposable
  <2> HIDE DEF found
  <2>3. [trash[p] EXCEPT !.looked = TRUE, !.found = found] \in Trash
    BY <1>1, <2>1 DEF Trash
  <2> QED BY <1>0, <1>6, <2>2, <2>3 DEF LookupDisposable
<1>7. CASE DiscardDisposable(p)
  <2>1. key' \in [Task -> Key]
    BY <1>7, DisposedKeys DEF DiscardDisposable
  <2>2. NoTrash \in Trash
    BY DEF NoTrash, Trash
  <2>3. disturbed' \in SUBSET Task
    BY <1>1, <1>7 DEF DiscardDisposable, Trash
  <2> QED BY <1>0, <1>7, <2>1, <2>2, <2>3 DEF DiscardDisposable
<1> QED BY <1>2, <1>3, <1>4, <1>5, <1>6, <1>7 DEF HouseStep

\* Every step keeps the types.
LEMMA TypeStep == TypeOK /\ IInv /\ [Next]_vars => TypeOK'
<1> SUFFICES ASSUME TypeOK, IInv, [Next]_vars PROVE TypeOK'
  OBVIOUS
<1> USE DEF TypeOK, StoreTypeOK
<1>1. CASE Clock
  <2>1. CASE Tick
    <3>1. now' \in Time
      BY <2>1, BoundAssumption DEF Tick, Time
    <3>2. UNCHANGED <<key, phase, asking, slot, sweep, trash, dropped, disturbed>>
      BY <1>1, <2>1 DEF Clock, Tick, fleetVars
    <3> QED BY <3>1, <3>2
  <2>2. ASSUME NEW t \in Task, TtlPasses(t) PROVE TypeOK'
    <3>1. key' = [key EXCEPT ![t] = [key[t] EXCEPT !.ttl = "past"]]
      BY <2>2 DEF TtlPasses, Update
    <3>2. [key[t] EXCEPT !.ttl = "past"] \in Key
      BY <2>2, InvParts, PassKey DEF TtlPasses
    <3>3. UNCHANGED <<now, phase, asking, slot, sweep, trash, dropped, disturbed>>
      BY <1>1, <2>2 DEF Clock, TtlPasses, fleetVars
    <3> QED BY <3>1, <3>2, <3>3
  <2> QED BY <1>1, <2>1, <2>2 DEF Clock
<1>2. ASSUME NEW t \in Task, Submit(t) PROVE TypeOK'
  <2>1. key' \in [Task -> Key]
    BY <1>2, SubmitKey
  <2> QED BY <1>2, <2>1 DEF Submit, fleetVars
<1>3. ASSUME NEW w \in Worker, Stop(w) \/ Crash(w) PROVE TypeOK'
  <2>1. 0 \in 0 .. Cardinality(Slot)
    BY SlotAssumption, FS_CardinalityType
  <2>2. UNCHANGED <<now, key, sweep, trash, dropped, disturbed>>
    BY <1>3 DEF Stop, Crash
  <2>3. phase' \in [Worker -> {"up", "draining", "gone"}]
    BY <1>3 DEF Stop, Crash
  <2>4. asking' \in [Worker -> 0 .. Cardinality(Slot)]
    BY <1>3, <2>1 DEF Stop, Crash
  <2>5. slot' \in [Worker -> [Slot -> Held \cup {Free}]]
    BY <1>3 DEF Stop, Crash
  <2> QED BY <2>2, <2>3, <2>4, <2>5
<1>4. CASE UNCHANGED vars
  BY <1>4 DEF vars, fleetVars
<1> QED BY <1>1, <1>2, <1>3, <1>4, TypeAssign, TypeEnded, TypeHouse DEF Next

\* Every step keeps the invariant.
LEMMA InvStep == TypeOK /\ IInv /\ [Next]_vars => IInv'
<1> SUFFICES ASSUME TypeOK, IInv, [Next]_vars PROVE IInv'
  OBVIOUS
<1>1. ASSUME UNCHANGED <<key, slot, dropped, phase, sweep, disturbed>> PROVE IInv'
  <2>1. SweepsDoubt'
    BY <1>1, InvParts DEF SweepsDoubt
  <2> QED BY <1>1, <2>1, QuietInv
<1>2. CASE Clock
  BY <1>1, <1>2, TtlInv DEF Clock, Tick, fleetVars
<1>3. ASSUME NEW w \in Worker, Stop(w) PROVE IInv'
  <2>1. /\ UNCHANGED <<key, slot, dropped, sweep, disturbed>>
        /\ \A v \in Worker : phase[v] = "gone" => phase'[v] = "gone"
    BY <1>3 DEF Stop, TypeOK
  <2>2. SweepsDoubt'
    BY <2>1, InvParts DEF SweepsDoubt
  <2> QED BY <2>1, <2>2, QuietInv
<1>4. ASSUME NEW w \in Worker, BeginAssign(w) \/ Assign(w) \/ AssignLost(w) PROVE IInv'
  BY <1>1, <1>4, AssignInv, AssignLostInv DEF BeginAssign
<1>5. ASSUME NEW w \in Worker, Crash(w) PROVE IInv'
  BY <1>5, FreedInv
<1>6. ASSUME NEW w \in Worker, NEW s \in Slot, HandleTask(w, s) PROVE IInv'
  BY <1>6, FreedInv, EndedInv, LookedUpInv DEF HandleTask
<1>7. ASSUME NEW p \in Sweeper, HouseStep(p) PROVE IInv'
  BY <1>1, <1>7, JudgedInv, RestoreInv, DisposedInv
  DEF HouseStep, ListDisposable, LookupDisposable
<1>8. CASE UNCHANGED vars
  BY <1>1, <1>8 DEF vars, fleetVars
<1> QED BY <1>2, <1>3, <1>4, <1>5, <1>6, <1>7, <1>8, SubmitInv DEF Next

\* Types and invariant hold in every reachable state.
LEMMA Invariance == Spec => [](TypeOK /\ IInv)
<1>1. TypeOK /\ IInv /\ [Next]_vars => (TypeOK /\ IInv)'
  BY TypeStep, InvStep
<1> QED BY InitInv, <1>1, PTL DEF Spec

\* The variables have their types (impls/redis.rs, worker.rs, service.rs).
THEOREM RedisTypeCorrect == Spec => []TypeOK
BY Invariance, PTL

\* The keys that impls/redis.rs keeps of a task agree after every script and
\* pipeline, whatever the fleet does between a lookup and its pipeline.
THEOREM RedisKeysAgree == Spec => []KeysAgree
BY Invariance, PTL DEF IInv

\* A staged task has a worker that knows of it, unless that worker crashed or a
\* call about the task failed (assign_tasks, handle_task).
THEOREM RedisNoOrphan == Spec => []NoOrphan
BY Invariance, PTL DEF IInv

\* A task no service interfered with runs in one place, the one its stage names,
\* and neither waits nor runs once it has an outcome.
THEOREM RedisExclusive == Spec => []ExclusiveExecution
BY Invariance, PTL DEF IInv

-----------------------------------------------------------------------------
(* The contract.                                                           *)

\* What a client sees of the fleet: the values of the contract's variables.
statusBar == [t \in Task |-> Status(t)]
Runs(t)   == {e \in Worker \X Slot : Holds(e[1], e[2], t)}
runsBar   == [t \in Task |-> Runs(t)]
soundBar  == Task \ disturbed

\* The status of a task is a function of its keys.
LEMMA StatusCases ==
  ASSUME NEW t \in Task
  PROVE  /\ Status(t) = "absent" <=> ~Known(t)
         /\ Status(t) = "queued" <=> Known(t) /\ Queued(t)
         /\ Status(t) = "started" <=> Known(t) /\ ~Queued(t) /\ Staged(t)
         /\ Status(t) = "settled" <=> Known(t) /\ ~Queued(t) /\ ~Staged(t)
         /\ Status(t) \in {"absent", "queued", "started", "settled"}
BY DEF Status

\* The same after a step.
LEMMA StatusCasesNext ==
  ASSUME NEW t \in Task
  PROVE  /\ Status(t)' = "absent" <=> key'[t].info = Missing
         /\ Status(t)' = "queued" <=> key'[t].info # Missing /\ key'[t].queue # Missing
         /\ Status(t)' = "started" <=> /\ key'[t].info # Missing /\ key'[t].queue = Missing
                                       /\ key'[t].stage # Nobody
         /\ Status(t)' \in {"absent", "queued", "started", "settled"}
         /\ key'[t] = key[t] => Status(t)' = Status(t)
BY DEF Status, Known, Queued, Staged

\* Steps that show nothing to a client.
LEMMA ContractStutter ==
  ASSUME \A t \in Task : Status(t)' = Status(t) /\ Runs(t)' = Runs(t),
         disturbed' = disturbed
  PROVE  UNCHANGED Contract!vars
BY DEF Contract!vars, Runs

\* When no slot changes, no execution starts or ends.
LEMMA RunsKept ==
  ASSUME slot' = slot
  PROVE  /\ \A t \in Task : Runs(t)' = Runs(t)
         /\ runsBar' = runsBar
BY DEF runsBar, Runs, Holds

\* Executions that leave the slots E leave every task's executions.
LEMMA RunsLeave ==
  ASSUME NEW E \in SUBSET (Worker \X Slot),
         \A v \in Worker, r \in Slot, u \in Task :
            Holds(v, r, u)' <=> Holds(v, r, u) /\ <<v, r>> \notin E
  PROVE  /\ \A u \in Task : Runs(u)' = Runs(u) \ E
         /\ runsBar' = [u \in Task |-> runsBar[u] \ E]
<1>1. \A u \in Task : Runs(u)' = Runs(u) \ E
  <2> SUFFICES ASSUME NEW u \in Task, NEW e \in Worker \X Slot
               PROVE  e \in Runs(u)' <=> e \in Runs(u) /\ e \notin E
    BY DEF Runs
  <2>1. e[1] \in Worker /\ e[2] \in Slot /\ e = <<e[1], e[2]>>
    OBVIOUS
  <2> QED BY <2>1 DEF Runs
<1> QED BY <1>1 DEF runsBar

\* Initially nothing was submitted and nothing runs.
LEMMA ContractInit == Init => Contract!Init
<1> SUFFICES ASSUME Init PROVE Contract!Init
  OBVIOUS
<1>1. \A t \in Task : Status(t) = "absent"
  BY StatusCases DEF Init, StoreInit, NoKey, Known
<1>2. \A t \in Task : Runs(t) = {}
  BY DEF Init, Runs, Holds
<1>3. disturbed = {}
  BY DEF Init
<1> QED BY <1>1, <1>2, <1>3 DEF Contract!Init, Runs

\* A submission is Submit of the contract, or shows nothing.
LEMMA ContractSubmit ==
  ASSUME TypeOK, IInv, NEW t \in Task, Submit(t)
  PROVE  Contract!Next \/ UNCHANGED Contract!vars
<1>1. PICK k \in Key :
         /\ key' = [key EXCEPT ![t] = k]
         /\ Known(t) => k = key[t]
         /\ ~Known(t) => k.info # Missing /\ k.queue # Missing
  BY SubmitKey
<1>2. slot' = slot /\ disturbed' = disturbed
  BY DEF Submit, fleetVars
<1>3. key'[t] = k /\ \A u \in Task \ {t} : key'[u] = key[u]
  BY <1>1, InvParts
<1>4. CASE Known(t)
  BY <1>1, <1>2, <1>3, <1>4, RunsKept, StatusCasesNext, ContractStutter
<1>5. CASE ~Known(t)
  <2>1. Status(t) = "absent" /\ Status(t)' = "queued"
    BY <1>1, <1>3, <1>5, StatusCases, StatusCasesNext
  <2>2. statusBar' = [statusBar EXCEPT ![t] = "queued"]
    BY <1>3, <2>1, StatusCasesNext DEF statusBar
  <2>3. Contract!Submit(t)
    BY <1>2, <2>1, <2>2, RunsKept
    DEF Contract!Submit, Contract!Become, statusBar, runsBar, soundBar, Runs
  <2> QED BY <2>3 DEF Contract!Next
<1> QED BY <1>4, <1>5

\* A batch that leaves the queue begins to run, as the contract says.
LEMMA ContractBegin ==
  ASSUME TypeOK, IInv, NEW w \in Worker, NEW n, ClaimAll(w, Claimable(n))
  PROVE  Contract!Begin(Claimable(n))
<1> DEFINE T == Claimable(n)
<1>1. /\ \A t \in T : /\ key'[t].stage = w /\ w # Nobody
                      /\ key'[t].info # Missing /\ key'[t].queue = Missing
      /\ \A t \in Task \ T : key'[t] = key[t]
  BY ClaimedKeys DEF IInv
<1>2. \A t \in T : t \in Task /\ Status(t) = "queued"
  BY ClaimableWaits, StatusCases
<1> HIDE DEF T
<1>3. \A t \in Task : Status(t)' = IF t \in T THEN "started" ELSE Status(t)
  BY <1>1, StatusCasesNext
<1>4. statusBar' = [t \in Task |-> IF t \in {} THEN "settled"
                                  ELSE IF t \in T THEN "started" ELSE statusBar[t]]
  BY <1>3 DEF statusBar
<1>5. {} \in SUBSET (T \ soundBar)
  OBVIOUS
<1>6. Contract!Begin(T)
  BY <1>2, <1>4, <1>5 DEF Contract!Begin, statusBar, soundBar
<1> QED BY <1>6 DEF T

\* A claim is Start of the contract for the whole batch.
LEMMA ContractAssign ==
  ASSUME TypeOK, IInv, NEW w \in Worker, Assign(w)
  PROVE  Contract!Next
<1> DEFINE T == Claimable(asking[w])
<1>1. PICK f \in [T -> FreeSlots(w)] :
         /\ \A t, u \in T : f[t] = f[u] => t = u
         /\ \A v \in Worker : \A r \in Slot :
               /\ v = w /\ (\E t \in T : f[t] = r) => slot[v][r] = Free
               /\ ~(v = w /\ \E t \in T : f[t] = r) => slot'[v][r] = slot[v][r]
         /\ \A t \in T :
               slot'[w][f[t]] = [task |-> t, info |-> key[t].info, stage |-> "run"]
         /\ \A t \in T : [task |-> t, info |-> key[t].info, stage |-> "run"] \in Held
  BY AssignedSlots
<1>2. ClaimAll(w, T) /\ disturbed' = disturbed
  BY DEF Assign
<1>3. Contract!Begin(T)
  BY <1>2, ContractBegin
<1>4. \A t \in T : t \in Task /\ Queued(t)
  BY ClaimableWaits
<1> HIDE DEF T
<1>5. \A t \in T : f[t] \in Slot /\ slot'[w][f[t]] # Free /\ slot'[w][f[t]].task = t
  <2> SUFFICES ASSUME NEW t \in T
               PROVE  f[t] \in Slot /\ slot'[w][f[t]] # Free /\ slot'[w][f[t]].task = t
    OBVIOUS
  <2>1. slot'[w][f[t]] = [task |-> t, info |-> key[t].info, stage |-> "run"]
        /\ [task |-> t, info |-> key[t].info, stage |-> "run"] \in Held
    BY <1>1
  <2>2. f[t] \in FreeSlots(w)
    BY <1>1
  <2> QED BY <2>1, <2>2, FreeAssumption DEF FreeSlots
<1> DEFINE exec == [t \in T |-> <<w, f[t]>>]
<1>6. ASSUME NEW u \in Task, NEW v \in Worker, NEW r \in Slot
      PROVE  Holds(v, r, u)' <=> Holds(v, r, u) \/ (v = w /\ u \in T /\ r = f[u])
  <2>1. CASE v = w /\ \E t \in T : f[t] = r
    BY <1>1, <1>5, <2>1 DEF Holds
  <2>2. CASE ~(v = w /\ \E t \in T : f[t] = r)
    BY <1>1, <2>2 DEF Holds
  <2> QED BY <2>1, <2>2
<1>7. ASSUME NEW u \in Task
      PROVE  Runs(u)' = IF u \in T THEN Runs(u) \cup {<<w, f[u]>>} ELSE Runs(u)
  <2>1. ASSUME NEW e \in Worker \X Slot
        PROVE  e \in Runs(u)' <=> e \in Runs(u) \/ (u \in T /\ e = <<w, f[u]>>)
    <3>1. e[1] \in Worker /\ e[2] \in Slot /\ e = <<e[1], e[2]>>
      OBVIOUS
    <3> QED BY <1>6, <3>1 DEF Runs
  <2>2. u \in T => <<w, f[u]>> \in Worker \X Slot
    BY <1>5
  <2> QED BY <2>1, <2>2 DEF Runs
<1>8. runsBar' = [u \in Task |-> IF u \in T THEN runsBar[u] \cup {exec[u]} ELSE runsBar[u]]
  BY <1>7 DEF runsBar
<1>9. \A t \in T \cap soundBar : runsBar[t] = {}
  <2> SUFFICES ASSUME NEW t \in T, t \notin disturbed PROVE Runs(t) = {}
    BY <1>4 DEF soundBar, runsBar
  <2>1. \A v \in Worker : \A r \in Slot : ~Holds(v, r, t)
    BY <1>4, SoundHeld
  <2> QED BY <2>1 DEF Runs
<1>10. \A t, u \in T : exec[t] = exec[u] => t = u
  BY <1>1
<1>11. exec \in [T -> Worker \X Slot] /\ T \in SUBSET Task
  BY <1>4, <1>5
<1> HIDE DEF exec
<1>12. Contract!Start(T, exec)
  BY <1>2, <1>3, <1>8, <1>9, <1>10 DEF Contract!Start, runsBar, soundBar, Runs
<1> QED BY <1>11, <1>12 DEF Contract!Next

\* A claim whose reply is lost is StartUnheard.
LEMMA ContractAssignLost ==
  ASSUME TypeOK, IInv, NEW w \in Worker, AssignLost(w)
  PROVE  Contract!Next
<1> DEFINE T == Claimable(asking[w])
<1>1. ClaimAll(w, T) /\ disturbed' = disturbed /\ slot' = slot
  BY DEF AssignLost
<1>2. Contract!Begin(T) /\ T \in SUBSET Task
  BY <1>1, ContractBegin, ClaimableWaits
<1> HIDE DEF T
<1>3. runsBar' = [u \in Task |-> runsBar[u] \ {}]
  BY <1>1, RunsKept DEF runsBar
<1>4. Contract!StartUnheard(T, {})
  BY <1>1, <1>2, <1>3 DEF Contract!StartUnheard, runsBar, soundBar, Runs
<1>5. {} \in SUBSET (Worker \X Slot)
  OBVIOUS
<1> QED BY <1>2, <1>4, <1>5 DEF Contract!Next

\* A crash, or a failed call about a task, is Vanish.
LEMMA ContractFreed ==
  ASSUME TypeOK, IInv, NEW w \in Worker,
         Crash(w) \/ \E s \in Slot : CallFails(w, s)
  PROVE  Contract!Next
<1> DEFINE E == {e \in Worker \X Slot : slot[e[1]][e[2]] # Free /\ slot'[e[1]][e[2]] = Free}
<1>1. \A v \in Worker, r \in Slot : slot'[v][r] \in {slot[v][r], Free}
  BY InvParts DEF Crash, CallFails, FreeSlot
<1>2. \A v \in Worker, r \in Slot, u \in Task :
         Holds(v, r, u)' <=> Holds(v, r, u) /\ <<v, r>> \notin E
  BY <1>1 DEF Holds
<1>3. E \in SUBSET (Worker \X Slot)
  OBVIOUS
<1> HIDE DEF E
<1>4. runsBar' = [u \in Task |-> runsBar[u] \ E]
  BY <1>2, <1>3, RunsLeave
<1>5. key' = key /\ disturbed' = disturbed
  BY DEF Crash, CallFails
<1>6. statusBar' = statusBar
  BY <1>5, StatusCasesNext DEF statusBar
<1>7. Contract!Vanish(E)
  BY <1>4, <1>5, <1>6 DEF Contract!Vanish, statusBar, runsBar, soundBar, Runs
<1> QED BY <1>3, <1>7 DEF Contract!Next

\* The end of an execution is Settle.
LEMMA ContractEnded ==
  ASSUME TypeOK, IInv, NEW w \in Worker, NEW s \in Slot,
         Finish(w, s) \/ Retry(w, s) \/ DiscardTask(w, s)
  PROVE  Contract!Next
<1>1. PICK t \in Task, k \in Key :
         /\ Holds(w, s, t)
         /\ key' = [key EXCEPT ![t] = k]
         /\ k.stage = Nobody
  BY EndedKey
<1>2. FreeSlot(w, s) /\ disturbed' = disturbed
  BY DEF Finish, Retry, DiscardTask
<1>3. key'[t] = k /\ \A u \in Task \ {t} : key'[u] = key[u]
  BY <1>1, InvParts
<1>4. \A v \in Worker, r \in Slot, u \in Task :
         Holds(v, r, u)' <=> Holds(v, r, u) /\ <<v, r>> \notin {<<w, s>>}
  BY <1>2, InvParts DEF FreeSlot, Holds
<1>5. runsBar' = [u \in Task |-> runsBar[u] \ {<<w, s>>}]
      /\ \A u \in Task : Runs(u)' = Runs(u) \ {<<w, s>>}
  <2>1. {<<w, s>>} \in SUBSET (Worker \X Slot)
    OBVIOUS
  <2> QED BY <1>4, <2>1, RunsLeave
<1>6. \A u \in Task \ {t} : <<w, s>> \notin Runs(u)
  BY <1>1 DEF Runs, Holds
<1>7. runsBar' = [runsBar EXCEPT ![t] = @ \ {<<w, s>>}]
  <2>1. \A u \in Task \ {t} : Runs(u)' = Runs(u)
    BY <1>5, <1>6
  <2>2. Runs(t)' = Runs(t) \ {<<w, s>>}
    BY <1>5
  <2> QED BY <2>1, <2>2 DEF runsBar
<1>8. Status(t)' \in {"settled", "queued", "absent"}
  BY <1>1, <1>3, StatusCasesNext
<1>9. statusBar' = [statusBar EXCEPT ![t] = Status(t)']
  BY <1>3, StatusCasesNext DEF statusBar
<1>10. t \notin disturbed => Status(t) = "started"
  BY <1>1, SoundHeld, StatusCases
<1>11. <<w, s>> \in Runs(t) /\ <<w, s>> \in Worker \X Slot
  BY <1>1 DEF Runs
<1>12. Contract!Settle(t, <<w, s>>)
  BY <1>2, <1>7, <1>8, <1>9, <1>10, <1>11
  DEF Contract!Settle, Contract!Become, statusBar, runsBar, soundBar, Runs
<1> QED BY <1>11, <1>12 DEF Contract!Next

\* A restore is Requeue, or the task was gone.
LEMMA ContractRestore ==
  ASSUME TypeOK, IInv, NEW p \in Sweeper, RestoreTask(p)
  PROVE  Contract!Next \/ UNCHANGED Contract!vars
<1>1. PICK t \in disturbed, k \in Key :
         /\ t \in Task
         /\ key' = [key EXCEPT ![t] = k]
         /\ k.queue # Missing /\ k.info = key[t].info
  BY RestoredKey
<1>2. slot' = slot /\ disturbed' = disturbed
  BY DEF RestoreTask
<1>3. key'[t] = k /\ \A u \in Task \ {t} : key'[u] = key[u]
  BY <1>1, InvParts
<1>4. CASE ~Known(t)
  <2>1. Status(t)' = Status(t)
    BY <1>1, <1>3, <1>4, StatusCases, StatusCasesNext DEF Known
  <2> QED BY <1>2, <1>3, <2>1, RunsKept, StatusCasesNext, ContractStutter
<1>5. CASE Known(t)
  <2>1. Status(t) # "absent" /\ Status(t)' = "queued"
    BY <1>1, <1>3, <1>5, StatusCases, StatusCasesNext DEF Known
  <2>2. statusBar' = [statusBar EXCEPT ![t] = "queued"]
    BY <1>1, <1>3, <2>1, StatusCasesNext DEF statusBar
  <2>3. Contract!Requeue(t)
    BY <1>1, <1>2, <2>1, <2>2, RunsKept
    DEF Contract!Requeue, Contract!Become, statusBar, runsBar, soundBar, Runs
  <2> QED BY <1>1, <2>3 DEF Contract!Next
<1> QED BY <1>4, <1>5

\* A sweep's judgement is Doubt.
LEMMA ContractJudge ==
  ASSUME NEW p \in Sweeper, JudgeStage(p)
  PROVE  Contract!Next
<1>1. key' = key /\ slot' = slot /\ disturbed \subseteq disturbed'
  BY DEF JudgeStage
<1>2. statusBar' = statusBar /\ runsBar' = runsBar
  BY <1>1, StatusCasesNext, RunsKept DEF statusBar
<1>3. soundBar' = soundBar \ (Task \cap disturbed')
  BY <1>1 DEF soundBar
<1>4. Contract!Doubt(Task \cap disturbed')
  BY <1>2, <1>3 DEF Contract!Doubt, statusBar, runsBar, soundBar, Runs
<1> QED BY <1>4 DEF Contract!Next

\* The discard of disposable tasks is Delete.
LEMMA ContractDispose ==
  ASSUME TypeOK, IInv, NEW p \in Sweeper, DiscardDisposable(p)
  PROVE  Contract!Next
<1> DEFINE D == trash[p].ids
<1>1. /\ \A t \in D : /\ key'[t].info = Missing
                      /\ t \in disturbed' \/ ~Known(t) \/ ~(Queued(t) \/ Staged(t))
      /\ \A t \in Task \ D : key'[t] = key[t]
      /\ disturbed \subseteq disturbed' /\ D \subseteq Task
  BY DisposedKeys
<1>2. slot' = slot
  BY DEF DiscardDisposable
<1> HIDE DEF D
<1>3. \A t \in Task : Status(t)' = IF t \in D THEN "absent" ELSE Status(t)
  BY <1>1, StatusCasesNext
<1>4. statusBar' = [t \in Task |-> IF t \in D THEN "absent" ELSE statusBar[t]]
  BY <1>3 DEF statusBar
<1>5. soundBar' \in SUBSET soundBar
  BY <1>1 DEF soundBar
<1>6. \A t \in D \cap soundBar' : statusBar[t] \in {"absent", "settled"}
  BY <1>1, StatusCases DEF soundBar, statusBar
<1>7. Contract!Delete(D)
  BY <1>2, <1>4, <1>5, <1>6, RunsKept
  DEF Contract!Delete, statusBar, runsBar, soundBar, Runs
<1> QED BY <1>1, <1>7 DEF Contract!Next

\* Every step of the fleet is a step of the contract or shows nothing.
LEMMA ContractStep ==
  TypeOK /\ IInv /\ [Next]_vars => [Contract!Next]_(Contract!vars)
<1> DEFINE Goal == Contract!Next \/ UNCHANGED Contract!vars
<1> SUFFICES ASSUME TypeOK, IInv, [Next]_vars PROVE Goal
  OBVIOUS
<1>1. ASSUME UNCHANGED <<key, slot, disturbed>> PROVE Goal
  BY <1>1, RunsKept, StatusCasesNext, ContractStutter
<1>2. ASSUME NEW t \in Task, TtlPasses(t), UNCHANGED fleetVars PROVE Goal
  <2>1. /\ key'[t].info = key[t].info /\ key'[t].queue = key[t].queue
        /\ key'[t].stage = key[t].stage
        /\ \A u \in Task \ {t} : key'[u] = key[u]
    BY <1>2, InvParts, PassKey DEF TtlPasses, Update
  <2>2. Status(t)' = Status(t)
    BY <2>1 DEF Status, Known, Queued, Staged
  <2>3. slot' = slot /\ disturbed' = disturbed
    BY <1>2 DEF fleetVars
  <2> QED BY <2>1, <2>2, <2>3, RunsKept, StatusCasesNext, ContractStutter
<1>3. CASE Clock
  BY <1>1, <1>2, <1>3 DEF Clock, Tick, fleetVars
<1>4. ASSUME NEW w \in Worker,
             \/ Stop(w) \/ Crash(w)
             \/ BeginAssign(w) \/ Assign(w) \/ AssignLost(w)
      PROVE  Goal
  BY <1>1, <1>4, ContractFreed, ContractAssign, ContractAssignLost DEF Stop, BeginAssign
<1>5. ASSUME NEW w \in Worker, NEW s \in Slot, HandleTask(w, s) PROVE Goal
  <2>1. ASSUME DiscardLookup(w, s) PROVE Goal
    <3> DEFINE h == slot[w][s]
               stage == IF Known(h.task) THEN "found" ELSE "unfound"
    <3>1. h \in Held /\ h # Free
      BY <2>1, InvParts DEF DiscardLookup, Running
    <3>2. slot' = [slot EXCEPT ![w] = [slot[w] EXCEPT ![s] = [h EXCEPT !.stage = stage]]]
      BY <2>1 DEF DiscardLookup
    <3>3. [h EXCEPT !.stage = stage] \in Held /\ [h EXCEPT !.stage = stage].task = h.task
      BY <3>1 DEF Held
    <3>4. \A v \in Worker : \A r \in Slot :
             slot'[v][r] = IF v = w /\ r = s THEN [h EXCEPT !.stage = stage] ELSE slot[v][r]
      BY <3>2, InvParts
    <3>5. \A v \in Worker : \A r \in Slot : \A u \in Task : Holds(v, r, u)' <=> Holds(v, r, u)
      BY <3>1, <3>3, <3>4, FreeAssumption DEF Holds
    <3>6. \A u \in Task : Runs(u)' = Runs(u)
      BY <3>5 DEF Runs
    <3>7. key' = key /\ disturbed' = disturbed
      BY <2>1 DEF DiscardLookup
    <3> QED BY <3>6, <3>7, StatusCasesNext, ContractStutter
  <2> QED BY <1>5, <2>1, ContractFreed, ContractEnded DEF HandleTask
<1>6. ASSUME NEW p \in Sweeper, HouseStep(p) PROVE Goal
  BY <1>1, <1>6, ContractJudge, ContractRestore, ContractDispose
  DEF HouseStep, RestoreLookup, ListDisposable, LookupDisposable
<1>7. CASE UNCHANGED vars
  BY <1>1, <1>7 DEF vars, fleetVars
<1> QED BY <1>3, <1>4, <1>5, <1>6, <1>7, ContractSubmit DEF Next

\* The fleet on Redis implements the contract that the fleet on an SQL backend
\* implements (backend.rs, trait TaskBackend; impls/redis.rs).
THEOREM RedisKeepsContract == Spec => KeepsContract
<1>1. Init => Contract!Init
  BY ContractInit
<1>2. TypeOK /\ IInv /\ [Next]_vars => [Contract!Next]_(Contract!vars)
  BY ContractStep
<1> QED BY <1>1, <1>2, Invariance, PTL DEF Spec, KeepsContract, Contract!Spec

\* So what the contract promises of a sound task holds here as well: it has one
\* execution at most, goes through its life in order, is moved on by its
\* execution alone, and begins to run only from the queue (redis.rs, worker.rs, service.rs).
THEOREM RedisTaskLife ==
  Spec => /\ []Contract!RunsAlone
          /\ Contract!LivesInOrder
          /\ Contract!OnlyItsExecution
          /\ Contract!BeginsFromQueue
<1>1. Spec => Contract!Spec
  BY RedisKeepsContract DEF KeepsContract
<1> QED BY <1>1, Contract!ContractRunsAlone, Contract!ContractLivesInOrder,
           Contract!ContractOnlyItsExecution, Contract!ContractBeginsFromQueue

-----------------------------------------------------------------------------
(* A claim is short only where nothing due is left, or a ghost is queued.  *)

\* The queue of tasks stays finite: a step adds one id at most (enqueue_tasks, restore).
LEMMA QueueGrowsByOne ==
  ASSUME TypeOK, [Next]_vars
  PROVE  \E t : QueuedTasks' \subseteq QueuedTasks \cup {t}
<1> USE DEF TypeOK, StoreTypeOK, QueuedTasks, Queued
<1>1. ASSUME NEW t \in Task, NEW k, Update(t, k)
      PROVE  \E u : QueuedTasks' \subseteq QueuedTasks \cup {u}
  <2>1. \A u \in Task \ {t} : key'[u] = key[u]
    BY <1>1 DEF Update
  <2>2. QueuedTasks' \subseteq QueuedTasks \cup {t}
    BY <2>1
  <2> QED BY <2>2
<1>2. ASSUME \A u \in Task : key'[u].queue # Missing => key[u].queue # Missing
      PROVE  \E u : QueuedTasks' \subseteq QueuedTasks \cup {u}
  BY <1>2
<1>3. CASE Clock
  BY <1>1, <1>2, <1>3 DEF Clock, Tick, TtlPasses
<1>4. ASSUME NEW t \in Task, Submit(t) PROVE \E u : QueuedTasks' \subseteq QueuedTasks \cup {u}
  BY <1>1, <1>4 DEF Submit
<1>5. ASSUME NEW w \in Worker, Assign(w) \/ AssignLost(w)
      PROVE  \E u : QueuedTasks' \subseteq QueuedTasks \cup {u}
  <2>1. \A t \in Task : key'[t] = key[t] \/ key'[t] = Claim(key[t], w)
    BY <1>5 DEF Assign, AssignLost, ClaimAll
  <2>2. \A t \in Task : Claim(key[t], w).queue = Missing
    BY DEF Claim, Key
  <2> QED BY <1>2, <2>1, <2>2
<1>6. ASSUME NEW w \in Worker, NEW s \in Slot, HandleTask(w, s)
      PROVE  \E u : QueuedTasks' \subseteq QueuedTasks \cup {u}
  <2>1. slot[w][s] # Free => slot[w][s].task \in Task
    BY DEF Held
  <2>2. CASE Finish(w, s)
    BY <1>1, <2>1, <2>2 DEF Finish, Running
  <2>3. CASE Retry(w, s)
    BY <1>1, <2>1, <2>3 DEF Retry, Running
  <2>4. CASE DiscardTask(w, s)
    BY <1>1, <2>1, <2>4 DEF DiscardTask
  <2>5. CASE CallFails(w, s) \/ DiscardLookup(w, s)
    BY <1>2, <2>5 DEF CallFails, DiscardLookup
  <2> QED BY <1>6, <2>2, <2>3, <2>4, <2>5 DEF HandleTask
<1>7. ASSUME NEW p \in Sweeper, HouseStep(p)
      PROVE  \E u : QueuedTasks' \subseteq QueuedTasks \cup {u}
  <2>1. CASE RestoreTask(p)
    <3>1. sweep[p].next.task \in Task
      BY <2>1 DEF RestoreTask, Sweep
    <3> QED BY <1>1, <2>1, <3>1 DEF RestoreTask
  <2>2. CASE DiscardDisposable(p)
    <3>1. \A t \in Task : Discard(key[t], t \in trash[p].found).queue # Missing => key[t].queue # Missing
      BY DEF Discard, NoKey
    <3> QED BY <1>2, <2>2, <3>1 DEF DiscardDisposable
  <2>3. CASE UNCHANGED key
    BY <1>2, <2>3
  <2> QED BY <1>7, <2>1, <2>2, <2>3
          DEF HouseStep, JudgeStage, RestoreLookup, ListDisposable, LookupDisposable
<1>8. CASE UNCHANGED key
  BY <1>2, <1>8
<1> QED BY <1>3, <1>4, <1>5, <1>6, <1>7, <1>8
        DEF Next, Stop, Crash, BeginAssign, vars

\* What the proofs that count need of the queue.
QueueFinite == IsFiniteSet(QueuedTasks)

\* The queue is finite in every reachable state, whatever the set of all tasks.
LEMMA QueueIsFinite == Spec => []QueueFinite
<1>1. Init => QueueFinite
  <2>1. Init => QueuedTasks = {}
    BY DEF Init, StoreInit, NoKey, QueuedTasks, Queued
  <2> QED BY <2>1, FS_EmptySet DEF QueueFinite
<1>2. TypeOK /\ QueueFinite /\ [Next]_vars => QueueFinite'
  <2> SUFFICES ASSUME TypeOK, IsFiniteSet(QueuedTasks), [Next]_vars
               PROVE  IsFiniteSet(QueuedTasks')
    BY DEF QueueFinite
  <2>1. PICK t : QueuedTasks' \subseteq QueuedTasks \cup {t}
    BY QueueGrowsByOne
  <2>2. IsFiniteSet(QueuedTasks \cup {t})
    BY FS_AddElement
  <2> QED BY <2>1, <2>2, FS_Subset
<1> QED BY <1>1, <1>2, RedisTypeCorrect, PTL DEF Spec

\* The order of the queue is linear.
LEMMA QueueOrder ==
  ASSUME TypeOK
  PROVE  LET R == {p \in QueuedTasks \X QueuedTasks : Before(p[1], p[2])} IN
         Linear(R, QueuedTasks) /\ Strict(R, QueuedTasks)
<1> DEFINE R == {p \in QueuedTasks \X QueuedTasks : Before(p[1], p[2])}
<1>1. \A x, y \in QueuedTasks : <<x, y>> \in R <=> Before(x, y)
  OBVIOUS
<1>2. \A x \in QueuedTasks : x \in Nat /\ key[x].queue \in Nat
  BY TaskAssumption, BoundAssumption DEF TypeOK, StoreTypeOK, Key, Time, QueuedTasks, Queued
<1> HIDE DEF R
<1>3. \A x, y \in QueuedTasks : x # y => Before(x, y) \/ Before(y, x)
  BY <1>2 DEF Before
<1>4. \A x, y, z \in QueuedTasks : Before(x, y) /\ Before(y, z) => Before(x, z)
  BY <1>2 DEF Before
<1>5. \A x, y \in QueuedTasks : Before(x, y) => ~Before(y, x)
  BY <1>2 DEF Before
<1>6. Linear(R, QueuedTasks)
  BY <1>1, <1>3, <1>4 DEF Linear
<1>7. Strict(R, QueuedTasks)
  BY <1>1, <1>5 DEF Strict
<1> QED BY <1>6, <1>7 DEF R

\* Where more are queued than the script looks at, it looks at the first n of the queue.
LEMMA CandidatesAreFirst ==
  ASSUME TypeOK, IsFiniteSet(QueuedTasks), NEW n \in 0 .. Cardinality(QueuedTasks)
  PROVE  /\ Cardinality(Candidates(n)) = n
         /\ \A t \in Candidates(n), u \in QueuedTasks \ Candidates(n) : Before(t, u)
<1> DEFINE R == {p \in QueuedTasks \X QueuedTasks : Before(p[1], p[2])}
           P == {x \in QueuedTasks : Cardinality({y \in QueuedTasks : <<y, x>> \in R}) < n}
<1>1. Linear(R, QueuedTasks) /\ Strict(R, QueuedTasks)
  BY QueueOrder
<1>2. \A x, y \in QueuedTasks : <<x, y>> \in R <=> Before(x, y)
  OBVIOUS
<1> HIDE DEF R
<1>3. Cardinality(P) = n /\ \A x \in P, y \in QueuedTasks \ P : <<x, y>> \in R
  BY <1>1, RankedFirst
<1>4. \A x \in QueuedTasks :
         {y \in QueuedTasks : <<y, x>> \in R} = {y \in QueuedTasks : Before(y, x)}
  BY <1>2
<1>5. P = Candidates(n)
  BY <1>4 DEF Candidates
<1>6. \A x \in P, y \in QueuedTasks \ P : Before(x, y)
  BY <1>2, <1>3
<1> QED BY <1>3, <1>5, <1>6

\* A claim takes what it returns from the tasks that are due, and nothing else.
LEMMA DueAfterAssign ==
  ASSUME TypeOK, IInv, NEW w \in Worker, Assign(w)
  PROVE  /\ Claimable(asking[w]) \subseteq DueTasks
         /\ DueTasks' = DueTasks \ Claimable(asking[w])
<1> DEFINE T == Claimable(asking[w])
<1>1. T \subseteq DueTasks
  BY DEF DueTasks, Claimable, Candidates, QueuedTasks
<1>2. now' = now
  BY DEF Assign
<1>3. ClaimAll(w, T)
  BY DEF Assign
<1> HIDE DEF T
<1>4. T \subseteq Task
  BY <1>1 DEF DueTasks
<1>5. /\ \A t \in T : key'[t].queue = Missing
      /\ \A t \in Task \ T : key'[t] = key[t]
  <2>1. \A t \in Task : key'[t] = IF t \in T THEN Claim(key[t], w) ELSE key[t]
    BY <1>3 DEF ClaimAll
  <2>2. \A t \in Task : Claim(key[t], w).queue = Missing
    BY DEF Claim, Key, TypeOK, StoreTypeOK
  <2> QED BY <1>4, <2>1, <2>2
<1>6. DueTasks' = DueTasks \ T
  BY <1>2, <1>5 DEF DueTasks, Known, Queued
<1> QED BY <1>1, <1>6 DEF T

\* When a due task is left behind and no ghost is queued, all candidates are claimed.
LEMMA ClaimIsFull ==
  ASSUME TypeOK, IsFiniteSet(QueuedTasks), \A t \in Task : ~Ghost(t),
         NEW n \in Nat, NEW u \in DueTasks \ Claimable(n)
  PROVE  Cardinality(Claimable(n)) = n
<1>1. u \in QueuedTasks /\ u \notin Candidates(n)
  BY DEF DueTasks, Claimable, QueuedTasks
<1>2. n <= Cardinality(QueuedTasks)
  <2> DEFINE Ahead == {v \in QueuedTasks : Before(v, u)}
  <2>1. ~(Cardinality(Ahead) < n)
    BY <1>1 DEF Candidates
  <2>2. /\ IsFiniteSet(Ahead)
        /\ Cardinality(Ahead) <= Cardinality(QueuedTasks)
        /\ Cardinality(Ahead) \in Nat
        /\ Cardinality(QueuedTasks) \in Nat
    BY FS_Subset, FS_CardinalityType
  <2> HIDE DEF Ahead
  <2> QED BY <2>1, <2>2
<1>3. n \in 0 .. Cardinality(QueuedTasks)
  BY <1>2, FS_CardinalityType
<1>4. /\ Cardinality(Candidates(n)) = n
      /\ \A t \in Candidates(n) : Before(t, u)
  BY <1>1, <1>3, CandidatesAreFirst
<1>5. \A t \in Candidates(n) : t \in Task /\ Queued(t)
  BY DEF Candidates, QueuedTasks
<1>6. \A t \in Candidates(n) : Known(t)
  BY <1>5 DEF Ghost
<1>7. \A t \in Candidates(n) : key[t].queue <= now
  <2>1. key[u].queue <= now /\ now \in Nat /\ key[u].queue \in Nat
    BY <1>1, BoundAssumption DEF DueTasks, TypeOK, StoreTypeOK, Key, Time, QueuedTasks, Queued
  <2>2. \A t \in Candidates(n) : key[t].queue \in Nat
    BY <1>5, BoundAssumption DEF TypeOK, StoreTypeOK, Key, Time, Queued
  <2> QED BY <1>4, <2>1, <2>2 DEF Before
<1>8. Claimable(n) = Candidates(n)
  BY <1>6, <1>7 DEF Claimable
<1> QED BY <1>4, <1>8

\* "Returning fewer records than `limit` tells the caller the queue is drained"
\* (backend.rs, assign_tasks) is kept wherever no id without a task is queued, for
\* any queue, any limit and any number of workers: the finding of ShortBatchMeansDrained
\* needs a ghost, and a ghost needs a service that acted on a task that was not its own.
THEOREM RedisShortBatchMeansDrained == Spec => ShortBatchOfTasksMeansDrained
<1> DEFINE Full(w) == Assign(w) /\ (\A t \in Task : ~Ghost(t)) /\ DueTasks' # {}
                      => Cardinality(DueTasks) - Cardinality(DueTasks') = asking[w]
<1>1. ASSUME TypeOK, IInv, IsFiniteSet(QueuedTasks), NEW w \in Worker
      PROVE  Full(w)
  <2> SUFFICES ASSUME Assign(w), \A t \in Task : ~Ghost(t), DueTasks' # {}
               PROVE  Cardinality(DueTasks) - Cardinality(DueTasks') = asking[w]
    OBVIOUS
  <2> DEFINE T == Claimable(asking[w])
  <2>1. T \subseteq DueTasks /\ DueTasks' = DueTasks \ T
    BY <1>1, DueAfterAssign
  <2>2. asking[w] \in Nat
    <3>1. Cardinality(Slot) \in Nat
      BY SlotAssumption, FS_CardinalityType
    <3> QED BY <1>1, <3>1 DEF TypeOK
  <2>3. \E u : u \in DueTasks \ T
    BY <2>1
  <2>4. Cardinality(T) = asking[w]
    BY <1>1, <2>2, <2>3, ClaimIsFull
  <2>5. DueTasks \subseteq QueuedTasks
    BY DEF DueTasks, QueuedTasks
  <2> HIDE DEF T
  <2>6. IsFiniteSet(DueTasks) /\ IsFiniteSet(T)
    BY <1>1, <2>1, <2>5, FS_Subset
  <2>7. Cardinality(DueTasks \ T) = Cardinality(DueTasks) - Cardinality(DueTasks \cap T)
    BY <2>6, FS_Difference
  <2>8. DueTasks \cap T = T
    BY <2>1
  <2>9. Cardinality(DueTasks) \in Nat
    BY <2>6, FS_CardinalityType
  <2> QED BY <2>1, <2>2, <2>4, <2>7, <2>8, <2>9
<1>2. TypeOK /\ IInv /\ QueueFinite
      => [\A w \in Worker : Assign(w) /\ (\A t \in Task : ~Ghost(t)) /\ DueTasks' # {}
             => Cardinality(DueTasks) - Cardinality(DueTasks') = asking[w]]_vars
  BY <1>1 DEF QueueFinite
<1> QED BY <1>2, Invariance, QueueIsFinite, PTL DEF ShortBatchOfTasksMeansDrained

-----------------------------------------------------------------------------
(* What stands while no service interferes with a task.                    *)

\* What OutcomesAndAttemptsStand says of one task, from its keys before and after.
Stands(k, l) ==
    /\ k.outcome # {} => l.outcome = k.outcome \/ (k.ttl = "past" /\ l.info = Missing)
    /\ k.stage # Nobody /\ l.queue # Missing => l.info.retry = k.info.retry + 1

\* It does where outcome, stage and queue stay, and for a task that is not staged
\* where the outcome does.
LEMMA StandsWhenKept ==
  ASSUME TypeOK, IInv, NEW t \in Task,
         \/ key'[t].outcome = key[t].outcome /\ key'[t].queue = key[t].queue
         \/ key'[t].outcome = key[t].outcome /\ key'[t].queue = Missing
         \/ key'[t].outcome = key[t].outcome /\ key[t].stage = Nobody
  PROVE  Stands(key[t], key'[t])
BY DEF Stands, IInv, KeysAgree, Staged, Queued

\* succeed, fail, retry_task and discard_tasks by the execution of the task.
LEMMA HandleStands ==
  ASSUME TypeOK, IInv, NEW w \in Worker, NEW s \in Slot,
         Finish(w, s) \/ Retry(w, s) \/ DiscardTask(w, s), NEW t \in Task \ disturbed
  PROVE  Stands(key[t], key'[t])
<1> DEFINE h == slot[w][s]
<1>1. h # Free /\ h \in Held /\ h.task \in Task
  BY DEF Finish, Retry, DiscardTask, Running, TypeOK, Held
<1>2. key \in [Task -> Key]
  BY InvParts
<1>3. CASE t # h.task
  <2>1. key'[t] = key[t]
    BY <1>1, <1>2, <1>3 DEF Finish, Retry, DiscardTask, Update
  <2> QED BY <2>1, StandsWhenKept
<1>4. CASE t = h.task
  <2>1. /\ key[t].outcome = {} /\ key[t].stage = w /\ key[t].info # Missing
        /\ key[t].info = h.info /\ key[t].queue = Missing /\ key[t] \in Key
    <3>1. Holds(w, s, t)
      BY <1>1, <1>4 DEF Holds
    <3> QED BY <1>2, <3>1, SoundHeld DEF IInv, ExclusiveExecution, Known, Queued
  <2>2. CASE Finish(w, s)
    <3>1. PICK o \in Outcome : key'[t] = Settle(key[t], h.info, o)
      BY <1>1, <1>2, <1>4, <2>2 DEF Finish, Update
    <3>2. key'[t].queue = Missing
      BY <2>1, <3>1 DEF Settle, Key
    <3> QED BY <2>1, <3>2 DEF Stands
  <2>3. CASE Retry(w, s)
    <3>1. PICK due \in now .. MaxTime :
             key'[t] = Replace(key[t], [retry |-> h.info.retry + 1, due |-> due])
      BY <1>1, <1>2, <1>4, <2>3 DEF Retry, Update
    <3> DEFINE i == [retry |-> h.info.retry + 1, due |-> due]
    <3>2. i.retry = key[t].info.retry + 1
      BY <2>1
    <3> HIDE DEF i
    <3>3. Replace(key[t], i).info = i
      BY <2>1 DEF Replace, Enqueue, Key
    <3>4. key'[t].info.retry = key[t].info.retry + 1
      BY <3>1, <3>2, <3>3 DEF i
    <3> QED BY <2>1, <3>4 DEF Stands
  <2>4. CASE DiscardTask(w, s)
    <3>1. h.stage = "found"
      BY <1>1, <1>4, <2>4, InvParts DEF SoundFound, DiscardTask, Held
    <3>2. key'[t] = Discard(key[t], TRUE)
      BY <1>1, <1>2, <1>4, <2>4, <3>1 DEF DiscardTask, Update
    <3>3. key'[t].queue = Missing
      BY <3>2 DEF Discard, NoKey
    <3> QED BY <2>1, <3>3 DEF Stands
  <2> QED BY <2>2, <2>3, <2>4
<1> QED BY <1>3, <1>4

\* restore is about tasks a service doubts, and the discard of old results leaves alone
\* what is not past its TTL, or counts as interference.
LEMMA HouseStands ==
  ASSUME TypeOK, IInv, NEW p \in Sweeper, HouseStep(p), NEW t \in Task \ disturbed'
  PROVE  Stands(key[t], key'[t])
<1>1. key \in [Task -> Key] /\ sweep[p] \in Sweep
  BY InvParts
<1>2. CASE UNCHANGED key
  BY <1>2, StandsWhenKept
<1>3. CASE RestoreTask(p)
  <2>1. sweep[p].next.task \in disturbed /\ disturbed' = disturbed
    BY <1>3, InvParts DEF RestoreTask, SweepsDoubt
  <2>2. key'[t] = key[t]
    BY <1>1, <1>3, <2>1 DEF RestoreTask, Update
  <2> QED BY <2>2, StandsWhenKept
<1>4. CASE DiscardDisposable(p)
  <2>1. CASE t \notin trash[p].ids
    <3>1. key'[t] = key[t]
      BY <1>4, <2>1 DEF DiscardDisposable
    <3> QED BY <3>1, StandsWhenKept
  <2>2. CASE t \in trash[p].ids
    <3>1. \E b : key'[t] = Discard(key[t], b)
      BY <1>4, <2>2 DEF DiscardDisposable
    <3>2. key'[t].info = Missing
      BY <3>1 DEF Discard, NoKey
    <3>3. Known(t) => key[t].ttl = "past" /\ ~Queued(t) /\ ~Staged(t)
      BY <1>4, <2>2 DEF DiscardDisposable
    <3>4. key[t].outcome # {} => Known(t)
      BY DEF IInv, KeysAgree
    <3>5. Staged(t) => Known(t)
      BY DEF IInv, KeysAgree
    <3> QED BY <3>2, <3>3, <3>4, <3>5 DEF Stands, Staged
  <2> QED BY <2>1, <2>2
<1> QED BY <1>2, <1>3, <1>4
        DEF HouseStep, JudgeStage, RestoreLookup, ListDisposable, LookupDisposable

\* The claim and what clients and the clock do.
LEMMA OthersStand ==
  ASSUME TypeOK, IInv, NEW t \in Task,
         \/ Clock
         \/ \E u \in Task : Submit(u)
         \/ \E w \in Worker : Assign(w) \/ AssignLost(w)
  PROVE  Stands(key[t], key'[t])
<1>1. key \in [Task -> Key]
  BY InvParts
<1>2. CASE Clock
  <2>1. key'[t].outcome = key[t].outcome /\ key'[t].queue = key[t].queue
    BY <1>1, <1>2 DEF Clock, Tick, TtlPasses, Update, Key
  <2> QED BY <2>1, StandsWhenKept
<1>3. ASSUME NEW u \in Task, Submit(u) PROVE Stands(key[t], key'[t])
  <2>1. PICK k \in Key : /\ key' = [key EXCEPT ![u] = k]
                         /\ Known(u) => k = key[u]
                         /\ ~Known(u) => k.outcome = {}
    BY <1>3, SubmitKey
  <2>2. CASE t # u \/ Known(u)
    <3>1. key'[t] = key[t]
      BY <1>1, <2>1, <2>2
    <3> QED BY <3>1, StandsWhenKept
  <2>3. CASE t = u /\ ~Known(u)
    <3>1. key[t].outcome = {} /\ key[t].stage = Nobody
      BY <2>3 DEF IInv, KeysAgree, Staged
    <3>2. key'[t].outcome = {}
      BY <1>1, <2>1, <2>3
    <3> QED BY <3>1, <3>2, StandsWhenKept
  <2> QED BY <2>2, <2>3
<1>4. ASSUME NEW w \in Worker, Assign(w) \/ AssignLost(w) PROVE Stands(key[t], key'[t])
  <2>1. key'[t] = key[t] \/ key'[t] = Claim(key[t], w)
    BY <1>4 DEF Assign, AssignLost, ClaimAll
  <2>2. Claim(key[t], w).queue = Missing /\ Claim(key[t], w).outcome = key[t].outcome
    BY <1>1 DEF Claim, Key
  <2> QED BY <2>1, <2>2, StandsWhenKept
<1> QED BY <1>2, <1>3, <1>4

\* The outcome of a task no service interfered with stands until its TTL has passed,
\* and the task leaves the stage for the queue only with its next attempt, for any
\* tasks, workers, slots and sweepers (impls/redis.rs, worker.rs).
THEOREM RedisOutcomesStand == Spec => OutcomesAndAttemptsStand
<1>1. ASSUME TypeOK, IInv, Next, NEW t \in Task \ disturbed'
      PROVE  Stands(key[t], key'[t])
  <2>1. disturbed \subseteq disturbed'
    BY <1>1 DEF Next, Clock, Submit, Stop, Crash, BeginAssign, Assign, AssignLost, HandleTask,
                Finish, Retry, DiscardLookup, DiscardTask, CallFails, HouseStep, JudgeStage,
                RestoreLookup, RestoreTask, ListDisposable, LookupDisposable,
                DiscardDisposable, fleetVars
  <2>2. t \in Task \ disturbed
    BY <2>1
  <2>3. CASE UNCHANGED key
    BY <1>1, <2>3, StandsWhenKept
  <2>4. ASSUME NEW w \in Worker, NEW s \in Slot, HandleTask(w, s)
        PROVE  Stands(key[t], key'[t])
    BY <1>1, <2>2, <2>3, <2>4, HandleStands DEF HandleTask, CallFails, DiscardLookup
  <2>5. ASSUME NEW p \in Sweeper, HouseStep(p) PROVE Stands(key[t], key'[t])
    BY <1>1, <2>5, HouseStands
  <2> QED BY <1>1, <2>3, <2>4, <2>5, OthersStand DEF Next, Stop, Crash, BeginAssign
<1>2. ASSUME TypeOK, IInv, [Next]_vars
      PROVE  [\A t \in Task \ disturbed' :
                /\ key[t].outcome # {} => \/ key'[t].outcome = key[t].outcome
                                          \/ key[t].ttl = "past" /\ ~Known(t)'
                /\ Staged(t) /\ Queued(t)' => key'[t].info.retry = key[t].info.retry + 1]_vars
  BY <1>1, <1>2 DEF Stands, Known, Staged, Queued
<1>3. TypeOK /\ IInv /\ [Next]_vars
      => [\A t \in Task \ disturbed' :
            /\ key[t].outcome # {} => \/ key'[t].outcome = key[t].outcome
                                      \/ key[t].ttl = "past" /\ ~Known(t)'
            /\ Staged(t) /\ Queued(t)' => key'[t].info.retry = key[t].info.retry + 1]_vars
  BY <1>2
<1> QED BY <1>3, Invariance, PTL DEF Spec, OutcomesAndAttemptsStand

=============================================================================
