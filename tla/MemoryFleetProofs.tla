---------------------------- MODULE MemoryFleetProofs --------------------------
(***************************************************************************)
(* What holds of a process on the in-memory backend, for any tasks, groups,*)
(* permits, clients and limits: the types, the order of the claims, that a *)
(* done task stays done and an answer stands, and that the process keeps   *)
(* the contract of TaskContract.                                           *)
(***************************************************************************)
EXTENDS MemoryFleet, FirstElements, TLAPS

\* What `take' takes at most (Min).
LEMMA LesserNumber ==
  ASSUME NEW a \in Nat, NEW b \in Nat
  PROVE  Min({a, b}) = IF a <= b THEN a ELSE b
<1> DEFINE T == {a, b}
<1>1. \E x \in T : \A y \in T : x <= y
  OBVIOUS
<1>2. Min(T) \in T /\ \A y \in T : Min(T) <= y
  BY <1>1 DEF Min
<1> QED BY <1>2


\* FirstOf takes the first tasks of a set, as many as asked for or all of them (State::ordered).
LEMMA FirstOfIsHead ==
  ASSUME TypeOK, IsFiniteSet(KnownTasks), NEW S \in SUBSET KnownTasks, NEW n \in Nat
  PROVE  /\ FirstOf(S, n) \in SUBSET S
         /\ IsFiniteSet(FirstOf(S, n))
         /\ Cardinality(FirstOf(S, n)) \in Nat /\ Cardinality(FirstOf(S, n)) <= n
         /\ \A t \in FirstOf(S, n), u \in S \ FirstOf(S, n) : Precedes(t, u)
<1> DEFINE R == {p \in S \X S : Precedes(p[1], p[2])}
           m == Min({n, Cardinality(S)})
<1>1. IsFiniteSet(S) /\ Cardinality(S) \in Nat
  BY FS_Subset, FS_CardinalityType
<1>2. m \in 0 .. Cardinality(S) /\ m <= n
  BY <1>1, LesserNumber
<1>3. Linear(R, S)
  <2>1. \A t \in S : entry[t].due \in Nat
    BY BoundAssumption DEF TypeOK, StoreTypeOK, Entry, Time, KnownTasks
  <2>2. \A x, y \in S : x # y => Precedes(x, y) \/ Precedes(y, x)
    <3>1. \A x, y \in S : x # y => <<x, y>> \in order \/ <<y, x>> \in order
      BY DEF TypeOK, StoreTypeOK, OrderOK
    <3> QED BY <2>1, <3>1 DEF Precedes
  <2>3. \A x, y, z \in S : Precedes(x, y) /\ Precedes(y, z) => Precedes(x, z)
    BY <2>1 DEF Precedes, TypeOK, StoreTypeOK, OrderOK
  <2>4. \A x, y \in S : <<x, y>> \in R <=> Precedes(x, y)
    OBVIOUS
  <2> HIDE DEF R
  <2> QED BY <2>2, <2>3, <2>4 DEF Linear
<1>4. \E P \in SUBSET S : /\ Cardinality(P) = m
                         /\ \A t \in P, u \in S \ P : Precedes(t, u)
  <2>1. PICK P \in SUBSET S : Cardinality(P) = m /\ \A x \in P, y \in S \ P : <<x, y>> \in R
    <3> HIDE DEF R, m
    <3> QED BY <1>1, <1>2, <1>3, FirstFew
  <2>2. \A x \in P, y \in S \ P : Precedes(x, y)
    BY <2>1
  <2> QED BY <2>1, <2>2
<1>5. /\ FirstOf(S, n) \in SUBSET S
      /\ Cardinality(FirstOf(S, n)) = m
      /\ \A t \in FirstOf(S, n), u \in S \ FirstOf(S, n) : Precedes(t, u)
  <2> HIDE DEF m
  <2> DEFINE G(P) == Cardinality(P) = m /\ \A t \in P, u \in S \ P : Precedes(t, u)
  <2>1. FirstOf(S, n) = CHOOSE P \in SUBSET S : G(P)
    BY DEF FirstOf, m
  <2>2. \E P \in SUBSET S : G(P)
    BY <1>4
  <2> HIDE DEF G
  <2>3. FirstOf(S, n) \in SUBSET S /\ G(FirstOf(S, n))
    BY <2>1, <2>2
  <2> QED BY <2>3 DEF G
<1>6. IsFiniteSet(FirstOf(S, n))
  BY <1>1, <1>5, FS_Subset
<1> QED BY <1>1, <1>2, <1>5, <1>6

\* A new entry is one (Entry::new).
LEMMA NewEntryTyped ==
  ASSUME NEW due \in Time, NEW retry \in Attempt
  PROVE  NewEntry(due, retry) \in Entry /\ NewEntry(due, retry) # NoEntry
BY EntryAssumption DEF NewEntry, Entry, Outcome

\* The order when a task is put into the map.
LEMMA OrderListed ==
  ASSUME OrderOK, NEW t \in Task, order' = Listed(t), NEW e, e # NoEntry,
         entry \in [Task -> Entry \cup {NoEntry}],
         entry' = [entry EXCEPT ![t] = e]
  PROVE  OrderOK'
<1>1. KnownTasks' = KnownTasks \cup {t}
  BY DEF KnownTasks
<1>2. CASE Known(t)
  <2>1. KnownTasks' = KnownTasks /\ order' = order
    BY <1>1, <1>2 DEF Known, KnownTasks, Listed
  <2> QED BY <2>1 DEF OrderOK
<1>3. CASE ~Known(t)
  <2>1. t \notin KnownTasks /\ order' = order \cup (KnownTasks \X {t})
    BY <1>3 DEF Known, KnownTasks, Listed
  <2> QED BY <1>1, <2>1 DEF OrderOK
<1> QED BY <1>2, <1>3

\* The order when no task comes or goes.
LEMMA OrderKept ==
  ASSUME OrderOK, UNCHANGED order, KnownTasks' = KnownTasks
  PROVE  OrderOK'
BY DEF OrderOK

\* The order when tasks leave the map.
LEMMA OrderDiscarded ==
  ASSUME OrderOK, NEW T, DiscardTasks(T)
  PROVE  OrderOK' /\ KnownTasks' = KnownTasks \ T
<1>1. KnownTasks' = KnownTasks \ T
  BY DEF KnownTasks, DiscardTasks
<1>2. order' = {p \in order : p[1] \notin T /\ p[2] \notin T}
  BY DEF DiscardTasks
<1>3. \A u, v \in KnownTasks' : <<u, v>> \in order' <=> <<u, v>> \in order
  BY <1>1, <1>2
<1>4. order' \subseteq KnownTasks' \X KnownTasks'
  BY <1>1, <1>2 DEF OrderOK
<1>5. OrderOK'
  BY <1>1, <1>3, <1>4 DEF OrderOK
<1> QED BY <1>1, <1>5

\* The claims of a round are what they are meant to be.
Claims(w, T, S, task) ==
    /\ T # {} /\ T \in SUBSET DueTasks(w)
    /\ \A t \in T, u \in DueTasks(w) \ T : Precedes(t, u)
    /\ S \in SUBSET FreeSlots(w)
    /\ task \in Bijection(S, T)
    /\ AssignTasks(w, T)
    /\ slot' = [slot EXCEPT ![w] = [s \in Slot |->
                  IF s \in S THEN [task |-> task[s], retry |-> entry[task[s]].retry, on |-> NoTask]
                  ELSE @[s]]]
    /\ UNCHANGED <<now, sweepVars, submitted, handle>>

\* A round claims the first due tasks for permits that were free, one each (assign_tasks).
LEMMA AssignClaims ==
  ASSUME TypeOK, IsFiniteSet(KnownTasks), NEW w \in Worker, Assign(w)
  PROVE  \E T, S, task : Claims(w, T, S, task)
<1>1. IsFiniteSet(FreeSlots(w)) /\ Cardinality(FreeSlots(w)) \in Nat /\ FreeSlots(w) \in SUBSET Nat
  <2>1. IsFiniteSet(Slot) /\ Slot \in SUBSET Nat
    BY PermitAssumption, FS_Interval DEF Slot
  <2>2. FreeSlots(w) \in SUBSET Slot
    BY DEF FreeSlots
  <2> QED BY <2>1, <2>2, FS_Subset, FS_CardinalityType
<1> DEFINE Few(S, T) == /\ Cardinality(S) = Cardinality(T)
                        /\ \A s \in S, r \in FreeSlots(w) \ S : s < r
           Taken(T) == CHOOSE S \in SUBSET FreeSlots(w) : Few(S, T)
           Rest(T, S, task) ==
              slot' = [slot EXCEPT ![w] = [s \in Slot |->
                          IF s \in S THEN [task |-> task[s], retry |-> entry[task[s]].retry,
                                           on |-> NoTask]
                          ELSE @[s]]]
<1>2. PICK n \in 1 .. Cardinality(FreeSlots(w)) :
         /\ FirstOf(DueTasks(w), n) # {}
         /\ AssignTasks(w, FirstOf(DueTasks(w), n))
         /\ \E task \in Bijection(Taken(FirstOf(DueTasks(w), n)), FirstOf(DueTasks(w), n)) :
               Rest(FirstOf(DueTasks(w), n), Taken(FirstOf(DueTasks(w), n)), task)
  BY DEF Assign
<1>3. n \in Nat /\ n <= Cardinality(FreeSlots(w))
  BY <1>1, <1>2
<1>4. DueTasks(w) \in SUBSET KnownTasks
  BY DEF DueTasks, Queued, Known, KnownTasks
<1> DEFINE T == FirstOf(DueTasks(w), n)
           S == Taken(T)
<1>5. /\ T \in SUBSET DueTasks(w)
      /\ Cardinality(T) \in 0 .. Cardinality(FreeSlots(w))
      /\ \A t \in T, u \in DueTasks(w) \ T : Precedes(t, u)
  BY <1>1, <1>3, <1>4, FirstOfIsHead
<1>6. S \in SUBSET FreeSlots(w)
  <2> HIDE DEF T
  <2>1. \E P \in SUBSET FreeSlots(w) : Few(P, T)
    <3> DEFINE R == {p \in Nat \X Nat : p[1] < p[2]}
    <3>1. \A x, y \in FreeSlots(w) : <<x, y>> \in R <=> x < y
      BY <1>1
    <3> HIDE DEF R
    <3>2. Linear(R, FreeSlots(w))
      BY <1>1, <3>1 DEF Linear
    <3>3. PICK P \in SUBSET FreeSlots(w) :
             /\ Cardinality(P) = Cardinality(T)
             /\ \A x \in P, y \in FreeSlots(w) \ P : <<x, y>> \in R
      BY <1>1, <1>5, <3>2, FirstFew
    <3> QED BY <3>1, <3>3
  <2> HIDE DEF Few
  <2> QED BY <2>1
<1>7. PICK task \in Bijection(S, T) : Rest(T, S, task)
  BY <1>2
<1>8. AssignTasks(w, T) /\ T # {}
  BY <1>2
<1>9. UNCHANGED <<now, sweepVars, submitted, handle>>
  BY DEF Assign
<1> HIDE DEF T, S
<1>10. Claims(w, T, S, task)
  BY <1>5, <1>6, <1>7, <1>8, <1>9 DEF Claims
<1> QED BY <1>10

\* What such a round does to each entry and to each permit.
LEMMA ClaimsPlace ==
  ASSUME TypeOK, NEW w \in Worker, NEW T, NEW S, NEW task, Claims(w, T, S, task)
  PROVE  /\ T \in SUBSET Task /\ S \in SUBSET Slot
         /\ \A t \in T : GroupOf[t] = w /\ Queued(t) /\ entry[t].due <= now
         /\ \A s \in S : slot[w][s] = Free /\ task[s] \in T
         /\ \A s, r \in S : task[s] = task[r] => s = r
         /\ \A t \in T : \E s \in S : task[s] = t
         /\ \A t \in Task : entry'[t] = IF t \in T THEN [entry[t] EXCEPT !.worker = w] ELSE entry[t]
         /\ order' = order
         /\ \A s \in Slot : slot'[w][s] =
               IF s \in S THEN [task |-> task[s], retry |-> entry[task[s]].retry, on |-> NoTask]
               ELSE slot[w][s]
         /\ \A v \in Worker \ {w} : slot'[v] = slot[v]
         /\ DOMAIN slot' = Worker /\ DOMAIN slot'[w] = Slot /\ slot' = [v \in Worker |-> slot'[v]]
<1>1. task \in Bijection(S, T)
  BY DEF Claims
<1>2. /\ \A s \in S : task[s] \in T
      /\ \A s, r \in S : task[s] = task[r] => s = r
      /\ \A t \in T : \E s \in S : task[s] = t
  BY <1>1 DEF Bijection, Injection, Surjection, IsInjective
<1>3. T \in SUBSET Task /\ S \in SUBSET Slot
  BY DEF Claims, DueTasks, FreeSlots
<1>4. /\ \A t \in T : GroupOf[t] = w /\ Queued(t) /\ entry[t].due <= now
      /\ \A s \in S : slot[w][s] = Free
  BY DEF Claims, DueTasks, FreeSlots
<1>5. /\ \A t \in Task : entry'[t] = IF t \in T THEN [entry[t] EXCEPT !.worker = w] ELSE entry[t]
      /\ order' = order
  BY DEF Claims, AssignTasks
<1>6. slot \in [Worker -> [Slot -> Held \cup {Free}]]
  BY DEF TypeOK
<1>7. slot' = [slot EXCEPT ![w] = [s \in Slot |->
                  IF s \in S THEN [task |-> task[s], retry |-> entry[task[s]].retry, on |-> NoTask]
                  ELSE @[s]]]
  BY DEF Claims
<1>8. \A s \in Slot : slot'[w][s] =
         IF s \in S THEN [task |-> task[s], retry |-> entry[task[s]].retry, on |-> NoTask]
         ELSE slot[w][s]
  BY <1>6, <1>7
<1>9. /\ \A v \in Worker \ {w} : slot'[v] = slot[v]
      /\ DOMAIN slot' = Worker /\ DOMAIN slot'[w] = Slot /\ slot' = [v \in Worker |-> slot'[v]]
  BY <1>6, <1>7
<1> QED BY <1>2, <1>3, <1>4, <1>5, <1>8, <1>9

\* Tasks in the map were put there.
MapIsFinite == IsFiniteSet(submitted) /\ KnownTasks \subseteq submitted

\* Only finitely many tasks are in the map.
LEMMA MapFinite ==
  ASSUME MapIsFinite
  PROVE  IsFiniteSet(KnownTasks)
BY FS_Subset DEF MapIsFinite

\* One entry is written.
LEMMA WriteTyped ==
  ASSUME TypeOK, NEW t \in Task, NEW e \in Entry,
         entry' = [entry EXCEPT ![t] = e], order' = Listed(t), UNCHANGED now
  PROVE  StoreTypeOK'
<1>1. e # NoEntry
  BY EntryAssumption
<1>2. OrderOK'
  BY <1>1, OrderListed DEF TypeOK, StoreTypeOK
<1>3. entry' \in [Task -> Entry \cup {NoEntry}]
  BY DEF TypeOK, StoreTypeOK
<1>4. now' \in Time
  BY DEF TypeOK, StoreTypeOK
<1> QED BY <1>2, <1>3, <1>4 DEF StoreTypeOK

\* Entries are removed (discard_tasks).
LEMMA DiscardTyped ==
  ASSUME TypeOK, NEW T, DiscardTasks(T), UNCHANGED now
  PROVE  StoreTypeOK'
<1>1. OrderOK'
  BY OrderDiscarded DEF TypeOK, StoreTypeOK
<1>2. entry' \in [Task -> Entry \cup {NoEntry}] /\ now' \in Time
  BY DEF TypeOK, StoreTypeOK, DiscardTasks
<1> QED BY <1>1, <1>2 DEF StoreTypeOK

\* Steps of executions leave the services and the handles alone.
LEMMA RestAreTyped ==
  ASSUME TypeOK, StoreTypeOK', UNCHANGED <<sweepVars, submitted, handle>>,
         slot' \in [Worker -> [Slot -> Held \cup {Free}]]
  PROVE  TypeOK'
BY DEF TypeOK, sweepVars

\* What Finish stores of a task.
Finished(t, due, retry, outcome) ==
    [(IF Known(t) THEN entry[t] ELSE NewEntry(due, retry)) EXCEPT
        !.worker = Nobody, !.outcome = outcome, !.until = now]

\* What succeed and fail leave of a task (State::finish).
LEMMA FinishWrites ==
  ASSUME TypeOK, NEW t \in Task, NEW due \in Time, NEW retry \in Attempt,
         NEW outcome \in {"result", "error"}, Finish(t, due, retry, outcome)
  PROVE  /\ entry' = [entry EXCEPT ![t] = Finished(t, due, retry, outcome)]
         /\ order' = Listed(t)
         /\ Finished(t, due, retry, outcome) \in Entry
         /\ Finished(t, due, retry, outcome).worker = Nobody
         /\ Finished(t, due, retry, outcome).outcome = outcome
<1> DEFINE b == IF Known(t) THEN entry[t] ELSE NewEntry(due, retry)
<1>1. now \in Time /\ now \in Time \cup {Never} /\ Nobody \in Worker \cup {Nobody} /\ outcome \in Outcome
  BY DEF TypeOK, StoreTypeOK, Outcome
<1>2. b \in Entry
  <2>1. NewEntry(due, retry) \in Entry
    BY <1>1, NewEntryTyped
  <2>2. Known(t) => entry[t] \in Entry
    BY DEF Known, TypeOK, StoreTypeOK
  <2> QED BY <2>1, <2>2
<1>3. Finished(t, due, retry, outcome) = [b EXCEPT !.worker = Nobody, !.outcome = outcome, !.until = now]
  BY DEF Finished
<1> HIDE DEF b
<1>4. /\ Finished(t, due, retry, outcome) \in Entry
      /\ Finished(t, due, retry, outcome).worker = Nobody
      /\ Finished(t, due, retry, outcome).outcome = outcome
  BY <1>1, <1>2, <1>3 DEF Entry
<1>5. /\ entry' = [entry EXCEPT ![t] = Finished(t, due, retry, outcome)]
      /\ order' = Listed(t)
  BY DEF Finish, Finished, TypeOK, StoreTypeOK
<1> QED BY <1>4, <1>5

\* put_tasks keeps the types.
LEMMA SubmitTypes ==
  ASSUME TypeOK, NEW t \in Task, Submit(t)
  PROVE  TypeOK'
<1>1. PICK due \in Time : PutTask(t, due)
  BY DEF Submit
<1>2. StoreTypeOK'
  <2>1. CASE Known(t)
    <3>1. entry' = entry /\ order' = order /\ now' = now
      BY <1>1, <2>1 DEF PutTask, Listed, Submit
    <3>2. KnownTasks' = KnownTasks
      BY <3>1 DEF KnownTasks
    <3> QED BY <3>1, <3>2, OrderKept DEF TypeOK, StoreTypeOK
  <2>2. CASE ~Known(t)
    <3>1. NewEntry(due, 0) \in Entry
      BY NewEntryTyped, BoundAssumption DEF Attempt
    <3>2. entry' = [entry EXCEPT ![t] = NewEntry(due, 0)] /\ order' = Listed(t) /\ now' = now
      BY <1>1, <2>2 DEF PutTask, Submit
    <3> QED BY <3>1, <3>2, WriteTyped
  <2> QED BY <2>1, <2>2
<1>3. submitted' \in SUBSET Task
  BY DEF Submit, TypeOK
<1> QED BY <1>2, <1>3 DEF Submit, TypeOK, sweepVars

\* A round of the fetch loop keeps the types.
LEMMA AssignTypes ==
  ASSUME TypeOK, MapIsFinite, NEW w \in Worker, Assign(w)
  PROVE  TypeOK'
<1>1. PICK T, S, task : Claims(w, T, S, task)
  BY MapFinite, AssignClaims
<1>2. T \in SUBSET KnownTasks
  BY <1>1 DEF Claims, DueTasks, Queued, Known, KnownTasks
<1>3. \A t \in T : entry[t] \in Entry
  BY <1>2 DEF TypeOK, StoreTypeOK, KnownTasks
<1>4. \A t \in T : [entry[t] EXCEPT !.worker = w] \in Entry
  BY <1>3 DEF Entry
<1>5. entry' = [t \in Task |-> IF t \in T THEN [entry[t] EXCEPT !.worker = w] ELSE entry[t]]
  BY <1>1 DEF Claims, AssignTasks
<1>6. entry' \in [Task -> Entry \cup {NoEntry}]
  BY <1>4, <1>5 DEF TypeOK, StoreTypeOK
<1>7. KnownTasks' = KnownTasks
  BY <1>2, <1>4, <1>5, EntryAssumption DEF KnownTasks
<1>8. order' = order /\ now' = now
  BY <1>1 DEF Claims, AssignTasks
<1>9. StoreTypeOK'
  BY <1>6, <1>7, <1>8, OrderKept DEF TypeOK, StoreTypeOK
<1>10. slot' \in [Worker -> [Slot -> Held \cup {Free}]]
  <2>1. \A s \in S : [task |-> task[s], retry |-> entry[task[s]].retry, on |-> NoTask] \in Held
    <3>1. \A s \in S : task[s] \in T /\ task[s] \in Task
      BY <1>1, ClaimsPlace
    <3>2. \A s \in S : entry[task[s]].retry \in Attempt
      BY <1>3, <3>1 DEF Entry
    <3> QED BY <3>1, <3>2 DEF Held
  <2>2. slot' = [slot EXCEPT ![w] = [s \in Slot |->
           IF s \in S THEN [task |-> task[s], retry |-> entry[task[s]].retry, on |-> NoTask]
           ELSE slot[w][s]]]
    BY <1>1 DEF Claims, TypeOK
  <2> QED BY <2>1, <2>2 DEF TypeOK
<1>11. UNCHANGED <<sweepVars, submitted, handle>>
  BY <1>1 DEF Claims
<1> QED BY <1>9, <1>10, <1>11, RestAreTyped

\* A handler that waits or goes on keeps the types.
LEMMA HandlerTypes ==
  ASSUME TypeOK, NEW w \in Worker, NEW s \in Slot, slot[w][s] # Free, NEW u \in Task \cup {NoTask},
         slot' = [slot EXCEPT ![w][s].on = u], UNCHANGED <<storeVars, sweepVars, submitted, handle>>
  PROVE  TypeOK'
<1>1. slot' \in [Worker -> [Slot -> Held \cup {Free}]]
  BY DEF TypeOK, Held
<1>2. KnownTasks' = KnownTasks
  BY DEF KnownTasks, storeVars
<1>3. StoreTypeOK'
  BY <1>2, OrderKept DEF TypeOK, StoreTypeOK, storeVars
<1> QED BY <1>1, <1>3, RestAreTyped

\* The end of an execution keeps the types.
LEMMA HandleTaskTypes ==
  ASSUME TypeOK, NEW w \in Worker, NEW s \in Slot, HandleTask(w, s)
  PROVE  TypeOK'
<1> DEFINE t == slot[w][s].task
           n == slot[w][s].retry
<1>1. slot[w][s] \in Held /\ t \in Task /\ n \in Attempt
  BY DEF HandleTask, Running, TypeOK, Held
<1>2. UNCHANGED <<now, sweepVars, submitted, handle>>
  BY DEF HandleTask
<1>3. slot' \in [Worker -> [Slot -> Held \cup {Free}]]
  BY DEF HandleTask, TypeOK
<1>4. StoreTypeOK'
  <2>1. ASSUME NEW due \in 0 .. now, NEW outcome \in {"result", "error"}, Finish(t, due, n, outcome)
        PROVE  StoreTypeOK'
    <3>0. due \in Time
      BY BoundAssumption DEF Time, TypeOK, StoreTypeOK
    <3> HIDE DEF t, n
    <3>1. /\ entry' = [entry EXCEPT ![t] = Finished(t, due, n, outcome)]
          /\ order' = Listed(t)
          /\ Finished(t, due, n, outcome) \in Entry
      BY <1>1, <2>1, <3>0, FinishWrites
    <3> QED BY <1>1, <1>2, <3>1, WriteTyped
  <2>2. CASE DiscardTasks({t})
    BY <1>2, <2>2, DiscardTyped
  <2>3. ASSUME n < MaxRetry, NEW due \in now .. MaxTime, RetryTask(t, n + 1, due) PROVE StoreTypeOK'
    <3>1. n + 1 \in Attempt /\ due \in Time
      BY <1>1, <2>3, BoundAssumption DEF Attempt, Time, TypeOK, StoreTypeOK
    <3> HIDE DEF t, n
    <3>2. NewEntry(due, n + 1) \in Entry
      BY <3>1, NewEntryTyped
    <3>3. entry' = [entry EXCEPT ![t] = NewEntry(due, n + 1)] /\ order' = Listed(t)
      BY <2>3 DEF RetryTask
    <3> QED BY <1>1, <1>2, <3>2, <3>3, WriteTyped
  <2> QED BY <2>1, <2>2, <2>3 DEF HandleTask
<1> QED BY <1>2, <1>3, <1>4, RestAreTyped

\* restore keeps the types.
LEMMA RestoreTypes ==
  ASSUME TypeOK, NEW t \in Task, RestoreTask(t)
  PROVE  TypeOK'
<1>1. order' = order /\ now' = now
  BY DEF RestoreTask, Restore
<1>2. entry' \in [Task -> Entry \cup {NoEntry}] /\ KnownTasks' = KnownTasks
  <2>1. CASE Known(t)
    <3>1. entry' = [entry EXCEPT ![t] = [entry[t] EXCEPT !.worker = Nobody]]
      BY <2>1 DEF RestoreTask, Restore, TypeOK, StoreTypeOK
    <3>2. [entry[t] EXCEPT !.worker = Nobody] \in Entry
      BY <2>1 DEF Known, TypeOK, StoreTypeOK, Entry
    <3> QED BY <2>1, <3>1, <3>2, EntryAssumption DEF KnownTasks, Known, TypeOK, StoreTypeOK
  <2>2. CASE ~Known(t)
    BY <2>2 DEF RestoreTask, Restore, TypeOK, StoreTypeOK, KnownTasks
  <2> QED BY <2>1, <2>2
<1>3. StoreTypeOK'
  BY <1>1, <1>2, OrderKept DEF TypeOK, StoreTypeOK
<1>4. doubted' \in SUBSET Task
  BY DEF RestoreTask, TypeOK
<1> QED BY <1>3, <1>4 DEF RestoreTask, TypeOK

\* A call on a handle keeps the types.
LEMMA HandleTypes ==
  ASSUME TypeOK, NEW c \in Client, NEW cached \in BOOLEAN, NEW polling \in BOOLEAN,
         NEW told \in {"nothing", "value", "Failed"}, Elsewhere,
         handle' = [handle EXCEPT ![c] = [cached |-> cached, polling |-> polling, told |-> told]]
  PROVE  TypeOK'
<1>1. handle' \in [Client -> Handle]
  BY DEF TypeOK, Handle
<1>2. KnownTasks' = KnownTasks
  BY DEF KnownTasks, Elsewhere, storeVars
<1>3. StoreTypeOK'
  BY <1>2, OrderKept DEF TypeOK, StoreTypeOK, Elsewhere, storeVars
<1> QED BY <1>1, <1>3 DEF TypeOK, Elsewhere, sweepVars

\* A done entry is not on the stage, and only a done one expires.
EntryFits(e) ==
    /\ e.outcome # "none" => e.worker = Nobody
    /\ e.until # Never => e.outcome # "none"

\* So are all entries.
EntryShape == \A t \in KnownTasks : EntryFits(entry[t])

\* What runs was put.
HeldShape == \A w \in Worker, s \in Slot : slot[w][s] # Free => slot[w][s].task \in submitted

\* A task that was not found abandoned is held for one permit, of the worker its entry names.
RunsAlone ==
    \A t \in Task \ disturbed : \A w \in Worker, s \in Slot : Holds(w, s, t) =>
        /\ Staged(t) /\ entry[t].worker = w
        /\ \A v \in Worker, r \in Slot : Holds(v, r, t) => v = w /\ r = s

\* What is listed for the discard is done, unless it was found abandoned.
TrashShape ==
    /\ trash \subseteq submitted
    /\ \A t \in trash \ disturbed : Known(t) => Done(t)

\* A cached result was told, and answers at once.
CacheShape ==
    \A c \in Client : handle[c].cached => handle[c].told = "value" /\ ~handle[c].polling

\* The outcome behind an answer.
Told == [value |-> "result", Failed |-> "error"]

\* What a client was told of a task that was not found abandoned is still so, or the task is gone.
ToldShape ==
    \A c \in Client :
       handle[c].told # "nothing" /\ HandleOf[c] \notin disturbed =>
          /\ HandleOf[c] \in submitted
          /\ Known(HandleOf[c]) => entry[HandleOf[c]].outcome = Told[handle[c].told]

\* The inductive invariant.
IInv == /\ MapIsFinite /\ EntryShape /\ HeldShape /\ RunsAlone
        /\ doubted \subseteq disturbed /\ TrashShape /\ CacheShape /\ ToldShape

\* A client's steps ...
ClientStep(c) == Get(c) \/ Poll(c) \/ GetTimesOut(c) \/ CloneHandle(c)

\* ... and what they have in common.
ResultTold(c, cached, polling, told) ==
    /\ handle' = [handle EXCEPT ![c] = [cached |-> cached, polling |-> polling, told |-> told]]
    /\ cached => told = "value" /\ ~polling
    /\ told # handle[c].told => told \in {"value", "Failed"} /\ GetResult(HandleOf[c]) = told

\* What get_result says, and of which tasks.
LEMMA ResultKinds ==
  ASSUME TypeOK, NEW t \in Task
  PROVE  /\ GetResult(t) \in {"NotFound", "NoResult", "value", "Failed"}
         /\ GetResult(t) = "value" => Known(t) /\ entry[t].outcome = "result"
         /\ GetResult(t) = "Failed" => Known(t) /\ entry[t].outcome = "error"
         /\ GetResult(t) = "NotFound" => ~Known(t)
<1>1. Known(t) => entry[t].outcome \in {"none", "result", "error"}
  BY DEF Known, TypeOK, StoreTypeOK, Entry, Outcome
<1> QED BY <1>1 DEF GetResult

\* An answer that is returned is told, and a value is cached (TaskResult::try_get_result).
LEMMA SayTold ==
  ASSUME TypeOK, NEW c \in Client, NEW answer, Say(c, answer), ~handle[c].cached,
         answer = GetResult(HandleOf[c]) \/ answer = "TimedOut"
  PROVE  \E cached, polling \in BOOLEAN, told \in {"nothing", "value", "Failed"} :
            ResultTold(c, cached, polling, told)
<1>1. handle[c] \in Handle /\ HandleOf[c] \in Task
  BY HandleAssumption DEF TypeOK
<1>2. answer \in {"NotFound", "NoResult", "value", "Failed", "TimedOut"}
  BY <1>1, ResultKinds
<1>3. handle' = [handle EXCEPT ![c] =
                   [cached |-> handle[c].cached \/ answer = "value", polling |-> FALSE,
                    told |-> IF answer \in {"value", "Failed"} THEN answer ELSE handle[c].told]]
  BY DEF Say, TypeOK
<1>4. CASE answer = "value"
  <2>1. handle' = [handle EXCEPT ![c] = [cached |-> TRUE, polling |-> FALSE, told |-> "value"]]
    BY <1>3, <1>4
  <2>2. ResultTold(c, TRUE, FALSE, "value")
    BY <1>4, <2>1 DEF ResultTold
  <2> QED BY <2>2
<1>5. CASE answer = "Failed"
  <2>1. handle' = [handle EXCEPT ![c] = [cached |-> FALSE, polling |-> FALSE, told |-> "Failed"]]
    BY <1>3, <1>5
  <2>2. ResultTold(c, FALSE, FALSE, "Failed")
    BY <1>5, <2>1 DEF ResultTold
  <2> QED BY <2>2
<1>6. CASE answer \notin {"value", "Failed"}
  <2>1. handle' = [handle EXCEPT ![c] = [cached |-> FALSE, polling |-> FALSE, told |-> handle[c].told]]
    BY <1>3, <1>6
  <2>2. ResultTold(c, FALSE, FALSE, handle[c].told)
    BY <2>1 DEF ResultTold
  <2>3. handle[c].told \in {"nothing", "value", "Failed"}
    BY <1>1 DEF Handle
  <2> QED BY <2>2, <2>3
<1> QED BY <1>2, <1>4, <1>5, <1>6

\* A handle is its three fields.
LEMMA HandleFields ==
  ASSUME NEW h \in Handle
  PROVE  h = [cached |-> h.cached, polling |-> h.polling, told |-> h.told]
BY DEF Handle

\* A field of a handle is set.
LEMMA HandleSet ==
  ASSUME NEW h \in Handle, NEW x \in BOOLEAN
  PROVE  /\ [h EXCEPT !.polling = x] = [cached |-> h.cached, polling |-> x, told |-> h.told]
         /\ [h EXCEPT !.cached = x] = [cached |-> x, polling |-> h.polling, told |-> h.told]
<1>1. [h EXCEPT !.polling = x] = [cached |-> h.cached, polling |-> x, told |-> h.told]
  <2> DEFINE r == [h EXCEPT !.polling = x]
  <2>1. r \in Handle
    BY DEF Handle
  <2>2. r.cached = h.cached
    BY DEF Handle
  <2>3. r.told = h.told
    BY DEF Handle
  <2>4. r.polling = x
    BY Zenon DEF Handle
  <2>5. r = [cached |-> r.cached, polling |-> r.polling, told |-> r.told]
    BY <2>1, HandleFields
  <2> HIDE DEF r
  <2>6. r = [cached |-> h.cached, polling |-> x, told |-> h.told]
    BY <2>2, <2>3, <2>4, <2>5, Zenon
  <2> QED BY <2>6 DEF r
<1>2. [h EXCEPT !.cached = x] = [cached |-> x, polling |-> h.polling, told |-> h.told]
  <2> DEFINE r == [h EXCEPT !.cached = x]
  <2>1. r \in Handle
    BY DEF Handle
  <2>2. r.polling = h.polling
    BY DEF Handle
  <2>3. r.told = h.told
    BY DEF Handle
  <2>4. r.cached = x
    BY Zenon DEF Handle
  <2>5. r = [cached |-> r.cached, polling |-> r.polling, told |-> r.told]
    BY <2>1, HandleFields
  <2> HIDE DEF r
  <2>6. r = [cached |-> x, polling |-> h.polling, told |-> h.told]
    BY <2>2, <2>3, <2>4, <2>5, Zenon
  <2> QED BY <2>6 DEF r
<1> QED BY <1>1, <1>2

\* Whatever a client does with its handle, it is told what the cache or get_result says.
LEMMA ClientTold ==
  ASSUME TypeOK, CacheShape, NEW c \in Client, ClientStep(c)
  PROVE  /\ Elsewhere
         /\ \E cached, polling \in BOOLEAN, told \in {"nothing", "value", "Failed"} :
               ResultTold(c, cached, polling, told)
<1>1. handle[c] \in Handle /\ HandleOf[c] \in Task
  BY HandleAssumption DEF TypeOK
<1>2. Elsewhere
  BY DEF ClientStep, Get, Poll, GetTimesOut, CloneHandle
<1>3. CASE Get(c)
  <2>1. CASE handle[c].cached
    <3>1. Say(c, "value")
      BY <1>3, <2>1 DEF Get
    <3>2. handle[c].told = "value"
      BY <2>1 DEF CacheShape
    <3>3. handle' = [handle EXCEPT ![c] = [cached |-> TRUE, polling |-> FALSE, told |-> "value"]]
      BY <2>1, <3>1 DEF Say, TypeOK
    <3>4. ResultTold(c, TRUE, FALSE, "value")
      BY <3>2, <3>3 DEF ResultTold
    <3> QED BY <1>2, <3>4
  <2>2. CASE ~handle[c].cached /\ GetResult(HandleOf[c]) = "NoResult"
    <3>1. handle' = [handle EXCEPT ![c].polling = TRUE]
      BY <1>3, <2>2 DEF Get
    <3>c. handle[c].cached \in BOOLEAN
      BY <1>1 DEF Handle
    <3>d. handle[c].cached = FALSE
      BY <2>2, <3>c, Zenon
    <3>e. [handle[c] EXCEPT !.polling = TRUE]
             = [cached |-> handle[c].cached, polling |-> TRUE, told |-> handle[c].told]
      BY <1>1, HandleSet
    <3>a. [handle[c] EXCEPT !.polling = TRUE]
             = [cached |-> FALSE, polling |-> TRUE, told |-> handle[c].told]
      BY <3>d, <3>e, Zenon
    <3>b. handle' = [handle EXCEPT ![c] = [handle[c] EXCEPT !.polling = TRUE]]
      BY <3>1 DEF TypeOK
    <3>2. handle' = [handle EXCEPT ![c] = [cached |-> FALSE, polling |-> TRUE, told |-> handle[c].told]]
      BY <3>a, <3>b
    <3>3. ResultTold(c, FALSE, TRUE, handle[c].told)
      BY <3>2 DEF ResultTold
    <3>4. handle[c].told \in {"nothing", "value", "Failed"}
      BY <1>1 DEF Handle
    <3> QED BY <1>2, <3>3, <3>4
  <2>3. CASE ~handle[c].cached /\ GetResult(HandleOf[c]) # "NoResult"
    <3>1. Say(c, GetResult(HandleOf[c]))
      BY <1>3, <2>3 DEF Get
    <3> QED BY <1>2, <2>3, <3>1, SayTold
  <2> QED BY <2>1, <2>2, <2>3
<1>4. CASE Poll(c)
  <2>1. ~handle[c].cached /\ Say(c, GetResult(HandleOf[c]))
    BY <1>4 DEF Poll, CacheShape
  <2> QED BY <1>2, <2>1, SayTold
<1>5. CASE GetTimesOut(c)
  <2>1. ~handle[c].cached /\ Say(c, "TimedOut")
    BY <1>5 DEF GetTimesOut, CacheShape
  <2> QED BY <1>2, <2>1, SayTold
<1>6. CASE CloneHandle(c)
  <2>1. handle' = [handle EXCEPT ![c].cached = FALSE] /\ ~handle[c].polling
    BY <1>6 DEF CloneHandle
  <2>c. handle[c].polling \in BOOLEAN
    BY <1>1 DEF Handle
  <2>d. handle[c].polling = FALSE
    BY <2>1, <2>c, Zenon
  <2>e. [handle[c] EXCEPT !.cached = FALSE]
           = [cached |-> FALSE, polling |-> handle[c].polling, told |-> handle[c].told]
    BY <1>1, HandleSet
  <2>a. [handle[c] EXCEPT !.cached = FALSE]
           = [cached |-> FALSE, polling |-> FALSE, told |-> handle[c].told]
    BY <2>d, <2>e, Zenon
  <2>b. handle' = [handle EXCEPT ![c] = [handle[c] EXCEPT !.cached = FALSE]]
    BY <2>1 DEF TypeOK
  <2>2. handle' = [handle EXCEPT ![c] = [cached |-> FALSE, polling |-> FALSE, told |-> handle[c].told]]
    BY <2>a, <2>b
  <2>3. ResultTold(c, FALSE, FALSE, handle[c].told)
    BY <2>2 DEF ResultTold
  <2>4. handle[c].told \in {"nothing", "value", "Failed"}
    BY <1>1 DEF Handle
  <2> QED BY <1>2, <2>3, <2>4
<1> QED BY <1>3, <1>4, <1>5, <1>6 DEF ClientStep

\* Every step keeps the types.
LEMMA TypeStep ==
  ASSUME TypeOK, MapIsFinite, CacheShape, [Next]_vars
  PROVE  TypeOK'
<1>1. CASE UNCHANGED <<entry, order, slot>> /\ now' \in Time /\ UNCHANGED <<submitted, handle>>
           /\ doubted' \in SUBSET Task /\ trash' \in SUBSET Task /\ disturbed' \in SUBSET Task
  <2>1. KnownTasks' = KnownTasks
    BY <1>1 DEF KnownTasks
  <2>2. StoreTypeOK'
    BY <1>1, <2>1, OrderKept DEF TypeOK, StoreTypeOK
  <2> QED BY <1>1, <2>2 DEF TypeOK
<1>2. CASE UNCHANGED vars
  BY <1>1, <1>2 DEF vars, storeVars, sweepVars, TypeOK, StoreTypeOK
<1>3. CASE Tick
  <2>1. now' \in Time
    BY <1>3, BoundAssumption DEF Tick, TypeOK, StoreTypeOK, Time
  <2> QED BY <1>1, <1>3, <2>1 DEF Tick, sweepVars, TypeOK
<1>4. CASE ListDisposable
  BY <1>1, <1>4 DEF ListDisposable, DisposableTasks, storeVars, TypeOK, StoreTypeOK
<1>5. CASE DiscardDisposable
  <2>1. StoreTypeOK'
    BY <1>5, DiscardTyped DEF DiscardDisposable
  <2> QED BY <1>5, <2>1 DEF DiscardDisposable, TypeOK
<1>6. ASSUME NEW t \in Task, FindAbandoned(t) PROVE TypeOK'
  BY <1>1, <1>6 DEF FindAbandoned, storeVars, TypeOK, StoreTypeOK
<1>7. ASSUME NEW w \in Worker, NEW s \in Slot, NEW u \in Task, HandlerGets(w, s, u) PROVE TypeOK'
  BY <1>7, HandlerTypes DEF HandlerGets, Running
<1>8. ASSUME NEW w \in Worker, NEW s \in Slot, HandlerPolls(w, s) \/ HandlerTimesOut(w, s) PROVE TypeOK'
  BY <1>8, HandlerTypes DEF HandlerPolls, HandlerTimesOut, HandlerGoesOn, Waiting
<1>9. ASSUME NEW c \in Client, ClientStep(c) PROVE TypeOK'
  <2>1. PICK cached \in BOOLEAN, polling \in BOOLEAN, told \in {"nothing", "value", "Failed"} :
           ResultTold(c, cached, polling, told)
    BY <1>9, ClientTold
  <2>2. Elsewhere
    BY <1>9, ClientTold
  <2> QED BY <2>1, <2>2, HandleTypes DEF ResultTold
<1> QED BY <1>2, <1>3, <1>4, <1>5, <1>6, <1>7, <1>8, <1>9,
           SubmitTypes, AssignTypes, HandleTaskTypes, RestoreTypes DEF Next, ClientStep

\* What an end of an execution leaves of its task.
LEMMA HandleTaskWrites ==
  ASSUME TypeOK, NEW w \in Worker, NEW s \in Slot, HandleTask(w, s)
  PROVE  \E e \in Entry \cup {NoEntry} :
            /\ entry' = [entry EXCEPT ![slot[w][s].task] = e]
            /\ e # NoEntry => EntryFits(e) /\ e.worker = Nobody
<1> DEFINE t == slot[w][s].task
           n == slot[w][s].retry
           Leaves(e) == /\ entry' = [entry EXCEPT ![t] = e]
                        /\ e # NoEntry => EntryFits(e) /\ e.worker = Nobody
<1>1. slot[w][s] \in Held /\ t \in Task /\ n \in Attempt
  BY DEF HandleTask, Running, TypeOK, Held
<1>2. ASSUME NEW due \in 0 .. now, NEW outcome \in {"result", "error"}, Finish(t, due, n, outcome)
      PROVE  \E e \in Entry \cup {NoEntry} : Leaves(e)
  <2>0. due \in Time
    BY BoundAssumption DEF Time, TypeOK, StoreTypeOK
  <2> HIDE DEF t, n
  <2>1. /\ entry' = [entry EXCEPT ![t] = Finished(t, due, n, outcome)]
        /\ Finished(t, due, n, outcome) \in Entry
        /\ Finished(t, due, n, outcome).worker = Nobody /\ Finished(t, due, n, outcome).outcome = outcome
    BY <1>1, <1>2, <2>0, FinishWrites
  <2>2. EntryFits(Finished(t, due, n, outcome))
    BY <2>1 DEF EntryFits
  <2> QED BY <2>1, <2>2
<1>3. ASSUME DiscardTasks({t})
      PROVE  \E e \in Entry \cup {NoEntry} : Leaves(e)
  <2>1. entry' = [entry EXCEPT ![t] = NoEntry]
    BY <1>1, <1>3 DEF DiscardTasks, TypeOK, StoreTypeOK
  <2>2. Leaves(NoEntry)
    BY <2>1
  <2> HIDE DEF Leaves
  <2> QED BY <2>2
<1>4. ASSUME n < MaxRetry, NEW due \in now .. MaxTime, RetryTask(t, n + 1, due)
      PROVE  \E e \in Entry \cup {NoEntry} : Leaves(e)
  <2>1. n + 1 \in Attempt /\ due \in Time
    BY <1>1, <1>4, BoundAssumption DEF Attempt, Time, TypeOK, StoreTypeOK
  <2>2. NewEntry(due, n + 1) \in Entry
    <3> HIDE DEF n
    <3> QED BY <2>1, NewEntryTyped
  <2>3. EntryFits(NewEntry(due, n + 1)) /\ NewEntry(due, n + 1).worker = Nobody
    BY DEF NewEntry, EntryFits
  <2>4. entry' = [entry EXCEPT ![t] = NewEntry(due, n + 1)]
    BY <1>4 DEF RetryTask
  <2> HIDE DEF n
  <2> QED BY <2>2, <2>3, <2>4
<1>5. \/ \E due \in 0 .. now, outcome \in {"result", "error"} : Finish(t, due, n, outcome)
      \/ DiscardTasks({t})
      \/ n < MaxRetry /\ \E due \in now .. MaxTime : RetryTask(t, n + 1, due)
  BY DEF HandleTask
<1>6. \E e \in Entry \cup {NoEntry} : Leaves(e)
  <2> HIDE DEF Leaves, t, n
  <2> QED BY <1>2, <1>3, <1>4, <1>5
<1>7. PICK e \in Entry \cup {NoEntry} : Leaves(e)
  BY <1>6
<1>8. /\ entry' = [entry EXCEPT ![slot[w][s].task] = e]
      /\ e # NoEntry => EntryFits(e) /\ e.worker = Nobody
  BY <1>7
<1> QED BY <1>8

\* An undisturbed task that is held is on the stage: it has no outcome, no sweep has
\* listed it and no client was told anything of it.
LEMMA HeldIsLive ==
  ASSUME TypeOK, IInv, NEW t \in Task \ disturbed, NEW w \in Worker, NEW s \in Slot, Holds(w, s, t)
  PROVE  /\ t \in KnownTasks /\ Staged(t) /\ entry[t].outcome = "none" /\ t \notin trash
         /\ \A c \in Client : HandleOf[c] = t => handle[c].told = "nothing"
         /\ \A v \in Worker, r \in Slot : Holds(v, r, t) => v = w /\ r = s
<1>1. Staged(t) /\ \A v \in Worker, r \in Slot : Holds(v, r, t) => v = w /\ r = s
  BY DEF IInv, RunsAlone
<1>2. t \in KnownTasks /\ entry[t].outcome = "none"
  BY <1>1 DEF IInv, EntryShape, EntryFits, Staged, Known, KnownTasks
<1>3. t \notin trash
  BY <1>2 DEF IInv, TrashShape, Done, Known, KnownTasks
<1>4. ASSUME NEW c \in Client, HandleOf[c] = t, handle[c].told # "nothing" PROVE FALSE
  <2>1. handle[c].told \in {"value", "Failed"}
    BY <1>4 DEF TypeOK, Handle
  <2>2. entry[t].outcome = Told[handle[c].told]
    BY <1>2, <1>4 DEF IInv, ToldShape, Known, KnownTasks
  <2> QED BY <1>2, <2>1, <2>2 DEF Told
<1> QED BY <1>1, <1>2, <1>3, <1>4

\* A step that leaves the map and the permits alone.
LEMMA QuietStep ==
  ASSUME TypeOK, IInv, UNCHANGED <<entry, slot, submitted, handle>>,
         disturbed \subseteq disturbed', doubted' \subseteq disturbed', TrashShape'
  PROVE  IInv'
<1>1. MapIsFinite' /\ EntryShape' /\ HeldShape'
  BY DEF IInv, MapIsFinite, EntryShape, HeldShape, KnownTasks
<1>2. RunsAlone'
  BY DEF IInv, RunsAlone, Holds, Staged, Known
<1>3. CacheShape' /\ ToldShape'
  BY DEF IInv, CacheShape, ToldShape, Known
<1> QED BY <1>1, <1>2, <1>3 DEF IInv

\* put_tasks keeps the invariant.
LEMMA SubmitKeeps ==
  ASSUME TypeOK, IInv, NEW t \in Task, Submit(t)
  PROVE  IInv'
<1>1. PICK due \in Time : PutTask(t, due)
  BY DEF Submit
<1>2. UNCHANGED <<slot, doubted, trash, disturbed, handle>> /\ submitted' = submitted \cup {t}
  BY DEF Submit, sweepVars
<1>3. CASE Known(t)
  <2>1. entry' = entry
    BY <1>1, <1>3 DEF PutTask
  <2>2. submitted' = submitted
    BY <1>2, <1>3 DEF IInv, MapIsFinite, Known, KnownTasks
  <2>3. TrashShape'
    BY <1>2, <2>1, <2>2 DEF IInv, TrashShape, Known, Done
  <2> QED BY <1>2, <2>1, <2>2, <2>3, QuietStep DEF IInv
<1>4. CASE ~Known(t)
  <2> DEFINE e == NewEntry(due, 0)
  <2>1. entry' = [entry EXCEPT ![t] = e]
    BY <1>1, <1>4 DEF PutTask
  <2>2. t \notin submitted
    BY <1>4 DEF Submit
  <2>3. e # NoEntry /\ EntryFits(e)
    <3>1. e # NoEntry
      BY NewEntryTyped, BoundAssumption DEF Attempt
    <3>2. EntryFits(e)
      BY DEF EntryFits, NewEntry
    <3> QED BY <3>1, <3>2
  <2> HIDE DEF e
  <2>4. entry'[t] = e /\ \A u \in Task \ {t} : entry'[u] = entry[u]
    BY <2>1 DEF TypeOK, StoreTypeOK
  <2>5. MapIsFinite'
    <3>1. IsFiniteSet(submitted')
      BY <1>2, FS_AddElement DEF IInv, MapIsFinite
    <3> QED BY <1>2, <2>4, <3>1 DEF IInv, MapIsFinite, KnownTasks
  <2>6. EntryShape'
    BY <2>3, <2>4 DEF IInv, EntryShape, KnownTasks
  <2>7. HeldShape'
    BY <1>2 DEF IInv, HeldShape
  <2>8. \A w \in Worker, s \in Slot : ~Holds(w, s, t)
    BY <2>2 DEF IInv, HeldShape, Holds
  <2>9. RunsAlone'
    BY <1>2, <2>4, <2>8 DEF IInv, RunsAlone, Holds, Staged, Known
  <2>10. TrashShape'
    BY <1>2, <2>2, <2>4 DEF IInv, TrashShape, Known, Done, TypeOK
  <2>11. CacheShape' /\ doubted' \subseteq disturbed'
    BY <1>2 DEF IInv, CacheShape
  <2>12. ToldShape'
    BY <1>2, <2>2, <2>4, HandleAssumption DEF IInv, ToldShape, Known
  <2> QED BY <2>5, <2>6, <2>7, <2>9, <2>10, <2>11, <2>12 DEF IInv
<1> QED BY <1>3, <1>4

\* A round of the fetch loop keeps the invariant: a claimed task is queued, so no permit is
\* held for it unless it was found abandoned.
LEMMA AssignKeeps ==
  ASSUME TypeOK, IInv, NEW w \in Worker, Assign(w)
  PROVE  IInv'
<1>1. PICK T, S, task : Claims(w, T, S, task)
  BY MapFinite, AssignClaims DEF IInv
<1>2. UNCHANGED <<doubted, trash, disturbed, submitted, handle>>
  BY <1>1 DEF Claims, sweepVars
<1>3. T \in SUBSET KnownTasks /\ \A t \in T : entry[t] \in Entry /\ entry[t].worker = Nobody
                                             /\ entry[t].outcome = "none"
  BY <1>1 DEF Claims, DueTasks, Queued, Known, Staged, Done, KnownTasks, TypeOK, StoreTypeOK
<1>4. \A t \in Task : entry'[t] = IF t \in T THEN [entry[t] EXCEPT !.worker = w] ELSE entry[t]
  BY <1>1, ClaimsPlace
<1>5. \A t \in T : /\ entry'[t].worker = w /\ entry'[t].outcome = "none"
                   /\ entry'[t].until = entry[t].until /\ entry'[t] # NoEntry
  <2>1. \A t \in T : [entry[t] EXCEPT !.worker = w] \in Entry
    BY <1>3 DEF Entry
  <2>2. T \in SUBSET Task
    BY <1>3 DEF KnownTasks
  <2> QED BY <1>3, <1>4, <2>1, <2>2, EntryAssumption DEF Entry
<1>6. \A t \in Task \ T : entry'[t] = entry[t]
  BY <1>4
<1>7. KnownTasks' = KnownTasks
  BY <1>3, <1>5, <1>6 DEF KnownTasks
<1>8. MapIsFinite'
  BY <1>2, <1>7 DEF IInv, MapIsFinite
<1>9. EntryShape'
  BY <1>3, <1>5, <1>6, <1>7 DEF IInv, EntryShape, EntryFits, KnownTasks
<1>10. \A v \in Worker, r \in Slot, t \in Task :
          Holds(v, r, t)' => \/ Holds(v, r, t) /\ ~(v = w /\ r \in S)
                             \/ v = w /\ r \in S /\ t = task[r] /\ t \in T
  <2>1. /\ \A s \in S : task[s] \in T
        /\ \A s \in Slot : slot'[w][s] =
               IF s \in S THEN [task |-> task[s], retry |-> entry[task[s]].retry, on |-> NoTask]
               ELSE slot[w][s]
        /\ \A v \in Worker \ {w} : slot'[v] = slot[v]
    BY <1>1, ClaimsPlace
  <2>2. ASSUME NEW v \in Worker, NEW r \in Slot, NEW t \in Task, Holds(v, r, t)',
               ~(v = w /\ r \in S)
        PROVE  Holds(v, r, t)
    <3>1. slot'[v][r] = slot[v][r]
      BY <2>1, <2>2
    <3>2. slot'[v][r] # Free /\ slot'[v][r].task = t
      BY <2>2 DEF Holds
    <3> QED BY <3>1, <3>2 DEF Holds
  <2>3. ASSUME NEW r \in S, NEW t \in Task, Holds(w, r, t)'
        PROVE  t = task[r] /\ t \in T
    <3>1. r \in Slot
      BY <1>1, ClaimsPlace
    <3>2. slot'[w][r] = [task |-> task[r], retry |-> entry[task[r]].retry, on |-> NoTask]
      BY <2>1, <3>1
    <3>3. slot'[w][r].task = t
      BY <2>3 DEF Holds
    <3> QED BY <2>1, <3>2, <3>3
  <2> QED BY <2>2, <2>3
<1>11. HeldShape'
  <2>1. ASSUME NEW v \in Worker, NEW r \in Slot, slot'[v][r] # Free PROVE slot'[v][r].task \in submitted
    <3>1. slot' \in [Worker -> [Slot -> Held \cup {Free}]]
      BY AssignTypes DEF IInv, TypeOK
    <3>2. PICK t \in Task : t = slot'[v][r].task
      BY <2>1, <3>1 DEF Held
    <3>3. Holds(v, r, t)'
      BY <2>1, <3>2 DEF Holds
    <3>4. CASE Holds(v, r, t)
      BY <3>2, <3>4 DEF IInv, HeldShape, Holds
    <3>5. CASE t \in T
      BY <1>3, <3>2, <3>5 DEF IInv, MapIsFinite
    <3> QED BY <1>10, <3>3, <3>4, <3>5
  <2> QED BY <1>2, <2>1 DEF HeldShape
<1>12. RunsAlone'
  <2>1. ASSUME NEW t \in Task \ disturbed, NEW v \in Worker, NEW r \in Slot, Holds(v, r, t)'
        PROVE  /\ entry'[t] # NoEntry /\ entry'[t].worker = v /\ entry'[t].worker # Nobody
               /\ \A x \in Worker, y \in Slot : Holds(x, y, t)' => x = v /\ y = r
    <3>1. CASE t \in T
      <4>1. \A x \in Worker, y \in Slot : ~Holds(x, y, t)
        BY <1>1, <2>1, <3>1 DEF Claims, DueTasks, Queued, IInv, RunsAlone
      <4>2. \A x \in Worker, y \in Slot : Holds(x, y, t)' => x = w /\ y \in S /\ task[y] = t
        BY <1>10, <4>1
      <4>3. \A y, z \in S : task[y] = task[z] => y = z
        BY <1>1, ClaimsPlace
      <4> QED BY <1>5, <2>1, <3>1, <4>2, <4>3, NullAssumption
    <3>2. CASE t \notin T
      <4>1. \A x \in Worker, y \in Slot : Holds(x, y, t)' => Holds(x, y, t)
        BY <1>10, <3>2
      <4> QED BY <1>6, <2>1, <3>2, <4>1 DEF IInv, RunsAlone, Staged, Known
    <3> QED BY <3>1, <3>2
  <2> QED BY <1>2, <2>1 DEF RunsAlone, Staged, Known
<1>13. TrashShape'
  <2>1. trash \subseteq Task
    BY DEF TypeOK
  <2>2. ASSUME NEW t \in trash \ disturbed, Known(t) PROVE Done(t) /\ t \notin T
    BY <1>3, <2>2 DEF IInv, TrashShape, Done
  <2> QED BY <1>2, <1>6, <1>7, <2>1, <2>2 DEF IInv, TrashShape, Known, Done, KnownTasks
<1>14. CacheShape' /\ doubted' \subseteq disturbed'
  BY <1>2 DEF IInv, CacheShape
<1>15. \A t \in KnownTasks : entry'[t].outcome = entry[t].outcome
  BY <1>3, <1>5, <1>6 DEF KnownTasks
<1>16. ToldShape'
  BY <1>2, <1>7, <1>15, HandleAssumption DEF IInv, ToldShape, Known, KnownTasks
<1> QED BY <1>8, <1>9, <1>11, <1>12, <1>13, <1>14, <1>16 DEF IInv

\* The end of an execution keeps the invariant.
LEMMA HandleTaskKeeps ==
  ASSUME TypeOK, IInv, NEW w \in Worker, NEW s \in Slot, HandleTask(w, s)
  PROVE  IInv'
<1> DEFINE t == slot[w][s].task
<1>1. slot[w][s] # Free /\ t \in Task /\ Holds(w, s, t)
  BY DEF HandleTask, Running, TypeOK, Held, Holds
<1>2. UNCHANGED <<now, doubted, trash, disturbed, submitted, handle>>
  BY DEF HandleTask, sweepVars
<1>3. PICK e \in Entry \cup {NoEntry} :
         /\ entry' = [entry EXCEPT ![t] = e]
         /\ e # NoEntry => EntryFits(e) /\ e.worker = Nobody
  BY HandleTaskWrites
<1>4. slot' = [slot EXCEPT ![w][s] = Free]
  BY DEF HandleTask
<1>5. t \in submitted
  BY <1>1 DEF IInv, HeldShape
<1> HIDE DEF t
<1>6. entry'[t] = e /\ \A u \in Task \ {t} : entry'[u] = entry[u]
  BY <1>1, <1>3 DEF TypeOK, StoreTypeOK
<1>7. \A v \in Worker, r \in Slot :
         slot'[v][r] = IF v = w /\ r = s THEN Free ELSE slot[v][r]
  BY <1>4 DEF TypeOK
<1>8. \A v \in Worker, r \in Slot, u \in Task :
         Holds(v, r, u)' => Holds(v, r, u) /\ ~(v = w /\ r = s)
  BY <1>7 DEF Holds
<1>9. t \notin disturbed =>
         /\ t \notin trash
         /\ \A c \in Client : HandleOf[c] = t => handle[c].told = "nothing"
         /\ \A v \in Worker, r \in Slot : Holds(v, r, t) => v = w /\ r = s
  BY <1>1, HeldIsLive
<1>10. MapIsFinite'
  BY <1>2, <1>5, <1>6 DEF IInv, MapIsFinite, KnownTasks
<1>11. EntryShape'
  BY <1>3, <1>6 DEF IInv, EntryShape, KnownTasks
<1>12. HeldShape'
  BY <1>2, <1>7 DEF IInv, HeldShape
<1>13. RunsAlone'
  <2>1. ASSUME NEW u \in Task \ disturbed, NEW v \in Worker, NEW r \in Slot, Holds(v, r, u)'
        PROVE  /\ entry'[u] = entry[u]
               /\ Holds(v, r, u)
               /\ \A x \in Worker, y \in Slot : Holds(x, y, u)' => x = v /\ y = r
    <3>1. Holds(v, r, u) /\ u # t
      BY <1>8, <1>9, <2>1
    <3>2. \A x \in Worker, y \in Slot : Holds(x, y, u) => x = v /\ y = r
      BY <2>1, <3>1 DEF IInv, RunsAlone
    <3> QED BY <1>6, <1>8, <3>1, <3>2
  <2> QED BY <1>2, <2>1 DEF IInv, RunsAlone, Staged, Known
<1>14. TrashShape'
  BY <1>2, <1>6, <1>9 DEF IInv, TrashShape, Known, Done, TypeOK
<1>15. CacheShape' /\ doubted' \subseteq disturbed'
  BY <1>2 DEF IInv, CacheShape
<1>16. ToldShape'
  BY <1>2, <1>6, <1>9, HandleAssumption DEF IInv, ToldShape, Known
<1> QED BY <1>10, <1>11, <1>12, <1>13, <1>14, <1>15, <1>16 DEF IInv

\* restore keeps the invariant: it is about a task that was found abandoned.
LEMMA RestoreKeeps ==
  ASSUME TypeOK, IInv, NEW t \in Task, RestoreTask(t)
  PROVE  IInv'
<1>1. UNCHANGED <<slot, trash, disturbed, submitted, handle>> /\ doubted' = doubted \ {t}
  BY DEF RestoreTask
<1>2. t \in disturbed
  BY DEF RestoreTask, IInv
<1>3. \A u \in Task \ {t} : entry'[u] = entry[u]
  BY DEF RestoreTask, Restore, TypeOK, StoreTypeOK
<1>4. KnownTasks' = KnownTasks /\ (Known(t) => EntryFits(entry'[t]))
  <2>1. CASE Known(t)
    <3>1. entry'[t] = [entry[t] EXCEPT !.worker = Nobody] /\ entry[t] \in Entry
      BY <2>1 DEF RestoreTask, Restore, TypeOK, StoreTypeOK, Known
    <3>2. entry'[t] \in Entry /\ entry'[t].worker = Nobody
      BY <3>1 DEF Entry
    <3>3. entry'[t].outcome = entry[t].outcome /\ entry'[t].until = entry[t].until
      BY <3>1 DEF Entry
    <3>4. EntryFits(entry[t])
      BY <2>1 DEF IInv, EntryShape, Known, KnownTasks
    <3> QED BY <1>3, <2>1, <3>2, <3>3, <3>4, EntryAssumption DEF EntryFits, Known, KnownTasks
  <2>2. CASE ~Known(t)
    BY <2>2 DEF RestoreTask, Restore, KnownTasks
  <2> QED BY <2>1, <2>2
<1>5. MapIsFinite' /\ HeldShape' /\ CacheShape' /\ doubted' \subseteq disturbed'
  BY <1>1, <1>4 DEF IInv, MapIsFinite, HeldShape, CacheShape
<1>6. EntryShape'
  BY <1>3, <1>4 DEF IInv, EntryShape, KnownTasks, Known
<1>7. RunsAlone'
  BY <1>1, <1>2, <1>3 DEF IInv, RunsAlone, Holds, Staged, Known
<1>8. TrashShape'
  BY <1>1, <1>2, <1>3 DEF IInv, TrashShape, Known, Done, TypeOK
<1>9. ToldShape'
  BY <1>1, <1>2, <1>3, HandleAssumption DEF IInv, ToldShape, Known
<1> QED BY <1>5, <1>6, <1>7, <1>8, <1>9 DEF IInv

\* The discard of old results keeps the invariant: what it removes is done.
LEMMA DiscardKeeps ==
  ASSUME TypeOK, IInv, DiscardDisposable
  PROVE  IInv'
<1>1. UNCHANGED <<slot, doubted, disturbed, submitted, handle>> /\ trash' = {}
  BY DEF DiscardDisposable
<1>2. \A t \in Task : entry'[t] = IF t \in trash THEN NoEntry ELSE entry[t]
  BY DEF DiscardDisposable, DiscardTasks
<1>3. MapIsFinite' /\ EntryShape' /\ HeldShape' /\ CacheShape' /\ doubted' \subseteq disturbed' /\ TrashShape'
  BY <1>1, <1>2 DEF IInv, MapIsFinite, EntryShape, HeldShape, CacheShape, TrashShape, KnownTasks
<1>4. RunsAlone'
  <2>1. ASSUME NEW t \in Task \ disturbed, NEW w \in Worker, NEW s \in Slot, Holds(w, s, t)
        PROVE  t \notin trash
    BY <2>1, HeldIsLive
  <2> QED BY <1>1, <1>2, <2>1 DEF IInv, RunsAlone, Holds, Staged, Known
<1>5. ToldShape'
  BY <1>1, <1>2, HandleAssumption DEF IInv, ToldShape, Known
<1> QED BY <1>3, <1>4, <1>5 DEF IInv

\* A handler asks, waits or goes on.
LEMMA HandlerKeeps ==
  ASSUME TypeOK, IInv, NEW w \in Worker, NEW s \in Slot, slot[w][s] # Free, NEW u \in Task \cup {NoTask},
         slot' = [slot EXCEPT ![w][s].on = u], UNCHANGED <<storeVars, sweepVars, submitted, handle>>
  PROVE  IInv'
<1>1. UNCHANGED <<entry, doubted, trash, disturbed, submitted, handle>>
  BY DEF storeVars, sweepVars
<1>2. \A v \in Worker, r \in Slot :
         /\ slot'[v][r] # Free => slot[v][r] # Free
         /\ slot'[v][r] # Free => slot'[v][r].task = slot[v][r].task
  BY DEF TypeOK, Held
<1>3. HeldShape'
  BY <1>1, <1>2 DEF IInv, HeldShape
<1>4. RunsAlone'
  <2>1. \A v \in Worker, r \in Slot, t \in Task : Holds(v, r, t)' => Holds(v, r, t)
    BY <1>2 DEF Holds
  <2> QED BY <1>1, <2>1 DEF IInv, RunsAlone, Staged, Known
<1>5. MapIsFinite' /\ EntryShape' /\ CacheShape' /\ ToldShape' /\ TrashShape' /\ doubted' \subseteq disturbed'
  BY <1>1 DEF IInv, MapIsFinite, EntryShape, CacheShape, ToldShape, TrashShape, KnownTasks, Known, Done
<1> QED BY <1>3, <1>4, <1>5 DEF IInv

\* A call on a handle keeps the invariant.
LEMMA ClientKeeps ==
  ASSUME TypeOK, IInv, NEW c \in Client, ClientStep(c)
  PROVE  IInv'
<1>1. PICK cached \in BOOLEAN, polling \in BOOLEAN, told \in {"nothing", "value", "Failed"} :
         ResultTold(c, cached, polling, told)
  BY ClientTold DEF IInv
<1>2. UNCHANGED <<now, entry, order, slot, doubted, trash, disturbed, submitted>>
  BY ClientTold DEF IInv, Elsewhere, storeVars, sweepVars
<1>3. /\ handle'[c] = [cached |-> cached, polling |-> polling, told |-> told]
      /\ \A d \in Client \ {c} : handle'[d] = handle[d]
  BY <1>1 DEF ResultTold, TypeOK
<1>4. CacheShape'
  <2>1. handle'[c].cached => handle'[c].told = "value" /\ ~handle'[c].polling
    BY <1>1, <1>3 DEF ResultTold
  <2> QED BY <1>3, <2>1 DEF IInv, CacheShape
<1>5. ToldShape'
  <2>1. ASSUME told # "nothing", HandleOf[c] \notin disturbed
        PROVE  /\ HandleOf[c] \in submitted
               /\ Known(HandleOf[c]) => entry[HandleOf[c]].outcome = Told[told]
    <3>1. CASE told = handle[c].told
      BY <2>1, <3>1 DEF IInv, ToldShape
    <3>2. CASE told # handle[c].told
      <4>1. told \in {"value", "Failed"} /\ GetResult(HandleOf[c]) = told
        BY <1>1, <3>2 DEF ResultTold
      <4>2. HandleOf[c] \in Task
        BY HandleAssumption
      <4>3. Known(HandleOf[c]) /\ entry[HandleOf[c]].outcome = Told[told]
        BY <4>1, <4>2, ResultKinds DEF Told
      <4> QED BY <4>2, <4>3 DEF IInv, MapIsFinite, Known, KnownTasks
    <3> QED BY <3>1, <3>2
  <2>2. handle'[c].told = told
    BY <1>3
  <2> QED BY <1>2, <1>3, <2>1, <2>2 DEF IInv, ToldShape, Known
<1>6. MapIsFinite' /\ EntryShape' /\ HeldShape' /\ RunsAlone' /\ TrashShape' /\ doubted' \subseteq disturbed'
  BY <1>2 DEF IInv, MapIsFinite, EntryShape, HeldShape, RunsAlone, TrashShape, KnownTasks, Known, Done,
              Holds, Staged
<1> QED BY <1>4, <1>5, <1>6 DEF IInv

\* Every step keeps the invariant.
LEMMA InvStep ==
  ASSUME TypeOK, IInv, [Next]_vars
  PROVE  IInv'
<1>1. CASE UNCHANGED vars
  <2>1. TrashShape'
    BY <1>1 DEF vars, storeVars, sweepVars, IInv, TrashShape, Known, Done
  <2> QED BY <1>1, <2>1, QuietStep DEF vars, storeVars, sweepVars, IInv
<1>2. CASE Tick
  <2>1. TrashShape'
    BY <1>2 DEF Tick, sweepVars, IInv, TrashShape, Known, Done
  <2> QED BY <1>2, <2>1, QuietStep DEF Tick, sweepVars, IInv
<1>3. CASE ListDisposable
  <2>1. UNCHANGED <<entry, slot, submitted, handle, doubted, disturbed>> /\ trash' = DisposableTasks
    BY <1>3 DEF ListDisposable, storeVars
  <2>2. \A t \in DisposableTasks : t \in KnownTasks /\ Done(t)
    <3>1. now # Never /\ now <= MaxTime /\ now \in Nat
      BY BoundAssumption DEF TypeOK, StoreTypeOK, Time, Never
    <3>2. \A t \in DisposableTasks : t \in KnownTasks /\ entry[t].until # Never
      BY <3>1, BoundAssumption DEF DisposableTasks, Known, KnownTasks, Never
    <3> QED BY <3>2 DEF IInv, EntryShape, EntryFits, Done, Known, KnownTasks
  <2>3. TrashShape'
    BY <2>1, <2>2 DEF IInv, MapIsFinite, TrashShape, Known, Done
  <2> QED BY <2>1, <2>3, QuietStep DEF IInv
<1>4. ASSUME NEW t \in Task, FindAbandoned(t) PROVE IInv'
  <2>1. /\ UNCHANGED <<entry, slot, submitted, handle, trash>>
        /\ doubted' = doubted \cup {t} /\ disturbed' = disturbed \cup {t}
    BY <1>4 DEF FindAbandoned, storeVars
  <2>2. TrashShape'
    BY <2>1 DEF IInv, TrashShape, Known, Done
  <2> QED BY <2>1, <2>2, QuietStep DEF IInv
<1>5. ASSUME NEW w \in Worker, NEW s \in Slot, NEW u \in Task, HandlerGets(w, s, u) PROVE IInv'
  BY <1>5, HandlerKeeps DEF HandlerGets, Running
<1>6. ASSUME NEW w \in Worker, NEW s \in Slot, HandlerPolls(w, s) \/ HandlerTimesOut(w, s) PROVE IInv'
  BY <1>6, HandlerKeeps DEF HandlerPolls, HandlerTimesOut, HandlerGoesOn, Waiting
<1> QED BY <1>1, <1>2, <1>3, <1>4, <1>5, <1>6, SubmitKeeps, AssignKeeps, HandleTaskKeeps, RestoreKeeps,
           DiscardKeeps, ClientKeeps DEF Next, ClientStep

\* It holds initially.
LEMMA InitInv ==
  ASSUME Init
  PROVE  TypeOK /\ IInv
<1>1. now = 0 /\ entry = [t \in Task |-> NoEntry] /\ order = {}
  BY DEF Init, StoreInit
<1>2. KnownTasks = {} /\ \A t \in Task : ~Known(t)
  BY <1>1 DEF KnownTasks, Known
<1>3. StoreTypeOK
  <2>1. now \in Time /\ entry \in [Task -> Entry \cup {NoEntry}]
    BY <1>1, BoundAssumption DEF Time
  <2>2. OrderOK
    BY <1>1, <1>2 DEF OrderOK
  <2> QED BY <2>1, <2>2 DEF StoreTypeOK
<1>4. TypeOK
  <2>1. slot \in [Worker -> [Slot -> Held \cup {Free}]]
    BY DEF Init
  <2>2. handle \in [Client -> Handle]
    BY DEF Init, Handle
  <2> QED BY <1>3, <2>1, <2>2 DEF Init, TypeOK
<1>5. MapIsFinite
  BY <1>2, FS_EmptySet DEF Init, MapIsFinite
<1>6. HeldShape /\ RunsAlone
  BY DEF Init, HeldShape, RunsAlone, Holds
<1>7. CacheShape
  BY DEF Init, CacheShape
<1>8. ToldShape
  BY DEF Init, ToldShape
<1>9. EntryShape /\ TrashShape /\ doubted \subseteq disturbed
  BY <1>2 DEF Init, EntryShape, TrashShape
<1> QED BY <1>4, <1>5, <1>6, <1>7, <1>8, <1>9 DEF IInv

\* It holds always.
LEMMA Invariance == Spec => [](TypeOK /\ IInv)
<1>1. TypeOK /\ IInv /\ [Next]_vars => (TypeOK /\ IInv)'
  BY TypeStep, InvStep DEF IInv
<1> QED BY InitInv, <1>1, PTL DEF Spec

\* The variables have their types; the tasks in the map are in a linear order (impls/memory.rs,
\* runner.rs, result.rs).
THEOREM MemoryTypeCorrect == Spec => []TypeOK
BY Invariance, PTL

\* Everything that can happen to the entry of a task.
LEMMA EntryChanges ==
  ASSUME TypeOK, IInv, [Next]_vars, NEW t \in Task, entry'[t] # entry[t]
  PROVE  \/ ~Known(t) /\ entry'[t].worker = Nobody
         \/ \E w \in Worker : \E T, S, task : Claims(w, T, S, task) /\ t \in T
         \/ /\ \E w \in Worker, s \in Slot : Holds(w, s, t)
            /\ entry'[t] = NoEntry \/ entry'[t].worker = Nobody
         \/ /\ Known(t) /\ entry'[t].worker = Nobody
            /\ entry'[t].outcome = entry[t].outcome
         \/ entry'[t] = NoEntry
<1>1. CASE UNCHANGED entry
  BY <1>1
<1>2. CASE DiscardDisposable
  BY <1>2 DEF DiscardDisposable, DiscardTasks
<1>3. ASSUME NEW x \in Task, Submit(x)
      PROVE  ~Known(t) /\ entry'[t].worker = Nobody
  <2>1. PICK due \in Time : PutTask(x, due)
    BY <1>3 DEF Submit
  <2>2. x = t /\ ~Known(t) /\ entry' = [entry EXCEPT ![t] = NewEntry(due, 0)]
    BY <2>1 DEF PutTask, TypeOK, StoreTypeOK
  <2> QED BY <2>2 DEF NewEntry, TypeOK, StoreTypeOK
<1>4. ASSUME NEW x \in Task, RestoreTask(x)
      PROVE  Known(t) /\ entry'[t].worker = Nobody /\ entry'[t].outcome = entry[t].outcome
  <2>1. x = t /\ Known(t) /\ entry' = [entry EXCEPT ![t].worker = Nobody]
    BY <1>4 DEF RestoreTask, Restore, TypeOK, StoreTypeOK
  <2>2. entry[t] \in Entry /\ entry'[t] = [entry[t] EXCEPT !.worker = Nobody]
    BY <2>1 DEF Known, TypeOK, StoreTypeOK
  <2> QED BY <2>1, <2>2 DEF Entry
<1>5. ASSUME NEW w \in Worker, NEW s \in Slot, HandleTask(w, s)
      PROVE  /\ Holds(w, s, t)
             /\ entry'[t] = NoEntry \/ entry'[t].worker = Nobody
  <2>1. PICK e \in Entry \cup {NoEntry} :
           /\ entry' = [entry EXCEPT ![slot[w][s].task] = e]
           /\ e # NoEntry => EntryFits(e) /\ e.worker = Nobody
    BY <1>5, HandleTaskWrites
  <2>2. slot[w][s].task = t
    BY <2>1 DEF TypeOK, StoreTypeOK
  <2>3. entry'[t] = e
    BY <2>1, <2>2 DEF TypeOK, StoreTypeOK
  <2> QED BY <1>5, <2>1, <2>2, <2>3 DEF Holds, HandleTask, Running
<1>6. ASSUME NEW w \in Worker, Assign(w)
      PROVE  \E T, S, task : Claims(w, T, S, task) /\ t \in T
  <2>1. PICK T, S, task : Claims(w, T, S, task)
    BY <1>6, MapFinite, AssignClaims DEF IInv
  <2>2. entry'[t] = IF t \in T THEN [entry[t] EXCEPT !.worker = w] ELSE entry[t]
    BY <2>1 DEF Claims, AssignTasks
  <2>3. t \in T
    BY <2>2
  <2> QED BY <2>1, <2>3
<1>7. ASSUME NEW c \in Client, ClientStep(c) PROVE UNCHANGED entry
  BY <1>7, ClientTold DEF IInv, Elsewhere, storeVars
<1>8. \/ UNCHANGED entry \/ DiscardDisposable
      \/ \E x \in Task : Submit(x) \/ RestoreTask(x)
      \/ \E w \in Worker : Assign(w) \/ \E s \in Slot : HandleTask(w, s)
  <2>1. Tick \/ ListDisposable => UNCHANGED entry
    BY DEF Tick, ListDisposable, storeVars
  <2>2. \A x \in Task : FindAbandoned(x) => UNCHANGED entry
    BY DEF FindAbandoned, storeVars
  <2>3. \A w \in Worker, s \in Slot : HandlerPolls(w, s) \/ HandlerTimesOut(w, s) => UNCHANGED entry
    BY DEF HandlerPolls, HandlerTimesOut, HandlerGoesOn, storeVars
  <2>4. \A w \in Worker, s \in Slot, u \in Task : HandlerGets(w, s, u) => UNCHANGED entry
    BY DEF HandlerGets, storeVars
  <2>5. UNCHANGED vars => UNCHANGED entry
    BY DEF vars, storeVars
  <2> QED BY <1>7, <2>1, <2>2, <2>3, <2>4, <2>5 DEF Next, ClientStep
<1> QED BY <1>1, <1>2, <1>3, <1>4, <1>5, <1>6, <1>8

\* A task is put on the stage only with all due tasks of its group that precede it.
LEMMA ClaimsOrdered ==
  ASSUME TypeOK, IInv, [Next]_vars, NEW t \in Task, NEW u \in Task,
         Queued(t), Staged(t)', u \in DueTasks(GroupOf[t]), Precedes(u, t)
  PROVE  Staged(u)'
<1>1. Known(t) /\ ~Staged(t) /\ entry'[t] # NoEntry /\ entry'[t].worker # Nobody
  BY DEF Queued, Staged, Known
<1>2. entry'[t] # entry[t]
  BY <1>1 DEF Staged
<1>3. PICK w \in Worker : \E T, S, task : Claims(w, T, S, task) /\ t \in T
  BY <1>1, <1>2, EntryChanges
<1>4. PICK T, S, task : Claims(w, T, S, task) /\ t \in T
  BY <1>3
<1>5. GroupOf[t] = w
  BY <1>4 DEF Claims, DueTasks
<1>6. ~Precedes(t, u)
  <2>1. t \in KnownTasks /\ u \in KnownTasks
    BY <1>1 DEF DueTasks, Queued, Known, KnownTasks
  <2>2. entry[t].due \in Nat /\ entry[u].due \in Nat
    BY <2>1, BoundAssumption DEF TypeOK, StoreTypeOK, KnownTasks, Entry, Time
  <2>3. <<u, t>> \in order => <<t, u>> \notin order
    BY <2>1 DEF TypeOK, StoreTypeOK, OrderOK
  <2> QED BY <2>2, <2>3 DEF Precedes
<1>7. u \in T
  BY <1>4, <1>5, <1>6 DEF Claims
<1>8. entry[u] \in Entry /\ entry'[u] = [entry[u] EXCEPT !.worker = w]
  <2>1. entry'[u] = [entry[u] EXCEPT !.worker = w]
    BY <1>4, <1>7 DEF Claims, AssignTasks
  <2>2. entry[u] \in Entry
    BY DEF DueTasks, Queued, Known, TypeOK, StoreTypeOK
  <2> QED BY <2>1, <2>2
<1>9. entry'[u] \in Entry /\ entry'[u].worker = w
  BY <1>8 DEF Entry
<1> QED BY <1>9, EntryAssumption, NullAssumption DEF Staged, Known

\* A done task gets back into the queue only by an execution that holds it.
LEMMA DoneStays ==
  ASSUME TypeOK, IInv, [Next]_vars, NEW t \in Task, Done(t), Queued(t)'
  PROVE  \E w \in Worker, s \in Slot : Holds(w, s, t)
<1>1. Known(t) /\ entry[t].outcome # "none"
  BY DEF Done
<1>2. entry'[t] # NoEntry /\ entry'[t].outcome = "none"
  BY DEF Queued, Known, Done
<1>3. entry'[t] # entry[t]
  BY <1>1, <1>2
<1>4. ASSUME NEW w \in Worker, NEW T, NEW S, NEW task, Claims(w, T, S, task), t \in T PROVE FALSE
  BY <1>1, <1>4 DEF Claims, DueTasks, Queued, Done
<1> QED BY <1>1, <1>2, <1>3, <1>4, EntryChanges

\* What a client was told changes only for a task that was found abandoned.
LEMMA AnswerStays ==
  ASSUME TypeOK, IInv, [Next]_vars, NEW c \in Client,
         handle[c].told # "nothing", handle'[c].told # handle[c].told
  PROVE  HandleOf[c] \in disturbed
<1>1. PICK d \in Client : ClientStep(d)
  <2>1. UNCHANGED handle => FALSE
    OBVIOUS
  <2>2. Tick \/ ListDisposable \/ DiscardDisposable => UNCHANGED handle
    BY DEF Tick, ListDisposable, DiscardDisposable
  <2>3. \A t \in Task : Submit(t) \/ FindAbandoned(t) \/ RestoreTask(t) => UNCHANGED handle
    BY DEF Submit, FindAbandoned, RestoreTask
  <2>4. \A w \in Worker : Assign(w) => UNCHANGED handle
    BY DEF Assign
  <2>5. \A w \in Worker, s \in Slot : HandleTask(w, s) => UNCHANGED handle
    BY DEF HandleTask
  <2>6. \A w \in Worker, s \in Slot, u \in Task :
           HandlerPolls(w, s) \/ HandlerTimesOut(w, s) \/ HandlerGets(w, s, u) => UNCHANGED handle
    BY DEF HandlerPolls, HandlerTimesOut, HandlerGoesOn, HandlerGets
  <2>7. UNCHANGED vars => UNCHANGED handle
    BY DEF vars
  <2>8. \A w \in Worker, s \in Slot :
           HandlerPolls(w, s) \/ HandlerTimesOut(w, s) => UNCHANGED handle
    BY DEF HandlerPolls, HandlerTimesOut, HandlerGoesOn
  <2> QED BY <2>1, <2>2, <2>3, <2>4, <2>5, <2>6, <2>7, <2>8 DEF Next, ClientStep
<1>2. PICK cached \in BOOLEAN, polling \in BOOLEAN, told \in {"nothing", "value", "Failed"} :
         ResultTold(d, cached, polling, told)
  BY <1>1, ClientTold DEF IInv
<1>3. handle'[d] = [cached |-> cached, polling |-> polling, told |-> told]
      /\ \A b \in Client \ {d} : handle'[b] = handle[b]
  BY <1>2 DEF ResultTold, TypeOK
<1>4. c = d /\ told # handle[c].told
  BY <1>3
<1>5. told \in {"value", "Failed"} /\ GetResult(HandleOf[c]) = told
  BY <1>2, <1>4 DEF ResultTold
<1>6. HandleOf[c] \in Task /\ handle[c].told \in {"value", "Failed"}
  BY HandleAssumption DEF TypeOK, Handle
<1>7. Known(HandleOf[c]) /\ entry[HandleOf[c]].outcome = Told[told]
  BY <1>5, <1>6, ResultKinds DEF Told
<1>8. Told[told] # Told[handle[c].told]
  BY <1>4, <1>5, <1>6 DEF Told
<1> QED BY <1>7, <1>8 DEF IInv, ToldShape

\* assign_tasks passes over no due task that comes before one it claims, for any retries,
\* restores and discards meanwhile.
THEOREM MemoryClaimsInOrder == Spec => ClaimsInOrder
<1>1. TypeOK /\ IInv /\ [Next]_vars =>
        [\A t, u \in Task :
            /\ Queued(t) /\ Staged(t)'
            /\ u \in DueTasks(GroupOf[t]) /\ Precedes(u, t)
            => Staged(u)']_vars
  BY ClaimsOrdered
<1> QED BY <1>1, Invariance, PTL DEF Spec, ClaimsInOrder

\* A restore that comes late does not queue a done task again (Entry::is_queued).
THEOREM MemoryDoneTasksStayDone == Spec => DoneTasksStayDone
<1>1. TypeOK /\ IInv /\ [Next]_vars =>
        [\A t \in Task : Done(t) /\ Queued(t)' =>
            \E w \in Worker, s \in Slot : Holds(w, s, t)]_vars
  BY DoneStays
<1> QED BY <1>1, Invariance, PTL DEF Spec, DoneTasksStayDone

\* What get has told a client of a task stands, unless the task was found abandoned (result.rs,
\* get_result).
THEOREM MemoryAnswersStand == Spec => AnswersStand
<1>1. TypeOK /\ IInv /\ [Next]_vars =>
        [\A c \in Client :
            handle[c].told # "nothing" /\ handle'[c].told # handle[c].told
               => HandleOf[c] \in disturbed]_vars
  BY AnswerStays
<1> QED BY <1>1, Invariance, PTL DEF Spec, AnswersStand

-----------------------------------------------------------------------------
(* The contract.                                                           *)

\* What a client sees of the process: the values of the contract's variables.
statusBar == [t \in Task |-> Status(t)]
Runs(t)   == {e \in Worker \X Slot : Holds(e[1], e[2], t)}
runsBar   == [t \in Task |-> Runs(t)]
soundBar  == Task \ disturbed

\* The status of a task by its entry ...
LEMMA StatusCases ==
  ASSUME NEW t \in Task
  PROVE  /\ ~Known(t) => Status(t) = "absent"
         /\ Queued(t) => Status(t) = "queued"
         /\ Done(t) => Status(t) = "settled"
         /\ Known(t) /\ ~Queued(t) /\ ~Done(t) => Status(t) = "started"
<1>1. CASE ~Known(t)
  BY <1>1 DEF Status, Queued, Done
<1>2. CASE Queued(t)
  BY <1>2 DEF Status, Queued, Done
<1>3. CASE Done(t)
  BY <1>3 DEF Status, Queued, Done
<1>4. CASE Known(t) /\ ~Queued(t) /\ ~Done(t)
  BY <1>4 DEF Status, Done
<1> QED BY <1>1, <1>2, <1>3, <1>4 DEF Queued, Done

\* ... and after a step.
LEMMA StatusCasesNext ==
  ASSUME NEW t \in Task
  PROVE  /\ entry'[t] = NoEntry => Status(t)' = "absent"
         /\ entry'[t] # NoEntry /\ entry'[t].outcome # "none" => Status(t)' = "settled"
         /\ entry'[t] # NoEntry /\ entry'[t].outcome = "none" =>
               Status(t)' = IF entry'[t].worker = Nobody THEN "queued" ELSE "started"
         /\ entry'[t] = entry[t] => Status(t)' = Status(t)
<1>1. entry'[t] = entry[t] => Status(t)' = Status(t)
  BY DEF Status, Queued, Done, Staged, Known
<1>2. entry'[t] = NoEntry => Status(t)' = "absent"
  BY DEF Status, Queued, Done, Staged, Known
<1>3. entry'[t] # NoEntry /\ entry'[t].outcome # "none" => Status(t)' = "settled"
  BY DEF Status, Queued, Done, Staged, Known
<1>4. entry'[t] # NoEntry /\ entry'[t].outcome = "none" =>
               Status(t)' = IF entry'[t].worker = Nobody THEN "queued" ELSE "started"
  BY DEF Status, Queued, Done, Staged, Known
<1> QED BY <1>1, <1>2, <1>3, <1>4

\* Steps that show nothing to a client.
LEMMA ContractStutter ==
  ASSUME \A t \in Task : Status(t)' = Status(t) /\ Runs(t)' = Runs(t),
         disturbed' = disturbed
  PROVE  UNCHANGED Contract!vars
BY DEF Contract!vars, Runs

\* When no permit changes, no execution starts or ends.
LEMMA RunsKept ==
  ASSUME slot' = slot
  PROVE  /\ \A t \in Task : Runs(t)' = Runs(t)
         /\ runsBar' = runsBar
BY DEF runsBar, Runs, Holds

\* Initially nothing was submitted and nothing runs.
LEMMA ContractInit == Init => Contract!Init
<1> SUFFICES ASSUME Init PROVE Contract!Init
  OBVIOUS
<1>1. \A t \in Task : Status(t) = "absent"
  BY StatusCases DEF Init, StoreInit, Known
<1>2. \A t \in Task : Runs(t) = {}
  BY DEF Init, Runs, Holds
<1>3. disturbed = {}
  BY DEF Init
<1> QED BY <1>1, <1>2, <1>3 DEF Contract!Init, Runs

\* put_tasks is Submit of the contract, or shows nothing.
LEMMA ContractSubmit ==
  ASSUME TypeOK, IInv, NEW t \in Task, Submit(t)
  PROVE  Contract!Next \/ UNCHANGED Contract!vars
<1>1. PICK due \in Time : PutTask(t, due)
  BY DEF Submit
<1>2. slot' = slot /\ disturbed' = disturbed
  BY DEF Submit, sweepVars
<1>3. CASE Known(t)
  <2>1. entry' = entry
    BY <1>1, <1>3 DEF PutTask
  <2> QED BY <1>2, <2>1, RunsKept, StatusCasesNext, ContractStutter
<1>4. CASE ~Known(t)
  <2>1. entry' = [entry EXCEPT ![t] = NewEntry(due, 0)] /\ NewEntry(due, 0) # NoEntry
    BY <1>1, <1>4, NewEntryTyped, BoundAssumption DEF PutTask, Attempt
  <2>2. entry'[t] = NewEntry(due, 0) /\ \A u \in Task \ {t} : entry'[u] = entry[u]
    BY <2>1 DEF TypeOK, StoreTypeOK
  <2>3. NewEntry(due, 0).outcome = "none" /\ NewEntry(due, 0).worker = Nobody
    BY DEF NewEntry
  <2>4. Status(t) = "absent" /\ Status(t)' = "queued"
    BY <1>4, <2>1, <2>2, <2>3, StatusCases, StatusCasesNext
  <2>5. statusBar' = [statusBar EXCEPT ![t] = "queued"]
    BY <2>2, <2>4, StatusCasesNext DEF statusBar
  <2>6. Contract!Submit(t)
    BY <1>2, <2>4, <2>5, RunsKept
    DEF Contract!Submit, Contract!Become, statusBar, runsBar, soundBar, Runs
  <2> QED BY <2>6 DEF Contract!Next
<1> QED BY <1>3, <1>4

\* A round of the fetch loop is Start for all tasks it claims.
LEMMA ContractAssign ==
  ASSUME TypeOK, IInv, NEW w \in Worker, Assign(w)
  PROVE  Contract!Next
<1>1. PICK T, S, task : Claims(w, T, S, task)
  BY MapFinite, AssignClaims DEF IInv
<1>2. /\ T \in SUBSET Task /\ S \in SUBSET Slot
      /\ \A t \in T : Queued(t)
      /\ \A s \in S : slot[w][s] = Free /\ task[s] \in T
      /\ \A s, r \in S : task[s] = task[r] => s = r
      /\ \A t \in T : \E s \in S : task[s] = t
  BY <1>1, ClaimsPlace
<1>3. /\ \A s \in Slot : slot'[w][s] =
               IF s \in S THEN [task |-> task[s], retry |-> entry[task[s]].retry, on |-> NoTask]
               ELSE slot[w][s]
      /\ \A v \in Worker \ {w} : slot'[v] = slot[v]
  BY <1>1, ClaimsPlace
<1>4. \A t \in Task : entry'[t] = IF t \in T THEN [entry[t] EXCEPT !.worker = w] ELSE entry[t]
  BY <1>1 DEF Claims, AssignTasks
<1>5. disturbed' = disturbed
  BY <1>1 DEF Claims, sweepVars
<1>6. slot' \in [Worker -> [Slot -> Held \cup {Free}]]
  BY AssignTypes DEF IInv, TypeOK
<1>7. ASSUME NEW t \in T
      PROVE  Status(t) = "queued" /\ Status(t)' = "started"
  <2>1. entry[t] \in Entry /\ entry[t].outcome = "none"
    BY <1>2 DEF Queued, Done, Known, TypeOK, StoreTypeOK
  <2>2. entry'[t] = [entry[t] EXCEPT !.worker = w]
    BY <1>2, <1>4
  <2>3. entry'[t] \in Entry /\ entry'[t].worker = w /\ entry'[t].outcome = "none"
    BY <2>1, <2>2 DEF Entry
  <2> QED BY <1>2, <2>3, StatusCases, StatusCasesNext, EntryAssumption, NullAssumption
<1>8. Contract!Begin(T)
  <2>1. statusBar' = [t \in Task |-> IF t \in {} THEN "settled"
                                    ELSE IF t \in T THEN "started" ELSE statusBar[t]]
    BY <1>4, <1>7, StatusCasesNext DEF statusBar
  <2>2. {} \in SUBSET (T \ soundBar)
    OBVIOUS
  <2> QED BY <1>2, <1>7, <2>1, <2>2 DEF Contract!Begin, statusBar, soundBar
<1> DEFINE place(t) == CHOOSE s \in S : task[s] = t
           exec == [t \in T |-> <<w, place(t)>>]
<1>9. \A t \in T : place(t) \in S /\ task[place(t)] = t
  BY <1>2
<1> HIDE DEF place
<1>10. ASSUME NEW u \in Task, NEW v \in Worker, NEW r \in Slot
       PROVE  Holds(v, r, u)' <=> Holds(v, r, u) \/ (v = w /\ u \in T /\ r = place(u))
  <2>1. CASE v = w /\ r \in S
    <3>1. slot'[v][r] = [task |-> task[r], retry |-> entry[task[r]].retry, on |-> NoTask]
      BY <1>3, <2>1
    <3>2. slot'[v][r].task = task[r] /\ slot'[v][r] # Free
      <4>1. slot'[v][r].task = task[r]
        BY <3>1
      <4>2. [task |-> task[r], retry |-> entry[task[r]].retry, on |-> NoTask] \in Held
        <5>1. task[r] \in T
          BY <1>2, <2>1
        <5>2. task[r] \in Task /\ entry[task[r]] \in Entry
          BY <1>2, <5>1 DEF Queued, Known, TypeOK, StoreTypeOK
        <5>3. entry[task[r]].retry \in Attempt
          BY <5>2 DEF Entry
        <5> QED BY <5>2, <5>3 DEF Held
      <4> QED BY <3>1, <4>1, <4>2, FreeAssumption
    <3>3. ~Holds(v, r, u)
      BY <1>2, <2>1 DEF Holds
    <3>4. Holds(v, r, u)' <=> task[r] = u
      BY <3>2 DEF Holds
    <3>5. task[r] = u <=> u \in T /\ r = place(u)
      BY <1>2, <1>9, <2>1
    <3> QED BY <2>1, <3>3, <3>4, <3>5
  <2>2. CASE ~(v = w /\ r \in S)
    <3>1. slot'[v][r] = slot[v][r]
      BY <1>3, <2>2
    <3>2. ~(v = w /\ u \in T /\ r = place(u))
      BY <1>9, <2>2
    <3>3. Holds(v, r, u)' <=> Holds(v, r, u)
      BY <3>1 DEF Holds
    <3> QED BY <3>2, <3>3
  <2> QED BY <2>1, <2>2
<1>11. ASSUME NEW u \in Task
       PROVE  Runs(u)' = IF u \in T THEN Runs(u) \cup {<<w, place(u)>>} ELSE Runs(u)
  <2>1. ASSUME NEW e \in Worker \X Slot
        PROVE  e \in Runs(u)' <=> e \in Runs(u) \/ (u \in T /\ e = <<w, place(u)>>)
    <3>1. e[1] \in Worker /\ e[2] \in Slot /\ e = <<e[1], e[2]>>
      OBVIOUS
    <3> QED BY <1>10, <3>1 DEF Runs
  <2>2. u \in T => <<w, place(u)>> \in Worker \X Slot
    BY <1>2, <1>9
  <2> QED BY <2>1, <2>2 DEF Runs
<1>12. runsBar' = [u \in Task |-> IF u \in T THEN runsBar[u] \cup {exec[u]} ELSE runsBar[u]]
  BY <1>11 DEF runsBar
<1>13. \A t \in T \cap soundBar : runsBar[t] = {}
  <2> SUFFICES ASSUME NEW t \in T, t \notin disturbed PROVE Runs(t) = {}
    BY <1>2 DEF soundBar, runsBar
  <2>1. \A v \in Worker, r \in Slot : ~Holds(v, r, t)
    BY <1>2 DEF Queued, IInv, RunsAlone
  <2> QED BY <2>1 DEF Runs
<1>14. \A t, u \in T : exec[t] = exec[u] => t = u
  BY <1>9
<1>15. exec \in [T -> Worker \X Slot]
  BY <1>2, <1>9
<1> HIDE DEF exec
<1>16. Contract!Start(T, exec)
  BY <1>5, <1>8, <1>12, <1>13, <1>14 DEF Contract!Start, runsBar, soundBar, Runs
<1> QED BY <1>2, <1>15, <1>16 DEF Contract!Next

\* The end of an execution is Settle.
LEMMA ContractHandleTask ==
  ASSUME TypeOK, IInv, NEW w \in Worker, NEW s \in Slot, HandleTask(w, s)
  PROVE  Contract!Next
<1>1. PICK t \in Task : t = slot[w][s].task
  BY DEF HandleTask, Running, TypeOK, Held
<1>2. Holds(w, s, t) /\ disturbed' = disturbed /\ slot' = [slot EXCEPT ![w][s] = Free]
  BY <1>1 DEF HandleTask, Running, Holds, sweepVars
<1>3. PICK e \in Entry \cup {NoEntry} :
         /\ entry' = [entry EXCEPT ![t] = e]
         /\ e # NoEntry => EntryFits(e) /\ e.worker = Nobody
  BY <1>1, HandleTaskWrites
<1>4. entry'[t] = e /\ \A u \in Task \ {t} : entry'[u] = entry[u]
  BY <1>3 DEF TypeOK, StoreTypeOK
<1>5. \A v \in Worker, r \in Slot, u \in Task :
         Holds(v, r, u)' <=> Holds(v, r, u) /\ ~(v = w /\ r = s)
  <2>1. \A v \in Worker, r \in Slot :
           slot'[v][r] = IF v = w /\ r = s THEN Free ELSE slot[v][r]
    BY <1>2 DEF TypeOK
  <2> QED BY <2>1 DEF Holds
<1>6. \A u \in Task : Runs(u)' = Runs(u) \ {<<w, s>>}
  <2> SUFFICES ASSUME NEW u \in Task, NEW x \in Worker \X Slot
               PROVE  x \in Runs(u)' <=> x \in Runs(u) /\ x # <<w, s>>
    BY DEF Runs
  <2>1. x[1] \in Worker /\ x[2] \in Slot /\ x = <<x[1], x[2]>>
    OBVIOUS
  <2> QED BY <1>5, <2>1 DEF Runs
<1>7. \A u \in Task \ {t} : <<w, s>> \notin Runs(u)
  BY <1>2 DEF Runs, Holds
<1>8. runsBar' = [runsBar EXCEPT ![t] = @ \ {<<w, s>>}]
  <2>1. \A u \in Task \ {t} : Runs(u)' = Runs(u)
    BY <1>6, <1>7
  <2>2. Runs(t)' = Runs(t) \ {<<w, s>>}
    BY <1>6
  <2> QED BY <2>1, <2>2 DEF runsBar
<1>9. Status(t)' \in {"settled", "queued", "absent"}
  BY <1>3, <1>4, StatusCasesNext
<1>10. statusBar' = [statusBar EXCEPT ![t] = Status(t)']
  BY <1>4, StatusCasesNext DEF statusBar
<1>11. t \notin disturbed => Status(t) = "started"
  <2> SUFFICES ASSUME t \notin disturbed PROVE Status(t) = "started"
    OBVIOUS
  <2>1. Staged(t) /\ entry[t].outcome = "none"
    BY <1>2, HeldIsLive
  <2> QED BY <2>1, StatusCases DEF Queued, Staged, Done
<1>12. <<w, s>> \in Runs(t) /\ <<w, s>> \in Worker \X Slot
  BY <1>2 DEF Runs
<1>13. Contract!Settle(t, <<w, s>>)
  BY <1>2, <1>8, <1>9, <1>10, <1>11, <1>12
  DEF Contract!Settle, Contract!Become, statusBar, runsBar, soundBar, Runs
<1> QED BY <1>12, <1>13 DEF Contract!Next

\* A restore is Requeue; it shows nothing of a task that is done or gone.
LEMMA ContractRestore ==
  ASSUME TypeOK, IInv, NEW t \in Task, RestoreTask(t)
  PROVE  Contract!Next \/ UNCHANGED Contract!vars
<1>1. slot' = slot /\ disturbed' = disturbed /\ t \in disturbed
  BY DEF RestoreTask, IInv
<1>2. \A u \in Task \ {t} : entry'[u] = entry[u]
  BY DEF RestoreTask, Restore, TypeOK, StoreTypeOK
<1>3. CASE ~Known(t)
  <2>1. entry' = entry
    BY <1>3 DEF RestoreTask, Restore
  <2> QED BY <1>1, <2>1, RunsKept, StatusCasesNext, ContractStutter
<1>4. CASE Known(t)
  <2>1. entry'[t] = [entry[t] EXCEPT !.worker = Nobody] /\ entry[t] \in Entry
    BY <1>4 DEF RestoreTask, Restore, TypeOK, StoreTypeOK, Known
  <2>2. entry'[t] \in Entry /\ entry'[t].worker = Nobody /\ entry'[t].outcome = entry[t].outcome
    BY <2>1 DEF Entry
  <2>3. entry'[t] # NoEntry
    BY <2>2, EntryAssumption
  <2>4. CASE Done(t)
    <3>1. Status(t)' = Status(t)
      BY <2>2, <2>3, <2>4, StatusCases, StatusCasesNext DEF Done
    <3> QED BY <1>1, <1>2, <3>1, RunsKept, StatusCasesNext, ContractStutter
  <2>5. CASE ~Done(t)
    <3>1. Status(t) # "absent" /\ Status(t)' = "queued"
      <4>1. Status(t) # "absent"
        BY <1>4, <2>5, StatusCases
      <4>2. Status(t)' = "queued"
        BY <1>4, <2>2, <2>3, <2>5, StatusCasesNext DEF Done
      <4> QED BY <4>1, <4>2
    <3>2. statusBar' = [statusBar EXCEPT ![t] = "queued"]
      BY <1>2, <3>1, StatusCasesNext DEF statusBar
    <3>3. Contract!Requeue(t)
      BY <1>1, <3>1, <3>2, RunsKept
      DEF Contract!Requeue, Contract!Become, statusBar, runsBar, soundBar, Runs
    <3> QED BY <3>3 DEF Contract!Next
  <2> QED BY <2>4, <2>5
<1> QED BY <1>3, <1>4

\* A sweep's judgement is Doubt.
LEMMA ContractFindAbandoned ==
  ASSUME NEW t \in Task, FindAbandoned(t)
  PROVE  Contract!Next
<1>1. entry' = entry /\ slot' = slot /\ disturbed' = disturbed \cup {t}
  BY DEF FindAbandoned, storeVars
<1>2. statusBar' = statusBar /\ runsBar' = runsBar
  BY <1>1, StatusCasesNext, RunsKept DEF statusBar
<1>3. soundBar' = soundBar \ {t}
  BY <1>1 DEF soundBar
<1>4. Contract!Doubt({t})
  BY <1>2, <1>3 DEF Contract!Doubt, statusBar, runsBar, soundBar, Runs
<1>5. {t} \in SUBSET Task
  OBVIOUS
<1> QED BY <1>4, <1>5 DEF Contract!Next

\* The discard of old results is Delete.
LEMMA ContractDiscard ==
  ASSUME TypeOK, IInv, DiscardDisposable
  PROVE  Contract!Next
<1>1. slot' = slot /\ disturbed' = disturbed
  BY DEF DiscardDisposable
<1>2. \A t \in Task : entry'[t] = IF t \in trash THEN NoEntry ELSE entry[t]
  BY DEF DiscardDisposable, DiscardTasks
<1>3. statusBar' = [t \in Task |-> IF t \in trash THEN "absent" ELSE statusBar[t]]
  BY <1>2, StatusCasesNext DEF statusBar
<1>4. \A t \in trash \cap soundBar : statusBar[t] \in {"absent", "settled"}
  BY StatusCases DEF IInv, TrashShape, soundBar, statusBar
<1>5. soundBar' = soundBar
  BY <1>1 DEF soundBar
<1>6. Contract!Delete(trash)
  BY <1>1, <1>3, <1>4, <1>5, RunsKept
  DEF Contract!Delete, statusBar, runsBar, soundBar, Runs
<1> QED BY <1>6 DEF Contract!Next, TypeOK

\* Every step of the process is a step of the contract or shows nothing.
LEMMA ContractStep ==
  TypeOK /\ IInv /\ [Next]_vars => [Contract!Next]_(Contract!vars)
<1> DEFINE Goal == Contract!Next \/ UNCHANGED Contract!vars
<1> SUFFICES ASSUME TypeOK, IInv, [Next]_vars PROVE Goal
  OBVIOUS
<1>1. ASSUME UNCHANGED <<entry, slot, disturbed>> PROVE Goal
  BY <1>1, RunsKept, StatusCasesNext, ContractStutter
<1>2. ASSUME NEW w \in Worker, NEW s \in Slot, slot[w][s] # Free, NEW u \in Task \cup {NoTask},
             slot' = [slot EXCEPT ![w][s].on = u], UNCHANGED <<entry, disturbed>>
      PROVE  Goal
  <2>1. \A v \in Worker, r \in Slot, t \in Task : Holds(v, r, t)' <=> Holds(v, r, t)
    <3>1. slot[w][s] \in Held
      BY <1>2 DEF TypeOK
    <3>2. [slot[w][s] EXCEPT !.on = u] \in Held /\ [slot[w][s] EXCEPT !.on = u].task = slot[w][s].task
      BY <3>1 DEF Held
    <3>3. \A v \in Worker, r \in Slot :
             slot'[v][r] = IF v = w /\ r = s THEN [slot[w][s] EXCEPT !.on = u] ELSE slot[v][r]
      BY <1>2 DEF TypeOK
    <3> QED BY <1>2, <3>2, <3>3, FreeAssumption DEF Holds
  <2>2. \A t \in Task : Runs(t)' = Runs(t)
    BY <2>1 DEF Runs
  <2> QED BY <1>2, <2>2, StatusCasesNext, ContractStutter
<1>3. CASE Tick \/ ListDisposable
  BY <1>1, <1>3 DEF Tick, ListDisposable, storeVars, sweepVars
<1>4. ASSUME NEW w \in Worker, NEW s \in Slot,
             HandlerPolls(w, s) \/ HandlerTimesOut(w, s) \/ \E u \in Task : HandlerGets(w, s, u)
      PROVE  Goal
  BY <1>2, <1>4 DEF HandlerPolls, HandlerTimesOut, HandlerGoesOn, HandlerGets, Running, Waiting,
                    storeVars, sweepVars
<1>5. ASSUME NEW c \in Client, ClientStep(c) PROVE Goal
  <2>1. UNCHANGED <<entry, slot, disturbed>>
    BY <1>5, ClientTold DEF IInv, Elsewhere, storeVars, sweepVars
  <2> QED BY <1>1, <2>1
<1>6. CASE UNCHANGED vars
  BY <1>1, <1>6 DEF vars, storeVars, sweepVars
<1> QED BY <1>3, <1>4, <1>5, <1>6, ContractSubmit, ContractAssign, ContractHandleTask, ContractRestore,
           ContractFindAbandoned, ContractDiscard DEF Next, ClientStep

\* The process implements the contract that the fleets on SQL and Redis implement (backend.rs,
\* trait TaskBackend; impls/memory.rs).
THEOREM MemoryKeepsContract == Spec => KeepsContract
<1>1. Init => Contract!Init
  BY ContractInit
<1>2. TypeOK /\ IInv /\ [Next]_vars => [Contract!Next]_(Contract!vars)
  BY ContractStep
<1> QED BY <1>1, <1>2, Invariance, PTL DEF Spec, KeepsContract, Contract!Spec

\* So what the contract promises of a sound task holds here as well: it has one
\* execution at most, goes through its life in order, is moved on by its
\* execution alone, and begins to run only from the queue (memory.rs, worker.rs, service.rs).
THEOREM MemoryTaskLife ==
  Spec => /\ []Contract!RunsAlone
          /\ Contract!LivesInOrder
          /\ Contract!OnlyItsExecution
          /\ Contract!BeginsFromQueue
<1>1. Spec => Contract!Spec
  BY MemoryKeepsContract DEF KeepsContract
<1> QED BY <1>1, Contract!ContractRunsAlone, Contract!ContractLivesInOrder,
           Contract!ContractOnlyItsExecution, Contract!ContractBeginsFromQueue

-----------------------------------------------------------------------------
(* Waiting for results.                                                    *)

\* A permit is held for a task of its group, and its handler waits only for what it is
\* not kept from.
WaitsShape ==
    \A w \in Worker, s \in Slot : slot[w][s] # Free =>
       /\ GroupOf[slot[w][s].task] = w
       /\ slot[w][s].on # NoTask => <<slot[w][s].task, slot[w][s].on>> \in Safe

\* Each step keeps that so: a wait begins in HandlerGets alone.
LEMMA WaitsShapeStep ==
  ASSUME TypeOK, IInv, WaitsShape, [Next]_vars
  PROVE  WaitsShape'
<1> USE DEF WaitsShape
<1>0. slot \in [Worker -> [Slot -> Held \cup {Free}]]
  BY DEF TypeOK
<1>1. CASE slot' = slot
  BY <1>1
<1>2. ASSUME NEW w \in Worker, Assign(w) PROVE WaitsShape'
  <2>1. PICK T, S, task : Claims(w, T, S, task)
    BY <1>2, MapFinite, AssignClaims DEF IInv
  <2>2. SUFFICES ASSUME NEW v \in Worker, NEW r \in Slot, slot'[v][r] # Free
                 PROVE  /\ GroupOf[slot'[v][r].task] = v
                        /\ slot'[v][r].on # NoTask
                              => <<slot'[v][r].task, slot'[v][r].on>> \in Safe
    OBVIOUS
  <2>3. CASE v # w \/ r \notin S
    <3>1. CASE v # w
      <4>1. slot'[v] = slot[v]
        BY <1>0, <2>1, <3>1, ClaimsPlace
      <4> QED BY <2>2, <4>1
    <3>2. CASE v = w /\ r \notin S
      <4>1. \A x \in Slot : slot'[w][x] =
               IF x \in S THEN [task |-> task[x], retry |-> entry[task[x]].retry, on |-> NoTask]
               ELSE slot[w][x]
        BY <2>1, ClaimsPlace
      <4>2. slot'[v][r] = slot[v][r]
        BY <3>2, <4>1
      <4> QED BY <2>2, <4>2
    <3> QED BY <2>3, <3>1, <3>2
  <2>4. CASE v = w /\ r \in S
    <3>1. slot'[v][r] = [task |-> task[r], retry |-> entry[task[r]].retry, on |-> NoTask]
      BY <2>1, <2>4, ClaimsPlace
    <3>2. GroupOf[task[r]] = w
      BY <2>1, <2>4, ClaimsPlace
    <3> QED BY <2>4, <3>1, <3>2
  <2> QED BY <2>3, <2>4
<1>3. ASSUME NEW w \in Worker, NEW s \in Slot,
             HandleTask(w, s) \/ HandlerPolls(w, s) \/ HandlerTimesOut(w, s)
                \/ \E u \in Task : HandlerGets(w, s, u)
      PROVE  WaitsShape'
  <2>1. CASE HandleTask(w, s)
    BY <1>0, <2>1 DEF HandleTask
  <2>2. CASE HandlerPolls(w, s) \/ HandlerTimesOut(w, s)
    <3>1. slot[w][s] # Free /\ slot' = [slot EXCEPT ![w][s].on = NoTask]
      BY <2>2 DEF HandlerPolls, HandlerTimesOut, HandlerGoesOn, Waiting
    <3>2. slot[w][s] \in Held
      BY <1>0, <3>1
    <3>3. slot'[w][s].task = slot[w][s].task /\ slot'[w][s].on = NoTask
      BY <1>0, <3>1, <3>2 DEF Held
    <3>4. \A v \in Worker, r \in Slot : v # w \/ r # s => slot'[v][r] = slot[v][r]
      BY <1>0, <3>1
    <3>5. SUFFICES ASSUME NEW v \in Worker, NEW r \in Slot, slot'[v][r] # Free
                   PROVE  /\ GroupOf[slot'[v][r].task] = v
                          /\ slot'[v][r].on # NoTask
                                => <<slot'[v][r].task, slot'[v][r].on>> \in Safe
      OBVIOUS
    <3>6. CASE v = w /\ r = s
      <4>1. GroupOf[slot[w][s].task] = w
        BY <3>1
      <4> QED BY <3>3, <3>6, <4>1
    <3>7. CASE v # w \/ r # s
      <4>1. slot'[v][r] = slot[v][r]
        BY <3>4, <3>7
      <4>2. slot[v][r] # Free
        BY <3>5, <4>1
      <4>3. /\ GroupOf[slot[v][r].task] = v
            /\ slot[v][r].on # NoTask => <<slot[v][r].task, slot[v][r].on>> \in Safe
        BY <4>2
      <4> QED BY <4>1, <4>3
    <3> QED BY <3>6, <3>7
  <2>3. ASSUME NEW u \in Task, HandlerGets(w, s, u) PROVE WaitsShape'
    <3>1. slot[w][s] # Free /\ slot' = [slot EXCEPT ![w][s].on = u]
      BY <2>3 DEF HandlerGets, Running
    <3>2. slot[w][s] \in Held
      BY <1>0, <3>1
    <3>3. slot'[w][s].task = slot[w][s].task /\ slot'[w][s].on = u
      BY <1>0, <3>1, <3>2 DEF Held
    <3>4. \A v \in Worker, r \in Slot : v # w \/ r # s => slot'[v][r] = slot[v][r]
      BY <1>0, <3>1
    <3>5. <<slot[w][s].task, u>> \in Safe
      BY <2>3 DEF HandlerGets, Prevented
    <3>6. SUFFICES ASSUME NEW v \in Worker, NEW r \in Slot, slot'[v][r] # Free
                   PROVE  /\ GroupOf[slot'[v][r].task] = v
                          /\ slot'[v][r].on # NoTask
                                => <<slot'[v][r].task, slot'[v][r].on>> \in Safe
      OBVIOUS
    <3>7. CASE v = w /\ r = s
      <4>1. GroupOf[slot[w][s].task] = w
        BY <3>1
      <4> QED BY <3>3, <3>5, <3>7, <4>1
    <3>8. CASE v # w \/ r # s
      <4>1. slot'[v][r] = slot[v][r]
        BY <3>4, <3>8
      <4>2. slot[v][r] # Free
        BY <3>6, <4>1
      <4>3. /\ GroupOf[slot[v][r].task] = v
            /\ slot[v][r].on # NoTask => <<slot[v][r].task, slot[v][r].on>> \in Safe
        BY <4>2
      <4> QED BY <4>1, <4>3
    <3> QED BY <3>7, <3>8
  <2> QED BY <1>3, <2>1, <2>2, <2>3
<1> QED BY <1>1, <1>2, <1>3
        DEF Next, Tick, ListDisposable, DiscardDisposable, Submit, FindAbandoned, RestoreTask,
            Get, Poll, GetTimesOut, CloneHandle, Say, Elsewhere, vars

\* Handlers that wait in one group for different permits run different tasks, each of
\* which may wait; there are fewer of those than permits.
LEMMA SomePermitIsNotWaiting ==
  ASSUME TypeOK, WaitsShape, ~Overlap, NEW q \in Safe
  PROVE  \E r \in Slot : ~Waiting(GroupOf[q[2]], r)
<1> DEFINE w == GroupOf[q[2]]
           S == {p[1] : p \in Safe} \cap {t \in Task : GroupOf[t] = w}
           f == [r \in Slot |-> slot[w][r].task]
<1>1. SUFFICES ASSUME \A r \in Slot : Waiting(w, r) PROVE FALSE
  OBVIOUS
<1>2. IsFiniteSet(S) /\ Cardinality(S) < Permits
  BY SafeAssumption
<1>3. w \in Worker
  BY SafeAssumption, GroupAssumption
<1>4. \A r \in Slot : /\ slot[w][r] # Free /\ slot[w][r].on # NoTask
                      /\ slot[w][r].task \in Task
  BY <1>1, <1>3 DEF Waiting, TypeOK, Held
<1>5. \A r \in Slot : GroupOf[slot[w][r].task] = w /\ <<slot[w][r].task, slot[w][r].on>> \in Safe
  BY <1>3, <1>4 DEF WaitsShape
<1>6. ASSUME NEW r \in Slot PROVE slot[w][r].task \in {p[1] : p \in Safe}
  <2>1. <<slot[w][r].task, slot[w][r].on>> \in Safe
    BY <1>5
  <2>2. <<slot[w][r].task, slot[w][r].on>>[1] = slot[w][r].task
    OBVIOUS
  <2> QED BY <2>1, <2>2
<1>7. \A r \in Slot : slot[w][r].task \in S
  BY <1>4, <1>5, <1>6
<1>8. \A r, v \in Slot : slot[w][r].task = slot[w][v].task => r = v
  <2> SUFFICES ASSUME NEW r \in Slot, NEW v \in Slot, slot[w][r].task = slot[w][v].task, r # v
               PROVE  FALSE
    OBVIOUS
  <2>1. <<w, r>> \in Worker \X Slot /\ <<w, v>> \in Worker \X Slot /\ <<w, r>> # <<w, v>>
    BY <1>3
  <2>2. Holds(w, r, slot[w][r].task) /\ Holds(w, v, slot[w][r].task)
    BY <1>4 DEF Holds
  <2> QED BY <1>4, <2>1, <2>2 DEF Overlap
<1> HIDE DEF S, w
<1>9. f \in Injection(Slot, S)
  BY <1>7, <1>8 DEF Injection, IsInjective
<1>10. Cardinality(Slot) = Permits
  BY PermitAssumption, FS_Interval DEF Slot
<1>11. Cardinality(Slot) <= Cardinality(S)
  BY <1>2, <1>9, FS_Injection
<1>12. Cardinality(S) \in Nat
  BY <1>2, FS_CardinalityType
<1> QED BY <1>2, <1>10, <1>11, <1>12, PermitAssumption

\* No handler waits for a task that waits itself, or for one that finds all permits of
\* its group held by handlers that wait, for any tasks, groups and permits: what avoids
\* the deadlock of waiting handlers is that those that may wait leave a permit to
\* those they wait for (result.rs, prevent_to_wait_result).
THEOREM MemoryWaitsCanEnd == Spec => []WaitsCanEnd
<1>1. Init => WaitsShape
  BY DEF Init, WaitsShape
<1>2. TypeOK /\ IInv /\ WaitsShape /\ [Next]_vars => WaitsShape'
  BY WaitsShapeStep
<1>3. TypeOK /\ WaitsShape => WaitsCanEnd
  <2> SUFFICES ASSUME TypeOK, WaitsShape, NEW w \in Worker, NEW s \in Slot, Waiting(w, s)
               PROVE  /\ \A v \in Worker, r \in Slot : Holds(v, r, slot[w][s].on) => ~Waiting(v, r)
                      /\ (\E r \in Slot : ~Waiting(GroupOf[slot[w][s].on], r)) \/ Overlap
    BY DEF WaitsCanEnd
  <2>1. <<slot[w][s].task, slot[w][s].on>> \in Safe
    BY DEF Waiting, WaitsShape
  <2>2. ASSUME NEW v \in Worker, NEW r \in Slot, Holds(v, r, slot[w][s].on), Waiting(v, r)
        PROVE  FALSE
    <3>1. <<slot[v][r].task, slot[v][r].on>> \in Safe /\ slot[v][r].task = slot[w][s].on
      BY <2>2 DEF Waiting, WaitsShape, Holds
    <3>2. \A p, q \in Safe : p[1] # q[2]
      BY SafeAssumption
    <3> QED BY <2>1, <3>1, <3>2
  <2>3. ~Overlap => \E r \in Slot : ~Waiting(GroupOf[slot[w][s].on], r)
    <3>1. <<slot[w][s].task, slot[w][s].on>>[2] = slot[w][s].on
      OBVIOUS
    <3> QED BY <2>1, <3>1, SomePermitIsNotWaiting
  <2> QED BY <2>2, <2>3
<1> QED BY <1>1, <1>2, <1>3, Invariance, PTL DEF Spec

=============================================================================
