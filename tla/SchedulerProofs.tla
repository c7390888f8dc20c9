----------------------------- MODULE SchedulerProofs -----------------------------
(***************************************************************************)
(* Theorems about Scheduler, for any processes, entries, calendars, clocks *)
(* and intervals.                                                          *)
(*                                                                         *)
(* The argument: while no lock was lost the process inside a call is alone *)
(* (OneInside), so what it read is still stored when it stores             *)
(* (ReadsAreFresh), and all points it looks at lie after everything that   *)
(* was made (RunIsAhead): hence no duplicates, and the policy is kept      *)
(* between consecutive runs.  With locks lost, only that each call starts  *)
(* from SOME run that was stored is left (PointsFollowRun), and that       *)
(* suffices for nothing to be skipped.                                     *)
(***************************************************************************)
EXTENDS Scheduler, FirstElements, TLAPS

USE DEF Point, Never

\* The number of the last schedule point is a natural number.
LEMMA RoundIsPoint == ASSUME NEW t \in Time PROVE Round(t) \in Nat
<1>1. t \in Nat /\ Interval \in Nat /\ Interval > 0
  BY IntervalAssumption, TimeAssumption DEF Time
<1>2. t \div Interval \in Nat
  BY <1>1, SMT
<1> QED BY <1>2 DEF Round

\* What the policy of an entry selects from a set of points.
Chosen(e, S) == IF Policy[e] = "OnlyEarliest" THEN Earliest(S) ELSE Latest(S)

\* list_schedule_points returns points after the last run, up to the current one.
LEMMA ListedPoints ==
    ASSUME NEW since \in Point \cup {Never}, NEW t \in Time
    PROVE  /\ ListSchedulePoints(since, t) \in SUBSET Point
           /\ \A q \in ListSchedulePoints(since, t) : since < q /\ q <= Round(t)
           /\ ListSchedulePoints(since, t) # {} => since < Round(t)
<1>1. Round(t) \in Nat
  BY RoundIsPoint
<1> QED BY <1>1 DEF ListSchedulePoints

\* What the policy of an entry leaves is one of the points its fields accept, and no
\* other.
LEMMA OneScheduled ==
    ASSUME NEW e \in Entry, NEW points \in SUBSET Point
    PROVE  /\ Scheduled(e, points) \subseteq Matching(e, points)
           /\ Scheduled(e, points) \subseteq points
           /\ \A q, r \in Scheduled(e, points) : q = r
<1>1. Matching(e, points) \subseteq points
  BY DEF Matching
<1>2. Scheduled(e, points) \subseteq Matching(e, points)
  BY DEF Scheduled, Earliest, Latest
<1>3. ASSUME NEW q \in Scheduled(e, points), NEW r \in Scheduled(e, points) PROVE q = r
  <2>1. q \in Nat /\ r \in Nat
    BY <1>1, <1>2, Scheduled(e, points) \subseteq points
  <2>2. q <= r /\ r <= q
    BY <1>2 DEF Scheduled, Earliest, Latest
  <2> QED BY <2>1, <2>2
<1> QED BY <1>1, <1>2, <1>3

\* Where the fields of an entry accept a point at all, its policy leaves one
\* (schedule_entries takes the first or the last of the sorted points).
LEMMA PolicyLeavesOne ==
    ASSUME NEW e \in Entry, NEW S \in SUBSET Nat, NEW bound \in Nat,
           \A q \in S : q <= bound, S # {}
    PROVE  Chosen(e, S) # {}
<1>1. CASE Policy[e] = "OnlyEarliest"
  <2>1. PICK q \in S : \A r \in S : q <= r
    BY LeastNumber
  <2> QED BY <1>1, <2>1 DEF Chosen, Earliest
<1>2. CASE Policy[e] # "OnlyEarliest"
  <2> DEFINE T == {bound - q : q \in S}
  <2>1. T \subseteq Nat /\ T # {}
    <3>1. \A q \in S : q \in Nat /\ bound - q \in Nat
      OBVIOUS
    <3> QED BY <3>1
  <2>2. PICK t \in T : \A u \in T : t <= u
    <3> HIDE DEF T
    <3> QED BY <2>1, LeastNumber
  <2>3. PICK q \in S : t = bound - q
    OBVIOUS
  <2>4. \A r \in S : bound - q <= bound - r
    BY <2>2, <2>3
  <2>5. \A r \in S : r \in Nat /\ r <= q
    BY <2>3, <2>4
  <2> QED BY <1>2, <2>5 DEF Chosen, Latest
<1> QED BY <1>1, <1>2

\* last_scheduled_at is the point that became a task, if one did.
LEMMA LastIsScheduled ==
    ASSUME NEW e \in Entry, NEW points \in SUBSET Point, NEW l \in Point \cup {Never}
    PROVE  /\ LastScheduled(l, e, points) \in Point \cup {Never}
           /\ Scheduled(e, points) = {} => LastScheduled(l, e, points) = l
           /\ \A q \in Scheduled(e, points) : LastScheduled(l, e, points) = q
<1>1. \A q, r \in Scheduled(e, points) : q = r
  BY OneScheduled
<1>2. Scheduled(e, points) \subseteq Point
  BY OneScheduled
<1>3. CASE Scheduled(e, points) = {}
  BY <1>3 DEF LastScheduled
<1>4. CASE Scheduled(e, points) # {}
  <2>1. LastScheduled(l, e, points) \in Scheduled(e, points)
    BY <1>4 DEF LastScheduled
  <2> QED BY <2>1, <1>1, <1>2, <1>4
<1> QED BY <1>3, <1>4

\* The tasks of a call: one for each entry and each point its policy left.
LEMMA TasksOfPoints ==
    ASSUME NEW points \in SUBSET Point
    PROVE  /\ NewTasks(points) \in SUBSET Task
           /\ \A e \in Entry, q \in Point :
                 [entry |-> e, point |-> q] \in NewTasks(points) <=> q \in Scheduled(e, points)
           /\ \A x \in NewTasks(points) : x.point \in points
<1>1. \A e \in Entry : Scheduled(e, points) \subseteq points
  BY OneScheduled
<1>2. ASSUME NEW x \in NewTasks(points)
      PROVE  \E e \in Entry : \E q \in Scheduled(e, points) : x = [entry |-> e, point |-> q]
  BY DEF NewTasks
<1>3. NewTasks(points) \in SUBSET Task
  <2> SUFFICES ASSUME NEW x \in NewTasks(points) PROVE x \in Task
    OBVIOUS
  <2>1. PICK e \in Entry : \E q \in Scheduled(e, points) : x = [entry |-> e, point |-> q]
    BY <1>2
  <2>2. PICK q \in Scheduled(e, points) : x = [entry |-> e, point |-> q]
    BY <2>1
  <2> QED BY <2>2, <1>1 DEF Task
<1>4. ASSUME NEW e \in Entry, NEW q \in Point, [entry |-> e, point |-> q] \in NewTasks(points)
      PROVE  q \in Scheduled(e, points)
  <2>1. PICK f \in Entry : \E r \in Scheduled(f, points) :
                [entry |-> e, point |-> q] = [entry |-> f, point |-> r]
    BY <1>2, <1>4
  <2>2. PICK r \in Scheduled(f, points) : [entry |-> e, point |-> q] = [entry |-> f, point |-> r]
    BY <2>1
  <2>3. e = f /\ q = r
    BY <2>2
  <2> QED BY <2>3
<1>5. ASSUME NEW e \in Entry, NEW q \in Point, q \in Scheduled(e, points)
      PROVE  [entry |-> e, point |-> q] \in NewTasks(points)
  BY <1>5 DEF NewTasks
<1>6. ASSUME NEW x \in NewTasks(points) PROVE x.point \in points
  <2>1. PICK e \in Entry : \E q \in Scheduled(e, points) : x = [entry |-> e, point |-> q]
    BY <1>2
  <2> QED BY <2>1, <1>1
<1> QED BY <1>3, <1>4, <1>5, <1>6

\* The points of entry e in a set of tasks.
PointsIn(S, e) == {x.point : x \in {y \in S : y.entry = e}}

\* A point is among them when its task is.
LEMMA PointMeansTask ==
    ASSUME NEW S \in SUBSET Task, NEW e \in Entry
    PROVE  /\ PointsIn(S, e) \in SUBSET Point
           /\ \A q \in Point : q \in PointsIn(S, e) <=> [entry |-> e, point |-> q] \in S
<1>1. ASSUME NEW q \in PointsIn(S, e) PROVE q \in Point /\ [entry |-> e, point |-> q] \in S
  <2>1. PICK x \in S : x.entry = e /\ q = x.point
    BY DEF PointsIn
  <2>2. x \in Task
    OBVIOUS
  <2>3. x = [entry |-> x.entry, point |-> x.point] /\ x.point \in Point
    BY <2>2 DEF Task
  <2> QED BY <2>1, <2>3
<1>2. ASSUME NEW q \in Point, [entry |-> e, point |-> q] \in S PROVE q \in PointsIn(S, e)
  <2> DEFINE x == [entry |-> e, point |-> q]
  <2>1. x \in S /\ x.entry = e /\ x.point = q
    BY <1>2
  <2> HIDE DEF x
  <2> QED BY <2>1 DEF PointsIn
<1> QED BY <1>1, <1>2

\* What a call adds to them: the points its policy left.
LEMMA PointsAfter ==
    ASSUME NEW S \in SUBSET Task, NEW e \in Entry, NEW points \in SUBSET Point
    PROVE  PointsIn(S \cup NewTasks(points), e) = PointsIn(S, e) \cup Scheduled(e, points)
<1> DEFINE M == PointsIn(S, e)
           N == PointsIn(S \cup NewTasks(points), e)
<1>1. M \in SUBSET Point /\ \A q \in Point : q \in M <=> [entry |-> e, point |-> q] \in S
  BY PointMeansTask
<1>2. S \cup NewTasks(points) \in SUBSET Task
  BY TasksOfPoints
<1>3. N \in SUBSET Point /\ \A q \in Point : q \in N <=> [entry |-> e, point |-> q] \in S \cup NewTasks(points)
  <2> HIDE DEF N
  <2> QED BY <1>2, PointMeansTask DEF N
<1>4. Scheduled(e, points) \subseteq Point
  BY OneScheduled
<1>5. \A q \in Point : [entry |-> e, point |-> q] \in NewTasks(points) <=> q \in Scheduled(e, points)
  BY TasksOfPoints
<1> HIDE DEF M, N
<1>6. \A q \in Point : q \in N <=> (q \in M \/ q \in Scheduled(e, points))
  BY <1>1, <1>3, <1>5
<1>7. N = M \cup Scheduled(e, points)
  BY <1>1, <1>3, <1>4, <1>6
<1> QED BY <1>7 DEF M, N

-----------------------------------------------------------------------------
(* Type correctness.                                                       *)

\* It starts well typed.
LEMMA TypeInit == ASSUME Init PROVE TypeOK
<1>1. now \in Time /\ 0 \in Time
  BY TimeAssumption DEF Init, Time
<1>2. Idle \in Job
  BY <1>1 DEF Idle, Job, Stage
<1>3. job \in [Process -> Job]
  BY <1>2 DEF Init
<1>4. runs \in SUBSET Point /\ run \in Point \cup {Never} /\ begin \in {Never, 0}
  BY DEF Init
<1> QED BY <1>1, <1>3, <1>4 DEF Init, TypeOK

\* Every step keeps the types.
LEMMA TypeStep == ASSUME TypeOK, [Next]_vars PROVE TypeOK'
<1> USE DEF TypeOK
<1>1. ASSUME NEW p \in Process, NEW stage \in Stage, Step(p, stage) PROVE job' \in [Process -> Job]
  BY <1>1 DEF Step, Job
<1>2. Idle \in Job
  <2>1. 0 \in Time
    BY TimeAssumption DEF Time
  <2> QED BY <2>1 DEF Idle, Job, Stage
<1>3. ASSUME NEW p \in Process, Acquire(p) PROVE TypeOK'
  <2>1. PICK t \in Time : job' = [job EXCEPT ![p] = [Idle EXCEPT !.stage = "locked", !.at = t]]
    BY <1>3 DEF Acquire
  <2>2. [Idle EXCEPT !.stage = "locked", !.at = t] \in Job
    BY <1>2 DEF Job, Stage
  <2>3. job' \in [Process -> Job]
    BY <2>1, <2>2
  <2> QED BY <1>3, <2>3 DEF Acquire, storage
<1>4. ASSUME NEW p \in Process, GetState(p) PROVE TypeOK'
  <2> DEFINE points == ListSchedulePoints(run, job[p].at)
  <2>1. job[p] \in Job
    OBVIOUS
  <2>2. points \in SUBSET Point
    BY <2>1, ListedPoints DEF Job
  <2>3. PICK s \in Stage : job' = [job EXCEPT ![p].points = points, ![p].last = last, ![p].stage = s]
    BY <1>4 DEF GetState, Stage
  <2> HIDE DEF points
  <2>4. [job[p] EXCEPT !.points = points, !.last = last, !.stage = s] \in Job
    BY <2>1, <2>2 DEF Job
  <2>5. job' = [job EXCEPT ![p] = [job[p] EXCEPT !.points = points, !.last = last, !.stage = s]]
    BY <2>3
  <2>6. job' \in [Process -> Job]
    BY <2>4, <2>5
  <2> QED BY <1>4, <2>6 DEF GetState, storage
<1>5. ASSUME NEW p \in Process, Persist(p) PROVE TypeOK'
  <2>1. job[p] \in Job
    OBVIOUS
  <2>2. Round(job[p].at) \in Point
    BY <2>1, RoundIsPoint DEF Job
  <2>3. run' \in Point /\ runs' \in SUBSET Point
    BY <1>5, <2>2 DEF Persist
  <2>4. job' \in [Process -> Job]
    BY <1>5, <1>1 DEF Persist, Stage
  <2>5. job[p].points \in SUBSET Point /\ job[p].last \in [Entry -> Point \cup {Never}]
    BY <2>1 DEF Job
  <2>6. \A e \in Entry : LastScheduled(job[p].last[e], e, job[p].points) \in Point \cup {Never}
    BY <2>5, LastIsScheduled
  <2>7. last' \in [Entry -> Point \cup {Never}]
    BY <1>5, <2>6 DEF Persist
  <2>8. NewTasks(job[p].points) \in SUBSET Task
    BY <2>5, TasksOfPoints
  <2>9. tasks' \in SUBSET Task /\ made' \in SUBSET Task
    BY <1>5, <2>8 DEF Persist
  <2> QED BY <1>5, <2>3, <2>4, <2>7, <2>9 DEF Persist
<1>6. ASSUME NEW p \in Process, CallFails(p) PROVE TypeOK'
  BY <1>6, <1>1 DEF CallFails, Stage, storage
<1>7. ASSUME NEW p \in Process, Release(p) \/ Crash(p) PROVE TypeOK'
  <2>1. job' \in [Process -> Job]
    BY <1>7, <1>2 DEF Release, Crash
  <2>2. lock' \in Process \cup {Nobody}
    BY <1>7 DEF Release, Crash
  <2> QED BY <1>7, <2>1, <2>2 DEF Release, Crash, storage
<1>8. ASSUME NEW x \in tasks, Consume(x) PROVE TypeOK'
  BY <1>8 DEF Consume
<1>9. CASE LoseLock
  BY <1>9 DEF LoseLock, storage
<1>10. CASE Tick
  <2>1. now' \in Time
    BY <1>10, TimeAssumption DEF Tick, Time
  <2> QED BY <1>10, <2>1 DEF Tick, storage
<1>11. CASE UNCHANGED vars
  BY <1>11 DEF vars, storage
<1> QED BY <1>3, <1>4, <1>5, <1>6, <1>7, <1>8, <1>9, <1>10, <1>11 DEF Next, Service

\* Every reachable state is well typed.
THEOREM SchedulerTypeCorrect == Spec => []TypeOK
BY TypeInit, TypeStep, PTL DEF Spec

-----------------------------------------------------------------------------
(* The inductive invariant.                                                *)

\* While no lock was lost, a process inside a call has the lock ...
OneInside == ~lost => \A p \in Process : job[p].stage # "idle" => lock = p

\* ... so that what it read is still what is stored ...
ReadsAreFresh ==
    ~lost => \A p \in Process : job[p].stage = "ready" =>
                /\ job[p].points = ListSchedulePoints(run, job[p].at)
                /\ job[p].last = last

\* ... and the stored run is ahead of everything.
RunIsAhead ==
    ~lost => /\ \A r \in runs : r <= run
             /\ \A x \in made : x.point <= run

RunIsKnown == /\ run # Never => run \in runs
              /\ runs # {} => run # Never

\* A call looks at the points after some run, and at least one.
PointsFollowRun ==
    \A p \in Process : job[p].stage = "ready" =>
       /\ job[p].points # {}
       /\ \/ \E since \in runs : job[p].points = since + 1 .. Round(job[p].at)
          \/ begin = Never

\* Whatever run is stored: the points chosen up to it are made, even if the locks
\* were lost.
NothingSkippedYet ==
    begin = 0 => /\ run # Never
                 /\ \A e \in Entry : \A r \in runs : Chosen(e, Due(e, 0, r)) \subseteq MadePoints(e)

\* The inductive invariant.
IInv == /\ TypeOK
        /\ OneInside /\ ReadsAreFresh
        /\ RunIsAhead /\ RunIsKnown
        /\ PointsFollowRun /\ NothingSkippedYet
        /\ RunsKeepPolicy /\ StateMatchesTasks

-----------------------------------------------------------------------------

\* What a policy selects up to c it selects up to b, or from there to c.
LEMMA ChosenSplits ==
    ASSUME NEW e \in Entry, NEW a \in Nat, NEW b \in Nat, NEW c \in Nat,
           a <= b, b <= c
    PROVE  Chosen(e, Due(e, a, c)) \subseteq Chosen(e, Due(e, a, b)) \cup Scheduled(e, b + 1 .. c)
<1>1. Due(e, a, c) \subseteq Due(e, a, b) \cup Matching(e, b + 1 .. c)
  BY DEF Due, Matching
<1>2. Due(e, a, b) \subseteq Due(e, a, c)
  BY DEF Due, Matching
<1> DEFINE A == Due(e, a, b)
           C == Due(e, a, c)
           B == Matching(e, b + 1 .. c)
<1>5. B \subseteq C
  BY DEF Due, Matching
<1>6. Scheduled(e, b + 1 .. c) = Chosen(e, B)
  BY DEF Scheduled, Chosen
<1> HIDE DEF A, B, C
<1>7. C \subseteq A \cup B /\ A \subseteq C
  BY <1>1, <1>2 DEF A, B, C
<1>8. ASSUME NEW q \in Chosen(e, C) PROVE q \in Chosen(e, A) \cup Chosen(e, B)
  <2>1. q \in C
    BY <1>8 DEF Chosen, Earliest, Latest
  <2>2. CASE q \in A
    <3>1. q \in Chosen(e, A)
      BY <2>2, <1>7, <1>8 DEF Chosen, Earliest, Latest
    <3> QED BY <3>1
  <2>3. CASE q \in B
    BY <2>3, <1>5, <1>8 DEF Chosen, Earliest, Latest
  <2> QED BY <2>1, <2>2, <2>3, <1>7
<1>9. Chosen(e, C) \subseteq Chosen(e, A) \cup Chosen(e, B)
  BY <1>8
<1> QED BY <1>6, <1>9 DEF A, C

\* It holds initially.
LEMMA InvInit == ASSUME Init PROVE IInv
<1>1. TypeOK
  BY TypeInit
<1>2. OneInside /\ ReadsAreFresh /\ PointsFollowRun
  BY DEF Init, OneInside, ReadsAreFresh, PointsFollowRun, Idle
<1>3. RunIsAhead /\ RunIsKnown
  BY DEF Init, RunIsAhead, RunIsKnown
<1>4. \A e \in Entry : MadePoints(e) = {}
  BY DEF Init, MadePoints
<1>5. NothingSkippedYet
  <2> SUFFICES ASSUME begin = 0, NEW e \in Entry, NEW r \in runs
               PROVE  run # Never /\ Chosen(e, Due(e, 0, r)) \subseteq MadePoints(e)
    BY DEF NothingSkippedYet, Init
  <2>1. run = 0 /\ r = 0
    BY DEF Init
  <2>2. Due(e, 0, r) = {}
    BY <2>1 DEF Due, Matching
  <2>3. Chosen(e, Due(e, 0, r)) = {}
    BY <2>2 DEF Chosen, Earliest, Latest
  <2> QED BY <2>1, <2>3
<1>6. RunsKeepPolicy
  BY DEF Init, RunsKeepPolicy, Consecutive
<1>7. StateMatchesTasks
  <2>1. \A e \in Entry : {last[e]} \ {Never} = Latest(MadePoints(e))
    BY <1>4 DEF Init, Latest
  <2>2. {run} \ {Never} = Latest(runs)
    BY DEF Init, Latest
  <2>3. \A x \in made : x.point <= run
    BY DEF Init
  <2> QED BY <2>1, <2>2, <2>3 DEF StateMatchesTasks
<1> QED BY <1>1, <1>2, <1>3, <1>5, <1>6, <1>7 DEF IInv

\* What concerns the stored state alone stays while nothing is stored.
LEMMA StoredStays ==
    ASSUME UNCHANGED <<begin, run, last, made, runs>>, ~lost' => ~lost,
           RunIsAhead, RunIsKnown, NothingSkippedYet, RunsKeepPolicy, StateMatchesTasks
    PROVE  RunIsAhead' /\ RunIsKnown' /\ NothingSkippedYet' /\ RunsKeepPolicy' /\ StateMatchesTasks'
<1>1. RunIsAhead' /\ RunIsKnown'
  BY DEF RunIsAhead, RunIsKnown
<1>2. \A e \in Entry : MadePoints(e)' = MadePoints(e)
  BY DEF MadePoints
<1>3. NothingSkippedYet'
  BY <1>2 DEF NothingSkippedYet
<1>4. RunsKeepPolicy'
  BY <1>2 DEF RunsKeepPolicy, Consecutive
<1>5. StateMatchesTasks'
  BY <1>2 DEF StateMatchesTasks
<1> QED BY <1>1, <1>3, <1>4, <1>5

\* What concerns the calls stays while no process gets ready and nothing is stored.
LEMMA ReadsStay ==
    ASSUME UNCHANGED <<begin, run, last, runs>>, ~lost' => ~lost,
           \A p \in Process : job'[p].stage = "ready" => job'[p] = job[p],
           ReadsAreFresh, PointsFollowRun
    PROVE  ReadsAreFresh' /\ PointsFollowRun'
BY DEF ReadsAreFresh, PointsFollowRun

\* A call that was interrupted, or is over, leaves the lock to the others.
LEMMA LeavesLock ==
    ASSUME TypeOK, OneInside, NEW p \in Process, UNCHANGED lost,
           job' = [job EXCEPT ![p] = Idle],
           lock' = IF lock = p THEN Nobody ELSE lock
    PROVE  OneInside'
<1> SUFFICES ASSUME ~lost, NEW q \in Process, job'[q].stage # "idle" PROVE lock' = q
  BY DEF OneInside
<1>1. job \in [Process -> Job]
  BY DEF TypeOK
<1>2. q # p
  BY <1>1 DEF Idle
<1>3. job'[q] = job[q]
  BY <1>1, <1>2
<1>4. lock = q
  BY <1>3 DEF OneInside
<1> QED BY <1>2, <1>4

\* A step inside a call keeps the lock.
LEMMA KeepsLock ==
    ASSUME TypeOK, OneInside, UNCHANGED <<lock, lost>>,
           \A q \in Process : job'[q].stage # "idle" => job[q].stage # "idle"
    PROVE  OneInside'
BY DEF OneInside

\* The points of a ready call, while no lock was lost: all of them are ahead.
LEMMA ReadyIsAhead ==
    ASSUME IInv, NEW p \in Process, job[p].stage = "ready", ~lost
    PROVE  /\ lock = p
           /\ job[p].points = ListSchedulePoints(run, job[p].at)
           /\ job[p].last = last
           /\ run < Round(job[p].at)
           /\ \A q \in job[p].points : run < q /\ q <= Round(job[p].at)
<1>1. lock = p
  BY DEF IInv, OneInside
<1>2. job[p].points = ListSchedulePoints(run, job[p].at) /\ job[p].last = last
  BY DEF IInv, ReadsAreFresh
<1>3. job[p].points # {}
  BY DEF IInv, PointsFollowRun
<1>4. run \in Point \cup {Never} /\ job[p].at \in Time
  BY DEF IInv, TypeOK, Job
<1> QED BY <1>1, <1>2, <1>3, <1>4, ListedPoints

\* What a call stores keeps all of it.
LEMMA PersistKeeps ==
    ASSUME IInv, TypeOK', NEW p \in Process, Persist(p)
    PROVE  IInv'
<1> DEFINE P == job[p].points
           R == Round(job[p].at)
<1>1. TypeOK /\ job[p] \in Job /\ job \in [Process -> Job]
  BY DEF IInv, TypeOK
<1>2. P \in SUBSET Point /\ R \in Nat /\ job[p].at \in Time
  BY <1>1, RoundIsPoint DEF Job
<1>3. job[p].stage = "ready"
  BY DEF Persist
<1>4. run' = R /\ runs' = runs \cup {R} /\ made' = made \cup NewTasks(P)
  BY DEF Persist
<1>5. /\ last' = [e \in Entry |-> LastScheduled(job[p].last[e], e, P)]
      /\ job' = [job EXCEPT ![p].stage = "done"]
      /\ UNCHANGED <<now, begin, lock, lost>>
  BY DEF Persist, Step
<1>6. ~lost => /\ lock = p
               /\ P = ListSchedulePoints(run, job[p].at)
               /\ job[p].last = last
               /\ run < R
               /\ \A q \in P : run < q /\ q <= R
  BY <1>3, ReadyIsAhead
<1>7. made \in SUBSET Task /\ runs \in SUBSET Nat /\ run \in Nat \cup {-1}
  BY <1>1 DEF TypeOK
<1>8. ASSUME NEW e \in Entry
      PROVE  MadePoints(e)' = MadePoints(e) \cup Scheduled(e, P)
  <2>1. MadePoints(e) = PointsIn(made, e) /\ MadePoints(e)' = PointsIn(made', e)
    BY DEF MadePoints, PointsIn
  <2> HIDE DEF P
  <2> QED BY <2>1, <1>2, <1>4, <1>7, PointsAfter
<1>9. ASSUME NEW e \in Entry
      PROVE  /\ Scheduled(e, P) \subseteq P
             /\ \A q, r \in Scheduled(e, P) : q = r
  BY <1>2, OneScheduled
<1>10. ASSUME NEW e \in Entry, NEW q \in MadePoints(e)
       PROVE  q \in Nat /\ (~lost => q <= run)
  <2>1. PICK x \in made : x.entry = e /\ x.point = q
    BY DEF MadePoints
  <2>2. x \in Task
    BY <1>7
  <2>3. x.point \in Nat
    BY <2>2 DEF Task
  <2>4. ~lost => x.point <= run
    BY DEF IInv, RunIsAhead
  <2> QED BY <2>1, <2>3, <2>4
<1>11. \A q \in Process : job'[q].stage # "idle" => job[q].stage # "idle"
  BY <1>1, <1>3, <1>5
<1>12. \A q \in Process : job'[q].stage = "ready" => q # p /\ job'[q] = job[q]
  BY <1>1, <1>5
<1> HIDE DEF P, R
<1>13. OneInside'
  BY <1>1, <1>5, <1>11, KeepsLock DEF IInv
<1>14. ReadsAreFresh'
  <2> SUFFICES ASSUME ~lost', NEW q \in Process, job'[q].stage = "ready" PROVE FALSE
    BY DEF ReadsAreFresh
  <2>1. ~lost /\ lock = p
    BY <1>5, <1>6
  <2>2. q # p /\ job[q].stage = "ready"
    BY <1>12
  <2>3. lock = q
    BY <2>1, <2>2 DEF IInv, OneInside
  <2> QED BY <2>1, <2>2, <2>3
<1>15. RunIsAhead'
  <2> SUFFICES ASSUME ~lost'
               PROVE  (\A r \in runs' : r <= run') /\ (\A x \in made' : x.point <= run')
    BY DEF RunIsAhead
  <2>1. ~lost
    BY <1>5
  <2>2. run < R /\ \A q \in P : q <= R
    BY <2>1, <1>6
  <2>3. ASSUME NEW r \in runs' PROVE r <= R
    <3>1. r \in runs => r <= run
      BY <2>1 DEF IInv, RunIsAhead
    <3> QED BY <3>1, <2>2, <1>2, <1>4, <1>7
  <2>4. ASSUME NEW x \in made' PROVE x.point <= R
    <3>1. CASE x \in made
      <4>1. x \in Task /\ x.point <= run
        BY <2>1, <3>1, <1>7 DEF IInv, RunIsAhead
      <4>2. x.point \in Nat
        BY <4>1 DEF Task
      <4> QED BY <4>1, <4>2, <2>2, <1>2, <1>7
    <3>2. CASE x \in NewTasks(P)
      BY <3>2, <1>2, <2>2, TasksOfPoints
    <3> QED BY <3>1, <3>2, <1>4
  <2> QED BY <2>3, <2>4, <1>4
<1>16. RunIsKnown'
  BY <1>2, <1>4 DEF RunIsKnown
<1>17. PointsFollowRun'
  BY <1>4, <1>5, <1>12 DEF IInv, PointsFollowRun
<1>18. NothingSkippedYet'
  <2> SUFFICES ASSUME begin = 0, NEW e \in Entry, NEW r \in runs'
               PROVE  Chosen(e, Due(e, 0, r)) \subseteq MadePoints(e)'
    BY <1>2, <1>4, <1>5 DEF NothingSkippedYet
  <2>1. \A b \in runs : Chosen(e, Due(e, 0, b)) \subseteq MadePoints(e)
    BY DEF IInv, NothingSkippedYet
  <2>2. CASE r \in runs
    BY <2>1, <2>2, <1>8
  <2>3. CASE r = R
    <3>1. PICK since \in runs : P = since + 1 .. R
      BY <1>3 DEF IInv, PointsFollowRun, P, R
    <3>2. P # {}
      BY <1>3 DEF IInv, PointsFollowRun, P
    <3>3. since \in Nat /\ since <= R
      BY <3>1, <3>2, <1>2, <1>7
    <3>4. Chosen(e, Due(e, 0, R)) \subseteq Chosen(e, Due(e, 0, since)) \cup Scheduled(e, since + 1 .. R)
      BY <3>3, <1>2, ChosenSplits
    <3> QED BY <3>1, <3>4, <2>1, <2>3, <1>8
  <2> QED BY <2>2, <2>3, <1>4
<1>19. RunsKeepPolicy'
  <2> SUFFICES ASSUME ~lost', NEW e \in Entry, NEW a \in runs', NEW b \in runs', Consecutive(a, b)',
                      NEW q \in a + 1 .. b
               PROVE  q \in MadePoints(e)' <=>
                         /\ q \in Due(e, a, b)
                         /\ Policy[e] = "OnlyEarliest" => \A r \in Due(e, a, b) : q <= r
                         /\ Policy[e] = "OnlyLatest"   => \A r \in Due(e, a, b) : r <= q
    BY DEF RunsKeepPolicy
  <2>1. ~lost /\ run < R /\ \A r \in P : run < r
    BY <1>5, <1>6
  <2>2. a \in Nat /\ b \in Nat /\ a < b
    BY <1>2, <1>4, <1>7 DEF Consecutive
  <2>3. ~\E c \in runs' : a < c /\ c < b
    BY DEF Consecutive
  <2>4. \A r \in runs : r <= run
    BY <2>1 DEF IInv, RunIsAhead
  <2>5. a \in runs
    <3>1. a # R
      BY <2>1, <2>2, <2>4, <1>2, <1>4, <1>7
    <3> QED BY <3>1, <1>4
  <2>6. run \in runs /\ run \in Nat
    BY <2>5, <1>7 DEF IInv, RunIsKnown
  <2>7. q \in Nat /\ a < q /\ q <= b
    BY <2>2
  <2>8. CASE b \in runs
    <3>1. Consecutive(a, b)
      BY <2>2, <2>3, <1>4 DEF Consecutive
    <3>2. q <= run
      BY <2>4, <2>6, <2>7, <2>8, <2>2
    <3>3. q \notin Scheduled(e, P)
      BY <3>2, <2>1, <2>6, <2>7, <1>9
    <3>4. q \in MadePoints(e)' <=> q \in MadePoints(e)
      BY <3>3, <1>8
    <3> QED BY <3>1, <3>4, <2>1, <2>5, <2>8 DEF IInv, RunsKeepPolicy
  <2>9. CASE b = R
    <3>1. a = run
      BY <2>1, <2>2, <2>3, <2>4, <2>5, <2>6, <2>9, <1>4
    <3>2. P = run + 1 .. R
      BY <2>1, <2>6, <1>6 DEF ListSchedulePoints, R
    <3>3. q \notin MadePoints(e)
      BY <3>1, <2>1, <2>7, <2>6, <1>10
    <3>4. q \in MadePoints(e)' <=> q \in Scheduled(e, P)
      BY <3>3, <1>8
    <3>5. Due(e, a, b) = Matching(e, P)
      BY <3>1, <3>2, <2>9 DEF Due
    <3>6. Policy[e] \in {"OnlyEarliest", "OnlyLatest"}
      BY EntryAssumption
    <3>7. CASE Policy[e] = "OnlyEarliest"
      BY <3>4, <3>5, <3>7 DEF Scheduled, Earliest
    <3>8. CASE Policy[e] = "OnlyLatest"
      BY <3>4, <3>5, <3>8 DEF Scheduled, Latest
    <3> QED BY <3>6, <3>7, <3>8
  <2> QED BY <2>8, <2>9, <1>4
<1>20. StateMatchesTasks'
  <2> SUFFICES ASSUME ~lost'
               PROVE  /\ \A e \in Entry : {last'[e]} \ {Never} = Latest(MadePoints(e)')
                      /\ {run'} \ {Never} = Latest(runs')
                      /\ \A x \in made' : x.point <= run'
    BY DEF StateMatchesTasks
  <2>1. ~lost /\ run < R /\ job[p].last = last /\ \A r \in P : run < r
    BY <1>5, <1>6
  <2>2. ASSUME NEW e \in Entry PROVE {last'[e]} \ {Never} = Latest(MadePoints(e)')
    <3>1. last'[e] = LastScheduled(last[e], e, P)
      BY <2>1, <1>5
    <3>2. {last[e]} \ {Never} = Latest(MadePoints(e))
      BY <2>1 DEF IInv, StateMatchesTasks
    <3>3. last[e] \in Point \cup {Never}
      BY <1>1 DEF TypeOK
    <3>4. /\ Scheduled(e, P) = {} => LastScheduled(last[e], e, P) = last[e]
          /\ \A q \in Scheduled(e, P) : LastScheduled(last[e], e, P) = q
      BY <3>3, <1>2, LastIsScheduled
    <3>5. CASE Scheduled(e, P) = {}
      <4>1. MadePoints(e)' = MadePoints(e)
        BY <3>5, <1>8
      <4> QED BY <4>1, <3>1, <3>2, <3>4, <3>5
    <3>6. CASE Scheduled(e, P) # {}
      <4>1. PICK q \in Scheduled(e, P) : TRUE
        BY <3>6
      <4>2. last'[e] = q
        BY <3>1, <3>4
      <4>3. q \in Nat /\ run < q
        BY <2>1, <1>2, <1>9
      <4>4. Scheduled(e, P) = {q}
        BY <1>9
      <4>5. MadePoints(e)' = MadePoints(e) \cup {q}
        BY <4>4, <1>8
      <4>6. \A r \in MadePoints(e) : r \in Nat /\ r < q
        BY <4>3, <2>1, <1>7, <1>10
      <4> DEFINE M == MadePoints(e)
                 N == MadePoints(e)'
      <4> HIDE DEF M, N
      <4>7. N = M \cup {q} /\ \A r \in M : r \in Nat /\ r < q
        BY <4>5, <4>6 DEF M, N
      <4>8. Latest(N) = {q}
        BY <4>3, <4>7 DEF Latest
      <4>9. {last'[e]} \ {Never} = {q}
        BY <4>2, <4>3
      <4> QED BY <4>8, <4>9 DEF N
    <3> QED BY <3>5, <3>6
  <2>3. {run'} \ {Never} = Latest(runs')
    <3>1. \A r \in runs : r \in Nat /\ r < R
      <4>1. \A r \in runs : r <= run
        BY <2>1 DEF IInv, RunIsAhead
      <4> QED BY <4>1, <2>1, <1>2, <1>7
    <3> QED BY <3>1, <1>2, <1>4 DEF Latest
  <2>4. \A x \in made' : x.point <= run'
    BY <1>15 DEF RunIsAhead
  <2> QED BY <2>2, <2>3, <2>4
<1> QED BY <1>13, <1>14, <1>15, <1>16, <1>17, <1>18, <1>19, <1>20 DEF IInv

\* Every step keeps the invariant.
LEMMA InvStep == ASSUME IInv, [Next]_vars PROVE IInv'
<1> USE DEF IInv
<1>1. TypeOK'
  BY TypeStep
<1>2. job \in [Process -> Job]
  BY DEF TypeOK
<1> DEFINE Stored == UNCHANGED <<begin, run, last, made, runs>> /\ (~lost' => ~lost)
<1>3. ASSUME Stored PROVE RunIsAhead' /\ RunIsKnown' /\ NothingSkippedYet' /\ RunsKeepPolicy' /\ StateMatchesTasks'
  BY <1>3, StoredStays
<1>4. ASSUME Stored, \A q \in Process : job'[q].stage = "ready" => job'[q] = job[q]
      PROVE  ReadsAreFresh' /\ PointsFollowRun'
  BY <1>4, ReadsStay
<1>5. ASSUME NEW p \in Process, Acquire(p) PROVE IInv'
  <2>1. Stored /\ lost' = lost
    BY <1>5 DEF Acquire, storage
  <2>2. PICK t \in Time : job' = [job EXCEPT ![p] = [Idle EXCEPT !.stage = "locked", !.at = t]]
    BY <1>5 DEF Acquire
  <2>3. \A q \in Process : q # p => job'[q] = job[q]
    BY <2>2, <1>2
  <2>4. job'[p].stage = "locked"
    BY <2>2, <1>2 DEF Idle
  <2>5. \A q \in Process : job'[q].stage = "ready" => job'[q] = job[q]
    BY <2>3, <2>4
  <2>6. OneInside'
    <3> SUFFICES ASSUME ~lost, NEW q \in Process, job'[q].stage # "idle" PROVE lock' = q
      BY <2>1 DEF OneInside
    <3>1. lock = Nobody /\ lock' = p
      BY <1>5 DEF Acquire
    <3>2. CASE q # p
      BY <3>1, <3>2, <2>3, ProcessAssumption DEF OneInside
    <3> QED BY <3>1, <3>2
  <2> QED BY <2>1, <2>5, <2>6, <1>1, <1>3, <1>4
<1>6. ASSUME NEW p \in Process, GetState(p) PROVE IInv'
  <2> DEFINE points == ListSchedulePoints(run, job[p].at)
  <2>1. Stored /\ UNCHANGED <<lost, lock>>
    BY <1>6 DEF GetState, storage
  <2>2. /\ job' = [job EXCEPT ![p].points = points, ![p].last = last,
                             ![p].stage = IF points = {} THEN "done" ELSE "ready"]
        /\ job[p].stage = "locked"
    BY <1>6 DEF GetState
  <2>3. job[p] \in Job /\ job[p].at \in Time
    BY <1>2 DEF Job
  <2> HIDE DEF points
  <2>4. \A q \in Process : q # p => job'[q] = job[q]
    BY <2>2, <1>2
  <2>5. /\ job'[p].points = points /\ job'[p].last = last /\ job'[p].at = job[p].at
        /\ job'[p].stage = IF points = {} THEN "done" ELSE "ready"
    BY <2>2, <2>3, <1>2 DEF Job
  <2>6. OneInside'
    <3>1. \A q \in Process : job'[q].stage # "idle" => job[q].stage # "idle"
      BY <2>2, <2>4
    <3> QED BY <3>1, <2>1, KeepsLock
  <2>7. ReadsAreFresh'
    BY <2>1, <2>4, <2>5 DEF ReadsAreFresh, points
  <2>8. PointsFollowRun'
    <3> SUFFICES ASSUME NEW q \in Process, job'[q].stage = "ready"
                 PROVE  /\ job'[q].points # {}
                        /\ \/ \E since \in runs : job'[q].points = since + 1 .. Round(job'[q].at)
                           \/ begin = Never
      BY <2>1 DEF PointsFollowRun
    <3>1. CASE q # p
      BY <3>1, <2>4 DEF PointsFollowRun
    <3>2. CASE q = p
      <4>1. points # {}
        BY <3>2, <2>5
      <4>2. begin \in {Never, 0}
        BY DEF TypeOK
      <4>3. CASE begin = 0
        <5>1. run # Never /\ run \in runs
          BY <4>3 DEF NothingSkippedYet, RunIsKnown
        <5>2. points = run + 1 .. Round(job[p].at)
          BY <5>1 DEF points, ListSchedulePoints
        <5> QED BY <5>1, <5>2, <4>1, <3>2, <2>5
      <4> QED BY <4>1, <4>2, <4>3, <3>2, <2>5
    <3> QED BY <3>1, <3>2
  <2> QED BY <2>1, <2>6, <2>7, <2>8, <1>1, <1>3
<1>7. ASSUME NEW p \in Process, Persist(p) PROVE IInv'
  BY <1>1, <1>7, PersistKeeps
<1>8. ASSUME NEW p \in Process, CallFails(p) PROVE IInv'
  <2>1. Stored /\ UNCHANGED <<lost, lock>>
    BY <1>8 DEF CallFails, storage
  <2>2. job' = [job EXCEPT ![p].stage = "done"] /\ job[p].stage # "idle"
    BY <1>8 DEF CallFails, Step
  <2>3. \A q \in Process : job'[q].stage # "idle" => job[q].stage # "idle"
    BY <2>2, <1>2
  <2>4. \A q \in Process : job'[q].stage = "ready" => job'[q] = job[q]
    BY <2>2, <1>2
  <2>5. OneInside'
    BY <2>1, <2>3, KeepsLock
  <2> QED BY <2>1, <2>4, <2>5, <1>1, <1>3, <1>4
<1>9. ASSUME NEW p \in Process, Release(p) \/ Crash(p) PROVE IInv'
  <2>1. /\ Stored /\ UNCHANGED lost
        /\ job' = [job EXCEPT ![p] = Idle]
        /\ lock' = IF lock = p THEN Nobody ELSE lock
    BY <1>9 DEF Release, Crash, storage
  <2>2. \A q \in Process : job'[q].stage = "ready" => job'[q] = job[q]
    BY <2>1, <1>2 DEF Idle
  <2>3. OneInside'
    BY <2>1, LeavesLock
  <2> QED BY <2>1, <2>2, <2>3, <1>1, <1>3, <1>4
<1>10. ASSUME NEW x \in tasks, Consume(x) PROVE IInv'
  <2>1. Stored /\ UNCHANGED <<lost, lock, job>>
    BY <1>10 DEF Consume
  <2>2. OneInside'
    BY <2>1 DEF OneInside
  <2> QED BY <2>1, <2>2, <1>1, <1>3, <1>4
<1>11. CASE LoseLock
  <2>1. Stored /\ UNCHANGED job /\ lost' = TRUE
    BY <1>11 DEF LoseLock, storage
  <2>2. OneInside'
    BY <2>1 DEF OneInside
  <2> QED BY <2>1, <2>2, <1>1, <1>3, <1>4
<1>12. CASE Tick \/ UNCHANGED vars
  <2>1. Stored /\ UNCHANGED <<lost, lock, job>>
    BY <1>12 DEF Tick, vars, storage
  <2>2. OneInside'
    BY <2>1 DEF OneInside
  <2> QED BY <2>1, <2>2, <1>1, <1>3, <1>4
<1> HIDE DEF IInv
<1> QED BY <1>5, <1>6, <1>7, <1>8, <1>9, <1>10, <1>11, <1>12 DEF Next, Service

\* The inductive invariant holds in every reachable state.
THEOREM SchedulerInvariant == Spec => []IInv
BY InvInit, InvStep, PTL DEF Spec

-----------------------------------------------------------------------------
(* The properties.                                                         *)

\* Between two consecutive runs an entry gets the tasks its policy selects.
THEOREM SchedulerKeepsPolicy == Spec => []RunsKeepPolicy
<1>1. IInv => RunsKeepPolicy
  BY DEF IInv
<1> QED BY <1>1, SchedulerInvariant, PTL

\* The stored state agrees with the tasks.
THEOREM SchedulerStateMatches == Spec => []StateMatchesTasks
<1>1. IInv => StateMatchesTasks
  BY DEF IInv
<1> QED BY <1>1, SchedulerInvariant, PTL

\* Nothing is skipped, even when locks are lost.
THEOREM SchedulerSkipsNothing == Spec => []NothingIsSkipped
<1>1. IInv => NothingIsSkipped
  <2> SUFFICES ASSUME IInv, begin = 0, NEW e \in Entry
               PROVE  Chosen(e, Due(e, 0, run)) \subseteq MadePoints(e)
    BY DEF NothingIsSkipped, Chosen
  <2>1. run \in runs
    BY DEF IInv, NothingSkippedYet, RunIsKnown
  <2> QED BY <2>1 DEF IInv, NothingSkippedYet
<1> QED BY <1>1, SchedulerInvariant, PTL

\* So an entry that accepts any point up to the last run has got a task.
DueEntriesAreMade ==
    begin = 0 => \A e \in Entry : Due(e, 0, run) # {} => MadePoints(e) # {}

\* NothingIsSkipped is not vacuous: whatever locks are lost, no entry is forgotten.
THEOREM SchedulerForgetsNobody == Spec => []DueEntriesAreMade
<1>1. IInv => DueEntriesAreMade
  <2> SUFFICES ASSUME IInv, begin = 0, NEW e \in Entry, Due(e, 0, run) # {}
               PROVE  MadePoints(e) # {}
    BY DEF DueEntriesAreMade
  <2>1. run \in runs /\ run \in Nat
    BY DEF IInv, NothingSkippedYet, RunIsKnown, TypeOK
  <2>2. Due(e, 0, run) \in SUBSET Nat /\ \A q \in Due(e, 0, run) : q <= run
    BY <2>1 DEF Due, Matching
  <2>3. Chosen(e, Due(e, 0, run)) # {}
    BY <2>1, <2>2, PolicyLeavesOne
  <2>4. Chosen(e, Due(e, 0, run)) \subseteq MadePoints(e)
    BY <2>1 DEF IInv, NothingSkippedYet
  <2> QED BY <2>3, <2>4
<1> QED BY <1>1, SchedulerInvariant, PTL

\* No point becomes a task twice while no lock is lost.
THEOREM SchedulerNoDuplicates == Spec => NoDuplicates
<1>1. IInv /\ [Next]_vars => [~lost => \A x \in tasks' \ tasks : x \notin made]_vars
  <2> SUFFICES ASSUME IInv, Next, ~lost, NEW x \in tasks' \ tasks, x \in made PROVE FALSE
    BY DEF vars
  <2>1. PICK p \in Process : Persist(p)
    BY DEF Next, Service, Acquire, GetState, CallFails, Release, Crash, Consume, LoseLock, Tick, storage
  <2>2. x \in NewTasks(job[p].points) /\ job[p].stage = "ready"
    BY <2>1 DEF Persist
  <2>3. job[p].points \in SUBSET Point
    BY DEF IInv, TypeOK, Job
  <2>4. x.point \in job[p].points
    BY <2>2, <2>3, TasksOfPoints
  <2>5. run < x.point /\ x.point \in Nat
    BY <2>2, <2>3, <2>4, ReadyIsAhead
  <2>6. x.point <= run /\ run \in Nat \cup {-1}
    BY DEF IInv, RunIsAhead, TypeOK
  <2> QED BY <2>5, <2>6
<1> QED BY <1>1, SchedulerInvariant, PTL DEF Spec, NoDuplicates

\* A call, from the lock to its release, is a section of LockContract.
LEMMA UsesInit == ASSUME Init PROVE LockUse!Init
<1>1. {p \in Process : job[p].stage # "idle"} = {}
  BY DEF Init, Idle
<1>2. LockUse!Name = {"scheduler"}
  BY ProcessAssumption DEF LockUse!Name
<1> QED BY <1>1, <1>2 DEF Init, LockUse!Init

\* Every step takes, leaves or loses the lock as the contract says, or does not
\* concern it.
LEMMA UsesStep == ASSUME TypeOK, [Next]_vars PROVE [LockUse!Next]_(LockUse!vars)
<1>1. LockUse!Name = {"scheduler"}
  BY ProcessAssumption DEF LockUse!Name
<1>2. job \in [Process -> Job]
  BY DEF TypeOK
<1>3. ASSUME NEW p \in Process, Acquire(p) PROVE LockUse!Grant(p)
  <2>1. PICK t \in Time : job' = [job EXCEPT ![p] = [Idle EXCEPT !.stage = "locked", !.at = t]]
    BY <1>3 DEF Acquire
  <2>2. \A q \in Process : q # p => job'[q] = job[q]
    BY <2>1, <1>2
  <2>3. job'[p].stage = "locked"
    BY <2>1, <1>2 DEF Idle
  <2>4. {q \in Process : job'[q].stage # "idle"} = {q \in Process : job[q].stage # "idle"} \cup {p}
    BY <2>2, <2>3
  <2>5. job[p].stage = "idle" /\ lock = Nobody /\ lock' = p
    BY <1>3 DEF Acquire
  <2> QED BY <2>4, <2>5 DEF LockUse!Grant
<1>4. ASSUME NEW p \in Process, job[p].stage # "idle", job' = [job EXCEPT ![p] = Idle],
             lock' = IF lock = p THEN Nobody ELSE lock
      PROVE  LockUse!Next
  <2> DEFINE calls == {q \in Process : job[q].stage # "idle"}
  <2>1. \A q \in Process : q # p => job'[q] = job[q]
    BY <1>2, <1>4
  <2>2. job'[p].stage = "idle"
    BY <1>2, <1>4 DEF Idle
  <2>3. {q \in Process : job'[q].stage # "idle"} = calls \ {p}
    BY <2>1, <2>2
  <2>4. {p} \in SUBSET calls
    BY <1>4
  <2>5. LockUse!Leave({p})
    BY <2>3, <1>1, <1>4 DEF LockUse!Leave
  <2> QED BY <2>4, <2>5 DEF LockUse!Next
<1>5. ASSUME NEW p \in Process, GetState(p) \/ Persist(p) \/ CallFails(p)
      PROVE  UNCHANGED LockUse!vars
  <2>1. lock' = lock
    BY <1>5 DEF GetState, Persist, CallFails
  <2>2. \A q \in Process : q # p => job'[q] = job[q]
    BY <1>2, <1>5 DEF GetState, Persist, CallFails, Step
  <2>3. job[p].stage # "idle"
    BY <1>5 DEF GetState, Persist, CallFails
  <2>4. job'[p].stage # "idle"
    <3>1. CASE GetState(p)
      <4>1. PICK s \in {"done", "ready"}, P \in {ListSchedulePoints(run, job[p].at)} :
                job' = [job EXCEPT ![p].points = P, ![p].last = last, ![p].stage = s]
        BY <3>1 DEF GetState
      <4> QED BY <4>1, <1>2 DEF Job
    <3>2. CASE Persist(p) \/ CallFails(p)
      BY <3>2, <1>2 DEF Persist, CallFails, Step, Job
    <3> QED BY <3>1, <3>2, <1>5
  <2>5. {q \in Process : job'[q].stage # "idle"} = {q \in Process : job[q].stage # "idle"}
    BY <2>2, <2>3, <2>4
  <2> QED BY <2>1, <2>5 DEF LockUse!vars
<1>6. CASE LoseLock
  <2>1. LockUse!Lose("scheduler")
    BY <1>6 DEF LoseLock, LockUse!Lose
  <2> QED BY <2>1, <1>1 DEF LockUse!Next
<1>7. CASE Tick \/ UNCHANGED vars
  BY <1>7 DEF Tick, vars, LockUse!vars
<1>8. ASSUME NEW x \in tasks, Consume(x) PROVE UNCHANGED LockUse!vars
  BY <1>8 DEF Consume, LockUse!vars
<1>9. ASSUME NEW p \in Process, Release(p) \/ Crash(p) PROVE LockUse!Next
  <2>1. job[p].stage # "idle" /\ job' = [job EXCEPT ![p] = Idle] /\ lock' = IF lock = p THEN Nobody ELSE lock
    BY <1>9 DEF Release, Crash
  <2> QED BY <2>1, <1>4
<1>10. ASSUME NEW p \in Process, Acquire(p) PROVE LockUse!Next
  BY <1>3, <1>10 DEF LockUse!Next
<1> QED BY <1>5, <1>6, <1>7, <1>8, <1>9, <1>10 DEF Next, Service

\* The scheduler uses the lock as LockContract says.
THEOREM SchedulerUsesContract == Spec => UsesLockContract
BY SchedulerTypeCorrect, UsesInit, UsesStep, PTL DEF Spec, UsesLockContract, LockUse!Spec
=============================================================================
