--------------------------- MODULE LocksEventsProofs ---------------------------
(***************************************************************************)
(* Proofs about Locks and about Events, and that each behaviour of the     *)
(* instance in which TLC checks the two is a behaviour of both: what is    *)
(* proved of one or the other holds of it.                                 *)
(***************************************************************************)
EXTENDS MCLocksEvents, SequenceTheorems, TLAPS

-----------------------------------------------------------------------------
(* Locks: for any processes, targets, sections and pools.                  *)

\* A connection is lent to a section of a session lock that has not ended and runs in
\* the process of the pool, and no section has two of them.
LentToOne ==
    /\ \A c \in Conn : lent[c] \in Section =>
          kind = "session" /\ stage[lent[c]] # "idle" /\ c[1] = ProcessOf(lent[c])
    /\ \A c, d \in Conn : lent[c] \in Section /\ lent[d] = lent[c] => c = d

\* What a session may have locked, when no unlock failed on its connection: the
\* target of the section inside, once.
OwnTarget(c, t) == /\ lent[c] \in Section
                   /\ stage[lent[c]] # "trying"
                   /\ t = TargetOf[lent[c]]

SessionsAgree ==
    /\ \A c \in Conn \ dirty, t \in Target :
          holds[c][t] = 0 \/ (holds[c][t] = 1 /\ OwnTarget(c, t))
    /\ \A c, d \in Conn, t \in Target : holds[c][t] > 0 /\ holds[d][t] > 0 => c = d

LocksInv == LentToOne /\ SessionsAgree

-----------------------------------------------------------------------------
\* Every section has the target of its call.
LEMMA TargetTypes == TargetOf \in [Section -> Target]
BY SectionAssumption DEF TargetOf

\* The initial state is well typed and keeps the invariant.
LEMMA LocksStart == LocksInit => LocksTypeOK /\ LocksInv
BY PoolAssumption, NullAssumption
DEF LocksInit, LocksTypeOK, LocksInv, LentToOne, SessionsAgree, Unlocked

\* A new session has locked nothing.
LEMMA UnlockedType == Unlocked \in [Target -> 0 .. MaxHolds]
BY PoolAssumption DEF Unlocked

\* An unlock undoes one lock of the session, if there is one.
LEMMA OneLess ==
  \A n \in 0 .. MaxHolds : (IF n = 0 THEN 0 ELSE n - 1) \in 0 .. MaxHolds
BY PoolAssumption

\* Every step keeps every variable in its type.
LEMMA LocksTypes == LocksTypeOK /\ [LocksNext]_lockVars => LocksTypeOK'
<1> SUFFICES ASSUME LocksTypeOK, [LocksNext]_lockVars PROVE LocksTypeOK'
  OBVIOUS
<1> USE UnlockedType, TargetTypes, PoolAssumption DEF LocksTypeOK
<1>1. CASE UNCHANGED lockVars
  BY <1>1 DEF lockVars
<1>2. ASSUME NEW C \in SUBSET Conn, Close(C)
      PROVE  /\ lent' \in [Conn -> Section \cup {InPool, Closed}]
             /\ holds' \in [Conn -> [Target -> 0 .. MaxHolds]]
             /\ dirty' \in SUBSET Conn
  BY <1>2 DEF Close
<1>3. ASSUME NEW s \in Section,
             PoolAcquire(s) \/ TakeKey(s) \/ TakeKeyUnheard(s) \/ Work(s) \/ WorkFails(s)
      PROVE  LocksTypeOK'
  <2>1. CASE PoolAcquire(s)
    BY <2>1 DEF PoolAcquire, Step, Available
  <2>2. CASE TakeKey(s) \/ TakeKeyUnheard(s) \/ WorkFails(s)
    BY <2>2 DEF TakeKey, TakeKeyUnheard, WorkFails, Step, pool
  <2>3. CASE Work(s)
    <3>1. lent' = lent \/ \E c \in Conn : lent' = [lent EXCEPT ![c] = InPool]
      BY <2>3 DEF Work, ReturnToPool, Available
    <3> QED BY <2>3, <3>1 DEF Work, Step
  <2> QED BY <1>3, <2>1, <2>2, <2>3
<1>4. ASSUME NEW s \in Section, TryLock(s) PROVE LocksTypeOK'
  BY <1>4 DEF TryLock, Step, Borrowed
<1>5. ASSUME NEW s \in Section, TryFails(s) PROVE LocksTypeOK'
  BY <1>5 DEF TryFails, Step, Borrowed, ReturnToPool
<1>6. ASSUME NEW s \in Section, Unlock(s) PROVE LocksTypeOK'
  <2>1. PICK c \in Conn :
           /\ holds' = [holds EXCEPT ![c][TargetOf[s]] = IF @ = 0 THEN 0 ELSE @ - 1]
           /\ lent' = [lent EXCEPT ![c] = InPool]
    BY <1>6 DEF Unlock, Borrowed, ReturnToPool
  <2> DEFINE left == IF holds[c][TargetOf[s]] = 0 THEN 0 ELSE holds[c][TargetOf[s]] - 1
  <2>2. left \in 0 .. MaxHolds
    <3>1. holds[c][TargetOf[s]] \in 0 .. MaxHolds
      OBVIOUS
    <3> QED BY <3>1, OneLess
  <2>3. holds' = [holds EXCEPT ![c][TargetOf[s]] = left]
    BY <2>1
  <2> HIDE DEF left
  <2>4. holds' \in [Conn -> [Target -> 0 .. MaxHolds]]
    BY <2>2, <2>3
  <2> QED BY <1>6, <2>1, <2>4 DEF Unlock, Step
<1>7. ASSUME NEW s \in Section, UnlockFails(s) PROVE LocksTypeOK'
  <2>1. PICK c \in Conn : \/ ReturnToPool(c) /\ dirty' = dirty \cup {c} /\ UNCHANGED holds
                          \/ Close({c})
    BY <1>7 DEF UnlockFails, Borrowed
  <2>2. CASE Close({c})
    BY <1>7, <1>2, <2>2 DEF UnlockFails, Step
  <2> QED BY <1>7, <2>1, <2>2 DEF UnlockFails, Step, ReturnToPool
<1>8. ASSUME NEW s \in Section, DeleteKey(s) \/ DeleteKeyFails(s) PROVE LocksTypeOK'
  BY <1>8 DEF DeleteKey, DeleteKeyFails, Step, pool
<1>9. ASSUME NEW s \in Section, Panic(s) PROVE LocksTypeOK'
  <2>1. Borrowed(s) \in SUBSET Conn
    BY DEF Borrowed
  <2> QED BY <1>9, <1>2, <2>1 DEF Panic, Drop, Step
<1>10. ASSUME NEW p \in Process, Crash(p) PROVE LocksTypeOK'
  <2>1. {c \in Conn : c[1] = p} \in SUBSET Conn
    OBVIOUS
  <2> QED BY <1>10, <1>2, <2>1 DEF Crash
<1>11. ASSUME NEW c \in Conn, BreakSession(c) PROVE LocksTypeOK'
  BY <1>11 DEF BreakSession
<1>12. ASSUME NEW c \in Conn, Reap(c) PROVE LocksTypeOK'
  BY <1>12, <1>2 DEF Reap
<1>13. ASSUME NEW t \in Target, Expire(t) PROVE LocksTypeOK'
  BY <1>13 DEF Expire, pool
<1> QED
  BY <1>1, <1>3, <1>4, <1>5, <1>6, <1>7, <1>8, <1>9, <1>10, <1>11, <1>12, <1>13
  DEF LocksNext, Release

-----------------------------------------------------------------------------
(* The invariant.                                                          *)

\* Connections that are closed agree with anything.
LEMMA CloseAgrees ==
  ASSUME LocksTypeOK, LocksInv, NEW C \in SUBSET Conn, Close(C), kind' = kind,
         \A c \in Conn \ C : lent[c] \in Section => stage'[lent[c]] = stage[lent[c]]
  PROVE  LocksInv'
<1> USE NullAssumption DEF LocksTypeOK, LocksInv, Close
<1>1. \A c \in Conn : lent'[c] \in Section => c \notin C /\ lent'[c] = lent[c]
  OBVIOUS
<1>2. LentToOne'
  BY <1>1 DEF LentToOne
<1>3. \A c \in Conn, t \in Target : holds'[c][t] = IF c \in C THEN 0 ELSE holds[c][t]
  BY DEF Unlocked
<1>4. SessionsAgree'
  <2>1. ASSUME NEW c \in Conn \ dirty', NEW t \in Target
        PROVE  holds'[c][t] = 0 \/ (holds'[c][t] = 1 /\ OwnTarget(c, t)')
    BY <1>1, <1>3, <2>1 DEF SessionsAgree, OwnTarget
  <2>2. ASSUME NEW c \in Conn, NEW d \in Conn, NEW t \in Target,
               holds'[c][t] > 0, holds'[d][t] > 0
        PROVE  c = d
    BY <1>3, <2>2 DEF SessionsAgree
  <2> QED BY <2>1, <2>2 DEF SessionsAgree
<1> QED BY <1>2, <1>4

\* A section that has no connection may go to any stage.
LEMMA StageAgrees ==
  ASSUME LocksTypeOK, LocksInv, NEW s \in Section, NEW next, Step(s, next), UNCHANGED <<kind, pool>>,
         \A c \in Conn : lent[c] # s
  PROVE  LocksInv'
<1>1. \A c \in Conn : lent[c] \in Section => stage'[lent[c]] = stage[lent[c]]
  BY DEF Step, LocksTypeOK
<1> QED BY <1>1 DEF LocksInv, LentToOne, SessionsAgree, OwnTarget, pool

\* Every step keeps the invariant.
LEMMA LocksStep == LocksTypeOK /\ LocksInv /\ [LocksNext]_lockVars => LocksInv'
<1> SUFFICES ASSUME LocksTypeOK, LocksInv, [LocksNext]_lockVars PROVE LocksInv'
  OBVIOUS
<1> USE TargetTypes, NullAssumption DEF LocksTypeOK
<1>1. CASE UNCHANGED lockVars
  BY <1>1 DEF lockVars, LocksInv, LentToOne, SessionsAgree, OwnTarget
<1>2. ASSUME NEW s \in Section, PoolAcquire(s) PROVE LocksInv'
  <2>1. PICK c \in Conn : lent[c] \notin Section /\ c[1] = ProcessOf(s)
                          /\ lent' = [lent EXCEPT ![c] = s]
    BY <1>2 DEF PoolAcquire, Available
  <2>2. \A d \in Conn : lent[d] # s
    BY <1>2 DEF PoolAcquire, LocksInv, LentToOne
  <2>3. stage' = [stage EXCEPT ![s] = "trying"] /\ kind' = kind /\ kind = "session"
        /\ holds' = holds /\ dirty' = dirty
    BY <1>2 DEF PoolAcquire, Step
  <2>4. LentToOne'
    BY <2>1, <2>2, <2>3 DEF LocksInv, LentToOne
  <2>5. SessionsAgree'
    BY <2>1, <2>2, <2>3 DEF LocksInv, SessionsAgree, OwnTarget
  <2> QED BY <2>4, <2>5 DEF LocksInv
<1>3. ASSUME NEW s \in Section, TryLock(s) PROVE LocksInv'
  <2>1. PICK c \in Conn :
           /\ lent[c] = s
           /\ \A d \in Conn \ {c} : holds[d][TargetOf[s]] = 0
           /\ holds' = [holds EXCEPT ![c][TargetOf[s]] = @ + 1]
    BY <1>3 DEF TryLock, Borrowed
  <2>2. stage[s] = "trying" /\ stage' = [stage EXCEPT ![s] = "inside"] /\ kind' = kind
        /\ lent' = lent /\ dirty' = dirty
    BY <1>3 DEF TryLock, Step
  <2>3. LentToOne'
    BY <2>2 DEF LocksInv, LentToOne
  <2>4. \A d \in Conn, t \in Target :
           holds'[d][t] = IF d = c /\ t = TargetOf[s] THEN holds[d][t] + 1 ELSE holds[d][t]
    BY <2>1
  <2>5. \A d \in Conn : lent[d] = s => d = c
    BY <2>1 DEF LocksInv, LentToOne
  <2>6. \A d \in Conn \ dirty', t \in Target :
           holds'[d][t] = 0 \/ (holds'[d][t] = 1 /\ OwnTarget(d, t)')
    BY <2>1, <2>2, <2>4, <2>5 DEF LocksInv, SessionsAgree, OwnTarget
  <2>7. ASSUME NEW d \in Conn, NEW e \in Conn, NEW t \in Target,
               holds'[d][t] > 0, holds'[e][t] > 0
        PROVE  d = e
    BY <2>1, <2>4, <2>7 DEF LocksInv, SessionsAgree
  <2> QED BY <2>3, <2>6, <2>7 DEF LocksInv, SessionsAgree
<1>4. ASSUME NEW s \in Section, TryFails(s) PROVE LocksInv'
  <2>1. PICK c \in Conn : lent[c] = s /\ lent' = [lent EXCEPT ![c] = InPool]
    BY <1>4 DEF TryFails, Borrowed, ReturnToPool
  <2>2. stage[s] = "trying" /\ stage' = [stage EXCEPT ![s] = "idle"] /\ kind' = kind
        /\ holds' = holds /\ dirty' = dirty
    BY <1>4 DEF TryFails, Step
  <2>3. \A d \in Conn : lent[d] = s => d = c
    BY <2>1 DEF LocksInv, LentToOne
  <2>4. LentToOne'
    BY <2>1, <2>2, <2>3 DEF LocksInv, LentToOne
  <2>5. SessionsAgree'
    BY <2>1, <2>2, <2>3 DEF LocksInv, SessionsAgree, OwnTarget
  <2> QED BY <2>4, <2>5 DEF LocksInv
<1>5. ASSUME NEW s \in Section, TakeKey(s) \/ TakeKeyUnheard(s) \/ DeleteKey(s) \/ DeleteKeyFails(s)
      PROVE  LocksInv'
  <2>1. kind # "session" /\ UNCHANGED <<kind, pool>>
        /\ (stage' = stage \/ \E next \in {"idle", "inside"} : Step(s, next))
    BY <1>5 DEF TakeKey, TakeKeyUnheard, DeleteKey, DeleteKeyFails, pool
  <2>2. \A c \in Conn : lent[c] # s
    BY <2>1 DEF LocksInv, LentToOne
  <2>3. CASE stage' = stage
    BY <2>1, <2>3 DEF LocksInv, LentToOne, SessionsAgree, OwnTarget, pool
  <2> QED BY <2>1, <2>2, <2>3, StageAgrees
<1>6. ASSUME NEW s \in Section, Work(s) \/ WorkFails(s) PROVE LocksInv'
  <2>1. stage[s] = "inside" /\ stage' = [stage EXCEPT ![s] = "done"] /\ kind' = kind
        /\ holds' = holds /\ dirty' = dirty
    BY <1>6 DEF Work, WorkFails, Step, pool
  <2>2. lent' = lent \/ \E c \in Conn : lent[c] \notin Section /\ lent' = [lent EXCEPT ![c] = InPool]
    BY <1>6 DEF Work, WorkFails, ReturnToPool, Available, pool
  <2>3. \A d \in Conn : lent'[d] = lent[d] \/ (lent'[d] \notin Section /\ lent[d] \notin Section)
    BY <2>2
  <2>4. LentToOne'
    BY <2>1, <2>3 DEF LocksInv, LentToOne
  <2>5. SessionsAgree'
    BY <2>1, <2>3 DEF LocksInv, SessionsAgree, OwnTarget
  <2> QED BY <2>4, <2>5 DEF LocksInv
<1>7. ASSUME NEW s \in Section, Unlock(s) PROVE LocksInv'
  <2>1. PICK c \in Conn :
           /\ lent[c] = s /\ lent' = [lent EXCEPT ![c] = InPool]
           /\ holds' = [holds EXCEPT ![c][TargetOf[s]] = IF @ = 0 THEN 0 ELSE @ - 1]
    BY <1>7 DEF Unlock, Borrowed, ReturnToPool
  <2>2. stage' = [stage EXCEPT ![s] = "idle"] /\ kind' = kind /\ dirty' = dirty
    BY <1>7 DEF Unlock, Step
  <2>3. \A d \in Conn : lent[d] = s => d = c
    BY <2>1 DEF LocksInv, LentToOne
  <2>4. LentToOne'
    BY <2>1, <2>2, <2>3 DEF LocksInv, LentToOne
  <2>5. \A d \in Conn, t \in Target :
           holds'[d][t] = IF d = c /\ t = TargetOf[s] /\ holds[d][t] # 0 THEN holds[d][t] - 1
                                                                     ELSE holds[d][t]
    BY <2>1
  <2>6. ASSUME NEW d \in Conn \ dirty', NEW t \in Target
        PROVE  holds'[d][t] = 0 \/ (holds'[d][t] = 1 /\ OwnTarget(d, t)')
    BY <2>1, <2>2, <2>3, <2>5 DEF LocksInv, SessionsAgree, OwnTarget
  <2>7. ASSUME NEW d \in Conn, NEW e \in Conn, NEW t \in Target,
               holds'[d][t] > 0, holds'[e][t] > 0
        PROVE  d = e
    <3>1. holds[d][t] \in Nat /\ holds[e][t] \in Nat
      OBVIOUS
    <3> QED BY <2>5, <2>7, <3>1 DEF LocksInv, SessionsAgree
  <2> QED BY <2>4, <2>6, <2>7 DEF LocksInv, SessionsAgree
<1>8. ASSUME NEW s \in Section, UnlockFails(s) PROVE LocksInv'
  <2>1. PICK c \in Conn : /\ lent[c] = s
                          /\ \/ ReturnToPool(c) /\ dirty' = dirty \cup {c} /\ UNCHANGED holds
                             \/ Close({c})
    BY <1>8 DEF UnlockFails, Borrowed
  <2>2. stage' = [stage EXCEPT ![s] = "idle"] /\ kind' = kind
    BY <1>8 DEF UnlockFails, Step
  <2>3. \A d \in Conn : lent[d] = s => d = c
    BY <2>1 DEF LocksInv, LentToOne
  <2>4. CASE Close({c})
    <3>1. \A d \in Conn \ {c} : lent[d] \in Section => stage'[lent[d]] = stage[lent[d]]
      BY <2>2, <2>3
    <3> QED BY <2>2, <2>4, <3>1, CloseAgrees
  <2>5. CASE ReturnToPool(c) /\ dirty' = dirty \cup {c} /\ UNCHANGED holds
    <3>1. LentToOne'
      BY <2>1, <2>2, <2>3, <2>5 DEF LocksInv, LentToOne, ReturnToPool
    <3>2. SessionsAgree'
      BY <2>1, <2>2, <2>3, <2>5 DEF LocksInv, SessionsAgree, OwnTarget, ReturnToPool
    <3> QED BY <3>1, <3>2 DEF LocksInv
  <2> QED BY <2>1, <2>4, <2>5
<1>9. ASSUME NEW s \in Section, Panic(s) PROVE LocksInv'
  <2>1. Close(Borrowed(s)) /\ kind' = kind /\ stage' = [stage EXCEPT ![s] = "idle"]
    BY <1>9 DEF Panic, Drop, Step
  <2>2. \A d \in Conn \ Borrowed(s) : lent[d] \in Section => stage'[lent[d]] = stage[lent[d]]
    BY <2>1 DEF Borrowed
  <2>3. Borrowed(s) \in SUBSET Conn
    BY DEF Borrowed
  <2> QED BY <2>1, <2>2, <2>3, CloseAgrees
<1>11. ASSUME NEW c \in Conn, BreakSession(c) PROVE LocksInv'
  <2>1. /\ holds' = [holds EXCEPT ![c] = Unlocked] /\ dirty' = dirty \ {c}
        /\ stage' = stage /\ kind' = kind
        /\ lent' = [lent EXCEPT ![c] = IF @ = InPool THEN Closed ELSE @]
    BY <1>11 DEF BreakSession
  <2>2. \A d \in Conn : lent'[d] = lent[d] \/ (lent'[d] \notin Section /\ lent[d] \notin Section)
    BY <2>1
  <2>3. LentToOne'
    BY <2>1, <2>2 DEF LocksInv, LentToOne
  <2>4. \A d \in Conn, t \in Target : holds'[d][t] = IF d = c THEN 0 ELSE holds[d][t]
    BY <2>1 DEF Unlocked
  <2>5. SessionsAgree'
    BY <2>1, <2>2, <2>4 DEF LocksInv, SessionsAgree, OwnTarget
  <2> QED BY <2>3, <2>5 DEF LocksInv
<1>12. ASSUME NEW c \in Conn, Reap(c) PROVE LocksInv'
  <2>1. Close({c}) /\ kind' = kind /\ stage' = stage
    BY <1>12 DEF Reap
  <2> QED BY <2>1, CloseAgrees
<1>13. ASSUME NEW t \in Target, Expire(t) PROVE LocksInv'
  BY <1>13 DEF Expire, pool, LocksInv, LentToOne, SessionsAgree, OwnTarget
<1>10. ASSUME NEW p \in Process, Crash(p) PROVE LocksInv'
  <2> DEFINE C == {c \in Conn : c[1] = p}
  <2>1. Close(C) /\ kind' = kind
        /\ stage' = [s \in Section |-> IF ProcessOf(s) = p THEN "idle" ELSE stage[s]]
    BY <1>10 DEF Crash
  <2>2. \A d \in Conn \ C : lent[d] \in Section => stage'[lent[d]] = stage[lent[d]]
    BY <2>1 DEF LocksInv, LentToOne
  <2> QED BY <2>1, <2>2, CloseAgrees
<1> QED
  BY <1>1, <1>2, <1>3, <1>4, <1>5, <1>6, <1>7, <1>8, <1>9, <1>10, <1>11, <1>12, <1>13
  DEF LocksNext, Release

-----------------------------------------------------------------------------
(* The theorems about safety.                                              *)

\* Types and invariant hold for ever.
LEMMA Invariance == LocksSpec => [](LocksTypeOK /\ LocksInv)
<1>1. LocksInit => LocksTypeOK /\ LocksInv
  BY LocksStart
<1>2. LocksTypeOK /\ LocksInv /\ [LocksNext]_lockVars => (LocksTypeOK /\ LocksInv)'
  BY LocksTypes, LocksStep
<1> QED BY <1>1, <1>2, PTL DEF LocksSpec

\* Every reachable state of the locks is well typed.
THEOREM LocksTypeCorrect == LocksSpec => []LocksTypeOK
BY Invariance, PTL

\* A connection in the pool has no lock left unless an unlock failed on it, however
\* sections panic, crash and lose their sessions (PostgresLock::drop, MysqlLock::drop).
THEOREM PoolStaysClean == LocksSpec => []PoolIsClean
<1>1. ASSUME LocksTypeOK, LocksInv, NEW c \in Conn, lent[c] = InPool, c \notin dirty
      PROVE  holds[c] = Unlocked
  <2>1. \A t \in Target : holds[c][t] = 0
    BY <1>1, NullAssumption DEF LocksInv, SessionsAgree, OwnTarget
  <2>2. holds[c] \in [Target -> 0 .. MaxHolds]
    BY <1>1 DEF LocksTypeOK
  <2> QED BY <2>1, <2>2 DEF Unlocked
<1>2. LocksTypeOK /\ LocksInv => PoolIsClean
  BY <1>1 DEF PoolIsClean
<1> QED BY <1>2, Invariance, PTL

-----------------------------------------------------------------------------
(* The refinement.                                                         *)

\* Section s was granted its lock and has it.
Owning(s) == InSection(s) /\ Owns(s)

\* Two sections never own the lock of one target.
LEMMA OneOwner ==
  ASSUME LocksTypeOK, LocksInv, NEW s \in Section, NEW r \in Section,
         Owning(s), Owning(r), TargetOf[s] = TargetOf[r]
  PROVE  s = r
<1>1. CASE kind = "session"
  <2>1. PICK c \in Conn : lent[c] = s /\ holds[c][TargetOf[s]] > 0
    BY <1>1 DEF Owning, Owns, Borrowed
  <2>2. PICK d \in Conn : lent[d] = r /\ holds[d][TargetOf[s]] > 0
    BY <1>1 DEF Owning, Owns, Borrowed
  <2>3. c = d
    BY <2>1, <2>2, TargetTypes DEF LocksInv, SessionsAgree
  <2> QED BY <2>1, <2>2, <2>3
<1>2. CASE kind # "session"
  BY <1>2 DEF Owning, Owns
<1> QED BY <1>1, <1>2

\* No step gives a second section the lock of one that has it.
LEMMA NobodyGetsIn ==
  ASSUME LocksTypeOK, LocksInv, [LocksNext]_lockVars,
         NEW s \in Section, Owning(s), NEW r \in Section \ {s}, TargetOf[r] = TargetOf[s],
         InSection(r)'
  PROVE  InSection(r)
<1> SUFFICES ASSUME ~InSection(r) PROVE FALSE
  OBVIOUS
<1> USE DEF LocksTypeOK
<1>1. TryLock(r) \/ TakeKey(r)
  BY DEF LocksNext, lockVars, InSection, Step, PoolAcquire, TryLock, TryFails, TakeKey, TakeKeyUnheard,
         Work, WorkFails, Release, Unlock, UnlockFails, DeleteKey, DeleteKeyFails, Panic, Crash,
         BreakSession, Reap, Expire
<1>2. CASE TryLock(r)
  <2>1. PICK d \in Conn : lent[d] = r /\ \A e \in Conn \ {d} : holds[e][TargetOf[r]] = 0
    BY <1>2 DEF TryLock, Borrowed
  <2>2. kind = "session"
    BY <2>1 DEF LocksInv, LentToOne
  <2>3. PICK c \in Conn : lent[c] = s /\ holds[c][TargetOf[s]] > 0
    BY <2>2 DEF Owning, Owns, Borrowed
  <2> QED BY <2>1, <2>3
<1>3. CASE TakeKey(r)
  BY <1>3, NullAssumption DEF TakeKey, Owning, Owns
<1> QED BY <1>1, <1>2, <1>3

\* No step but expiry and the end of its session takes the lock of a section.
LEMMA KeptInside ==
  ASSUME LocksTypeOK, LocksInv, [LocksNext]_lockVars,
         NEW s \in Section, Owning(s), InSection(s)',
         ~Expire(TargetOf[s]), \A c \in Borrowed(s) : ~BreakSession(c)
  PROVE  Owns(s)'
<1> USE TargetTypes, NullAssumption DEF LocksTypeOK
<1>1. kind' = kind
  BY DEF LocksNext, lockVars, PoolAcquire, TryLock, TryFails, TakeKey, TakeKeyUnheard,
         Work, WorkFails, Release, Unlock, UnlockFails, DeleteKey, DeleteKeyFails, Panic, Crash,
         BreakSession, Reap, Expire
<1>2. CASE kind # "session"
  <2>1. key[TargetOf[s]] = s
    BY <1>2 DEF Owning, Owns
  <2>2. CASE UNCHANGED key
    BY <1>1, <1>2, <2>1, <2>2 DEF Owns
  <2>3. ASSUME NEW r \in Section, TakeKey(r) \/ TakeKeyUnheard(r) PROVE key'[TargetOf[s]] = s
    BY <2>1, <2>3 DEF TakeKey, TakeKeyUnheard
  <2>4. ASSUME NEW r \in Section, DeleteKey(r) \/ Panic(r) PROVE key'[TargetOf[s]] = s
    <3>1. r # s
      BY <2>4 DEF DeleteKey, Panic, Step, InSection
    <3> QED BY <2>1, <2>4, <3>1 DEF DeleteKey, Panic, Drop
  <2>5. ASSUME NEW t \in Target, Expire(t) PROVE key'[TargetOf[s]] = s
    BY <2>1, <2>5 DEF Expire
  <2>6. key'[TargetOf[s]] = s
    BY <2>1, <2>2, <2>3, <2>4, <2>5
    DEF LocksNext, lockVars, PoolAcquire, TryLock, TryFails, Work, WorkFails, Release, Unlock, UnlockFails,
        DeleteKeyFails, Crash, BreakSession, Reap
  <2> QED BY <1>1, <1>2, <2>6 DEF Owns
<1>3. CASE kind = "session"
  <2>1. PICK c \in Conn : lent[c] = s /\ holds[c][TargetOf[s]] > 0
    BY <1>3 DEF Owning, Owns, Borrowed
  <2> DEFINE StillHeld == lent'[c] = s /\ holds'[c][TargetOf[s]] > 0
  <2>2. ASSUME UNCHANGED <<lent, holds>> PROVE StillHeld
    BY <2>1, <2>2
  <2>3. ASSUME NEW r \in Section, PoolAcquire(r) \/ Work(r) PROVE StillHeld
    BY <2>1, <2>3 DEF PoolAcquire, Work, Available, ReturnToPool
  <2>4. ASSUME NEW r \in Section, TryLock(r) PROVE StillHeld
    <3>1. lent' = lent
      BY <2>4 DEF TryLock
    <3>2. PICK d \in Conn : holds' = [holds EXCEPT ![d][TargetOf[r]] = @ + 1]
      BY <2>4 DEF TryLock, Borrowed
    <3>3. holds[c][TargetOf[s]] \in Nat
      OBVIOUS
    <3>4. holds'[c][TargetOf[s]] \in {holds[c][TargetOf[s]], holds[c][TargetOf[s]] + 1}
      <4>1. holds'[c] = IF c = d THEN [holds[c] EXCEPT ![TargetOf[r]] = @ + 1] ELSE holds[c]
        BY <3>2
      <4> QED BY <4>1
    <3> QED BY <2>1, <3>1, <3>3, <3>4
  <2>5. ASSUME NEW r \in Section, TryFails(r) \/ Unlock(r) \/ UnlockFails(r) \/ Panic(r) PROVE StillHeld
    <3>1. r # s
      BY <2>5 DEF TryFails, Unlock, UnlockFails, Panic, Step, InSection
    <3>2. c \notin Borrowed(r)
      BY <2>1, <3>1 DEF Borrowed
    <3>3. CASE TryFails(r)
      BY <2>1, <3>2, <3>3 DEF TryFails, ReturnToPool, Borrowed
    <3>4. CASE Unlock(r)
      BY <2>1, <3>2, <3>4 DEF Unlock, ReturnToPool, Borrowed
    <3>5. CASE UnlockFails(r)
      BY <2>1, <3>2, <3>5 DEF UnlockFails, ReturnToPool, Borrowed, Close
    <3>6. CASE Panic(r)
      BY <2>1, <3>2, <3>6 DEF Panic, Drop, Close
    <3> QED BY <2>5, <3>3, <3>4, <3>5, <3>6
  <2>6. ASSUME NEW p \in Process, Crash(p) PROVE StillHeld
    <3>1. c[1] = ProcessOf(s)
      BY <2>1 DEF LocksInv, LentToOne
    <3>2. ProcessOf(s) # p
      BY <2>6 DEF Crash, InSection
    <3> QED BY <2>1, <2>6, <3>1, <3>2 DEF Crash, Close
  <2>7. ASSUME NEW d \in Conn, BreakSession(d) \/ Reap(d) PROVE StillHeld
    <3>1. d # c
      BY <2>1, <2>7 DEF Borrowed, Reap
    <3> QED BY <2>1, <2>7, <3>1 DEF BreakSession, Reap, Close
  <2>8. ASSUME NEW r \in Section,
               TakeKey(r) \/ TakeKeyUnheard(r) \/ WorkFails(r) \/ DeleteKey(r) \/ DeleteKeyFails(r)
        PROVE  StillHeld
    BY <2>2, <2>8 DEF TakeKey, TakeKeyUnheard, WorkFails, DeleteKey, DeleteKeyFails, pool
  <2>10. ASSUME NEW t \in Target, Expire(t) PROVE StillHeld
    BY <2>2, <2>10 DEF Expire, pool
  <2>11. ASSUME UNCHANGED lockVars PROVE StillHeld
    BY <2>2, <2>11 DEF lockVars
  <2>12. StillHeld
    <3> HIDE DEF StillHeld
    <3> QED BY <2>3, <2>4, <2>5, <2>6, <2>7, <2>8, <2>10, <2>11 DEF LocksNext, Release
  <2>9. c \in Borrowed(s)'
    BY <2>12 DEF Borrowed
  <2> QED BY <1>1, <1>3, <2>9, <2>12 DEF Owns
<1> QED BY <1>2, <1>3

\* While a section that has its lock is inside, no other section gets in, and only the
\* expiry of its key or the end of its session takes the lock from it: for any
\* sections, pools and targets (PostgresLock, MysqlLock, RedisLock, MemoryLock).
THEOREM LocksLeaveHolderAlone == LocksSpec => HolderIsLeftAlone
<1>1. ASSUME LocksTypeOK, LocksInv, [LocksNext]_lockVars,
             NEW s \in Section, InSection(s), Owns(s), InSection(s)'
      PROVE  /\ Owns(s)' \/ Expire(TargetOf[s]) \/ \E c \in Borrowed(s) : BreakSession(c)
             /\ \A r \in Section \ {s} :
                   TargetOf[r] = TargetOf[s] /\ InSection(r)' => InSection(r)
  <2>1. Owning(s)
    BY <1>1 DEF Owning
  <2> QED BY <1>1, <2>1, KeptInside, NobodyGetsIn
<1> DEFINE Alone ==
       \A s \in Section : InSection(s) /\ Owns(s) /\ InSection(s)' =>
          /\ Owns(s)' \/ Expire(TargetOf[s]) \/ \E c \in Borrowed(s) : BreakSession(c)
          /\ \A r \in Section \ {s} :
                TargetOf[r] = TargetOf[s] /\ InSection(r)' => InSection(r)
<1>2. LocksTypeOK /\ LocksInv /\ [LocksNext]_lockVars => [Alone]_lockVars
  BY <1>1
<1> QED BY <1>2, Invariance, PTL DEF LocksSpec, HolderIsLeftAlone

\* The holder of a lock is the section that owns it.
HolderIsOwner ==
    /\ \A s \in Section : Owning(s) => Holder(TargetOf[s]) = s
    /\ \A t : (\A s \in Section : TargetOf[s] = t => ~Owning(s)) => Holder(t) = Nobody

\* The holder that Locks shows to the contract is the section that owns the lock.
LEMMA HolderOwns == LocksTypeOK /\ LocksInv => HolderIsOwner
<1> SUFFICES ASSUME LocksTypeOK, LocksInv PROVE HolderIsOwner
  OBVIOUS
<1>1. ASSUME NEW s \in Section, Owning(s) PROVE Holder(TargetOf[s]) = s
  <2> DEFINE S == {r \in Section : TargetOf[r] = TargetOf[s] /\ InSection(r) /\ Owns(r)}
  <2>1. s \in S /\ \A r \in S : r = s
    BY <1>1, OneOwner DEF Owning
  <2>2. Holder(TargetOf[s]) = IF S = {} THEN Nobody ELSE CHOOSE r \in S : TRUE
    BY DEF Holder
  <2> QED BY <2>1, <2>2
<1>2. ASSUME NEW t, \A s \in Section : TargetOf[s] = t => ~Owning(s) PROVE Holder(t) = Nobody
  BY <1>2 DEF Holder, Owning
<1> QED BY <1>1, <1>2 DEF HolderIsOwner

\* The same after a step.
LEMMA HolderOwnsNext == LocksTypeOK' /\ LocksInv' => HolderIsOwner'
BY HolderOwns, PTL

\* A step after which the same sections are inside and own the same locks shows nothing.
LEMMA ContractStutter ==
  ASSUME HolderIsOwner, HolderIsOwner',
         \A s \in Section : (InSection(s)' <=> InSection(s)) /\ (Owning(s)' <=> Owning(s))
  PROVE  UNCHANGED Contract!vars
<1>1. \A t \in {TargetOf[s] : s \in Section} : Holder(t)' = Holder(t)
  BY DEF HolderIsOwner, TargetOf
<1> QED BY <1>1 DEF Contract!vars, TargetOf

\* A section that goes in and is the only one to own its lock was granted it.
LEMMA ContractGrant ==
  ASSUME HolderIsOwner, HolderIsOwner', NEW s \in Section, ~InSection(s),
         \A r \in Section : TargetOf[r] = TargetOf[s] => ~Owning(r),
         Owning(s)',
         \A r \in Section : (InSection(r)' <=> InSection(r) \/ r = s)
                            /\ (Owning(r)' <=> Owning(r) \/ r = s)
  PROVE  Contract!Grant(s)
<1>1. Holder(TargetOf[s]) = Nobody
  BY DEF HolderIsOwner
<1>2. ASSUME NEW t \in {TargetOf[r] : r \in Section}
      PROVE  Holder(t)' = IF t = TargetOf[s] THEN s ELSE Holder(t)
  BY <1>2 DEF HolderIsOwner, TargetOf
<1>3. TargetOf[s] \in {TargetOf[r] : r \in Section}
  OBVIOUS
<1> QED BY <1>1, <1>2, <1>3 DEF Contract!Grant, TargetOf

\* Sections that go out leave their locks.
LEMMA ContractLeave ==
  ASSUME HolderIsOwner, HolderIsOwner', NEW S \in SUBSET Section,
         \A r \in S : InSection(r),
         \A r \in Section : (InSection(r)' <=> InSection(r) /\ r \notin S)
                            /\ (Owning(r)' <=> Owning(r) /\ r \notin S)
  PROVE  Contract!Next
<1>1. ASSUME NEW t \in {TargetOf[r] : r \in Section}
      PROVE  Holder(t)' = IF Holder(t) \in S THEN Nobody ELSE Holder(t)
  <2>1. CASE \E r \in Section : TargetOf[r] = t /\ Owning(r)
    BY <2>1 DEF HolderIsOwner
  <2>2. CASE \A r \in Section : TargetOf[r] = t => ~Owning(r)
    BY <2>2, NullAssumption DEF HolderIsOwner
  <2> QED BY <2>1, <2>2
<1>2. Contract!Leave(S)
  BY <1>1 DEF Contract!Leave, Contract!Name, TargetOf
<1>3. S \in SUBSET {r \in Section : InSection(r)}
  OBVIOUS
<1> QED BY <1>2, <1>3 DEF Contract!Next

\* The owner of the lock of t loses it.
LEMMA ContractLose ==
  ASSUME HolderIsOwner, HolderIsOwner', NEW s \in Section,
         \A r \in Section : (InSection(r)' <=> InSection(r))
                            /\ (Owning(r)' <=> Owning(r) /\ TargetOf[r] # TargetOf[s])
  PROVE  Contract!Next
<1>1. ASSUME NEW t \in {TargetOf[r] : r \in Section}
      PROVE  Holder(t)' = IF t = TargetOf[s] THEN Nobody ELSE Holder(t)
  BY <1>1 DEF HolderIsOwner, TargetOf
<1>2. Contract!Lose(TargetOf[s])
  BY <1>1 DEF Contract!Lose, TargetOf
<1>3. TargetOf[s] \in Contract!Name
  BY DEF Contract!Name
<1> QED BY <1>2, <1>3 DEF Contract!Next

\* Every step of the locks is one of the contract, or shows nothing.
LEMMA ContractStep ==
  /\ LocksTypeOK /\ LocksInv /\ LocksTypeOK' /\ LocksInv' /\ [LocksNext]_lockVars
  => [Contract!Next]_(Contract!vars)
<1> SUFFICES ASSUME LocksTypeOK, LocksInv, LocksTypeOK', LocksInv', [LocksNext]_lockVars
             PROVE  [Contract!Next]_(Contract!vars)
  OBVIOUS
<1> DEFINE Goal == Contract!Next \/ UNCHANGED Contract!vars
<1>a. HolderIsOwner /\ HolderIsOwner'
  BY HolderOwns, HolderOwnsNext
<1>b. ASSUME NEW s \in Section PROVE Contract!Grant(s) => Contract!Next
  BY DEF Contract!Next
<1> USE TargetTypes, NullAssumption DEF LocksTypeOK, Owning, InSection, Owns, Borrowed
<1>1. ASSUME UNCHANGED lockVars PROVE Goal
  BY <1>1, <1>a, ContractStutter DEF lockVars
<1>2. ASSUME NEW s \in Section, PoolAcquire(s) PROVE Goal
  <2>1. PICK c \in Conn : lent[c] \notin Section /\ lent' = [lent EXCEPT ![c] = s]
    BY <1>2 DEF PoolAcquire, Available
  <2>2. stage[s] = "idle" /\ stage' = [stage EXCEPT ![s] = "trying"] /\ kind = "session"
        /\ kind' = kind /\ holds' = holds
    BY <1>2 DEF PoolAcquire, Step
  <2>3. \A r \in Section : (InSection(r)' <=> InSection(r)) /\ (Owning(r)' <=> Owning(r))
    BY <2>1, <2>2
  <2> QED BY <1>a, <2>3, ContractStutter
<1>3. ASSUME NEW s \in Section, TryLock(s) PROVE Goal
  <2>1. PICK c \in Conn :
           /\ lent[c] = s
           /\ \A d \in Conn \ {c} : holds[d][TargetOf[s]] = 0
           /\ holds' = [holds EXCEPT ![c][TargetOf[s]] = @ + 1]
    BY <1>3 DEF TryLock
  <2>2. stage[s] = "trying" /\ stage' = [stage EXCEPT ![s] = "inside"] /\ kind' = kind
        /\ lent' = lent /\ kind = "session"
    BY <1>3, <2>1 DEF TryLock, Step, LocksInv, LentToOne
  <2>3. ASSUME NEW r \in Section, TargetOf[r] = TargetOf[s] PROVE ~Owning(r)
    BY <2>1, <2>2, <2>3
  <2>4. Owning(s)'
    <3>1. holds'[c][TargetOf[s]] > 0
      BY <2>1
    <3> QED BY <2>1, <2>2, <3>1
  <2>5. ASSUME NEW r \in Section
        PROVE  (InSection(r)' <=> InSection(r) \/ r = s) /\ (Owning(r)' <=> Owning(r) \/ r = s)
    <3>1. r # s => \A d \in Conn : lent[d] = r => holds'[d] = holds[d]
      BY <2>1
    <3> QED BY <2>2, <2>4, <3>1
  <2> QED BY <1>a, <1>b, <2>2, <2>3, <2>4, <2>5, ContractGrant
<1>4. ASSUME NEW s \in Section, TryFails(s) PROVE Goal
  <2>1. stage[s] = "trying" /\ stage' = [stage EXCEPT ![s] = "idle"] /\ kind' = kind
        /\ holds' = holds /\ key' = key
        /\ \E c \in Conn : lent[c] = s /\ lent' = [lent EXCEPT ![c] = InPool]
    BY <1>4 DEF TryFails, Step, ReturnToPool
  <2>2. \A r \in Section : (InSection(r)' <=> InSection(r)) /\ (Owning(r)' <=> Owning(r))
    BY <2>1
  <2> QED BY <1>a, <2>2, ContractStutter
<1>5. ASSUME NEW s \in Section, TakeKey(s) PROVE Goal
  <2>1. kind # "session" /\ kind' = kind /\ stage[s] = "idle" /\ key[TargetOf[s]] = Nobody
        /\ stage' = [stage EXCEPT ![s] = "inside"] /\ key' = [key EXCEPT ![TargetOf[s]] = s]
    BY <1>5 DEF TakeKey, Step
  <2>2. \A r \in Section : TargetOf[r] = TargetOf[s] => ~Owning(r)
    BY <2>1
  <2>3. Owning(s)'
    BY <2>1
  <2>4. \A r \in Section :
           (InSection(r)' <=> InSection(r) \/ r = s) /\ (Owning(r)' <=> Owning(r) \/ r = s)
    BY <2>1
  <2> QED BY <1>a, <1>b, <2>1, <2>2, <2>3, <2>4, ContractGrant
<1>6. ASSUME NEW s \in Section, TakeKeyUnheard(s) PROVE Goal
  <2>1. kind = "key" /\ kind' = kind /\ stage[s] = "idle" /\ key[TargetOf[s]] = Nobody
        /\ stage' = stage /\ key' = [key EXCEPT ![TargetOf[s]] = s]
    BY <1>6 DEF TakeKeyUnheard
  <2>2. \A r \in Section : (InSection(r)' <=> InSection(r)) /\ (Owning(r)' <=> Owning(r))
    BY <2>1
  <2> QED BY <1>a, <2>2, ContractStutter
<1>7. ASSUME NEW s \in Section, Work(s) \/ WorkFails(s) PROVE Goal
  <2>1. stage[s] = "inside" /\ stage' = [stage EXCEPT ![s] = "done"] /\ kind' = kind
        /\ holds' = holds /\ key' = key
    BY <1>7 DEF Work, WorkFails, Step, pool
  <2>2. lent' = lent \/ \E c \in Conn : lent[c] \notin Section /\ lent' = [lent EXCEPT ![c] = InPool]
    BY <1>7 DEF Work, WorkFails, ReturnToPool, Available, pool
  <2>3. \A r \in Section : (InSection(r)' <=> InSection(r)) /\ (Owning(r)' <=> Owning(r))
    BY <2>1, <2>2
  <2> QED BY <1>a, <2>3, ContractStutter
<1>8. ASSUME NEW s \in Section, Unlock(s) \/ UnlockFails(s) PROVE Goal
  <2>1. stage[s] = "done" /\ kind = "session" /\ kind' = kind
        /\ stage' = [stage EXCEPT ![s] = "idle"]
    BY <1>8 DEF Unlock, UnlockFails, Step
  <2>2. \A c \in Conn, r \in Section : r # s =>
           /\ lent'[c] = r <=> lent[c] = r
           /\ lent[c] = r => holds'[c] = holds[c]
    BY <1>8 DEF Unlock, UnlockFails, ReturnToPool, Close
  <2>3. \A r \in Section : (InSection(r)' <=> InSection(r) /\ r \notin {s})
                           /\ (Owning(r)' <=> Owning(r) /\ r \notin {s})
    BY <2>1, <2>2
  <2>5. {s} \in SUBSET Section /\ \A r \in {s} : InSection(r)
    BY <2>1
  <2> QED BY <1>a, <2>3, <2>5, ContractLeave
<1>9. ASSUME NEW s \in Section, DeleteKey(s) \/ DeleteKeyFails(s) PROVE Goal
  <2>1. stage[s] = "done" /\ kind # "session" /\ kind' = kind
        /\ stage' = [stage EXCEPT ![s] = "idle"]
    BY <1>9 DEF DeleteKey, DeleteKeyFails, Step
  <2>2. key' = key \/ (key[TargetOf[s]] = s /\ key' = [key EXCEPT ![TargetOf[s]] = Nobody])
    BY <1>9 DEF DeleteKey, DeleteKeyFails
  <2>3. \A r \in Section : (InSection(r)' <=> InSection(r) /\ r \notin {s})
                           /\ (Owning(r)' <=> Owning(r) /\ r \notin {s})
    BY <2>1, <2>2
  <2>5. {s} \in SUBSET Section /\ \A r \in {s} : InSection(r)
    BY <2>1
  <2> QED BY <1>a, <2>3, <2>5, ContractLeave
<1>10. ASSUME NEW s \in Section, Panic(s) PROVE Goal
  <2>1. stage[s] = "inside" /\ kind' = kind /\ stage' = [stage EXCEPT ![s] = "idle"]
    BY <1>10 DEF Panic, Step
  <2>2. key' = key \/ (key[TargetOf[s]] = s /\ key' = [key EXCEPT ![TargetOf[s]] = Nobody])
    BY <1>10 DEF Panic, Drop
  <2>3. \A c \in Conn, r \in Section : r # s =>
           /\ lent'[c] = r <=> lent[c] = r
           /\ lent[c] = r => holds'[c] = holds[c]
    BY <1>10 DEF Panic, Drop, Close
  <2>4. \A r \in Section : (InSection(r)' <=> InSection(r) /\ r \notin {s})
                           /\ (Owning(r)' <=> Owning(r) /\ r \notin {s})
    BY <2>1, <2>2, <2>3
  <2>5. {s} \in SUBSET Section /\ \A r \in {s} : InSection(r)
    BY <2>1
  <2> QED BY <1>a, <2>4, <2>5, ContractLeave
<1>11. ASSUME NEW p \in Process, Crash(p) PROVE Goal
  <2> DEFINE S == {s \in Section : ProcessOf(s) = p /\ InSection(s)}
  <2>1. kind' = kind /\ key' = key /\ Close({c \in Conn : c[1] = p})
        /\ stage' = [s \in Section |-> IF ProcessOf(s) = p THEN "idle" ELSE stage[s]]
    BY <1>11 DEF Crash
  <2>2. \A c \in Conn, r \in Section : ProcessOf(r) # p =>
           /\ lent'[c] = r <=> lent[c] = r
           /\ lent[c] = r => holds'[c] = holds[c]
    BY <2>1 DEF Close, LocksInv, LentToOne
  <2>3. \A r \in Section : (InSection(r)' <=> InSection(r) /\ r \notin S)
                           /\ (Owning(r)' <=> Owning(r) /\ r \notin S)
    BY <2>1, <2>2
  <2> QED BY <1>a, <2>3, ContractLeave
<1>12. ASSUME NEW c \in Conn, BreakSession(c) PROVE Goal
  <2>1. /\ kind' = kind /\ stage' = stage /\ key' = key
        /\ holds' = [holds EXCEPT ![c] = Unlocked]
        /\ \A d \in Conn, r \in Section : lent'[d] = r <=> lent[d] = r
    BY <1>12 DEF BreakSession
  <2>2. \A t \in Target : holds'[c][t] = 0
    BY <2>1 DEF Unlocked
  <2>3. CASE \A s \in Section : lent[c] = s => ~Owning(s)
    <3>1. \A r \in Section : (InSection(r)' <=> InSection(r)) /\ (Owning(r)' <=> Owning(r))
      BY <2>1, <2>2, <2>3
    <3> QED BY <1>a, <3>1, ContractStutter
  <2>4. ASSUME NEW s \in Section, lent[c] = s, Owning(s) PROVE Goal
    <3>1. kind = "session" /\ \A d \in Conn : lent[d] = s => d = c
      BY <2>4 DEF LocksInv, LentToOne
    <3>2. \A r \in Section : Owning(r) /\ TargetOf[r] = TargetOf[s] => r = s
      BY <2>4, OneOwner
    <3>3. ASSUME NEW r \in Section
          PROVE  (InSection(r)' <=> InSection(r))
                 /\ (Owning(r)' <=> Owning(r) /\ TargetOf[r] # TargetOf[s])
      BY <2>1, <2>2, <2>4, <3>1, <3>2
    <3> QED BY <1>a, <3>3, ContractLose
  <2> QED BY <2>3, <2>4
<1>13. ASSUME NEW c \in Conn, Reap(c) PROVE Goal
  <2>1. kind' = kind /\ stage' = stage /\ key' = key
        /\ \A d \in Conn, r \in Section : /\ lent'[d] = r <=> lent[d] = r
                                          /\ lent[d] = r => holds'[d] = holds[d]
    BY <1>13 DEF Reap, Close
  <2>2. \A r \in Section : (InSection(r)' <=> InSection(r)) /\ (Owning(r)' <=> Owning(r))
    BY <2>1
  <2> QED BY <1>a, <2>2, ContractStutter
<1>14. ASSUME NEW t \in Target, Expire(t) PROVE Goal
  <2>1. kind = "key" /\ kind' = kind /\ stage' = stage /\ key' = [key EXCEPT ![t] = Nobody]
    BY <1>14 DEF Expire
  <2>2. \A r \in Section : (InSection(r)' <=> InSection(r))
                           /\ (Owning(r)' <=> Owning(r) /\ TargetOf[r] # t)
    BY <2>1
  <2>3. ASSUME NEW s \in Section, TargetOf[s] = t PROVE Goal
    <3>1. \A r \in Section : (InSection(r)' <=> InSection(r))
                             /\ (Owning(r)' <=> Owning(r) /\ TargetOf[r] # TargetOf[s])
      BY <2>2, <2>3
    <3> QED BY <1>a, <3>1, ContractLose
  <2>4. CASE \A s \in Section : TargetOf[s] # t
    BY <1>a, <2>2, <2>4, ContractStutter
  <2> QED BY <2>3, <2>4
<1> QED
  BY <1>1, <1>2, <1>3, <1>4, <1>5, <1>6, <1>7, <1>8, <1>9, <1>10, <1>11, <1>12, <1>13, <1>14
  DEF LocksNext, Release

\* The locks of all backends implement the contract of the trait Lock: for any number
\* of processes, services and connections (backend.rs, postgres.rs, mysql.rs, redis.rs,
\* memory.rs).
THEOREM LocksKeepContract == LocksSpec => KeepsLockContract
<1>1. LocksInit => Contract!Init
  BY NullAssumption DEF LocksInit, Contract!Init, Contract!Name, InSection, Holder, TargetOf
<1>2. /\ LocksTypeOK /\ LocksInv /\ LocksTypeOK' /\ LocksInv' /\ [LocksNext]_lockVars
      => [Contract!Next]_(Contract!vars)
  BY ContractStep
<1> QED BY <1>1, <1>2, Invariance, PTL DEF LocksSpec, KeepsLockContract, Contract!Spec

-----------------------------------------------------------------------------
(* Events: for any events, listeners, clocks and capacities.               *)

\* Events in a sequence are in the order of their stamps.
Ordered(st, q) == \A i, j \in 1 .. Len(q) : i < j => st[q[i]] < st[q[j]]

StampsShape == \A e \in stored : stamp[e] \in Time

\* A listener has an offset from its first subscription on.
OffsetsShape ==
    \A l \in Listener :
       /\ from[l] <= offset[l] /\ (from[l] = Never => offset[l] = Never)
       /\ offset[l] = Never => l \notin open
       /\ bridge # "pubsub" /\ offset[l] # Never => l \in open

\* What was yielded lies behind the offset, in order.
GotShape ==
    \A l \in Listener :
       /\ Ordered(stamp, got[l])
       /\ \A i \in 1 .. Len(got[l]) : got[l][i] \in stored /\ stamp[got[l][i]] <= offset[l]

\* What a channel holds for a listener lies ahead of its offset, in order, and
\* it holds all of that except for what it pushed out.
BufShape ==
    \A l \in Listener :
       /\ bridge = "table" \/ l \notin open => buf[l] = <<>>
       /\ Ordered(stamp, buf[l])
       /\ \A i \in 1 .. Len(buf[l]) : buf[l][i] \in stored /\ offset[l] < stamp[buf[l][i]]

ChannelShape ==
    bridge # "table" =>
       /\ \A e \in stored : stamp[e] <= now
       /\ \A l \in Listener : offset[l] <= now
       /\ \A l \in open, e \in stored :
             offset[l] < stamp[e] /\ <<l, e>> \notin lost => \E i \in 1 .. Len(buf[l]) : buf[l][i] = e

Passed(l, e) ==
    /\ from[l] # Never /\ from[l] < stamp[e] /\ stamp[e] <= offset[l]
    /\ Decodable(e) /\ <<l, e>> \notin lost

HeardIn(q, e) == \E i \in 1 .. Len(q) : stamp[q[i]] = stamp[e]

AllHeard == \A l \in Listener : \A e \in stored : Passed(l, e) => HeardIn(got[l], e)

EventsInv == StampsShape /\ OffsetsShape /\ GotShape /\ BufShape /\ ChannelShape /\ AllHeard

-----------------------------------------------------------------------------
(* Sequences.                                                              *)

\* An ordered sequence stays ordered when a later event is appended.
LEMMA AppendOrdered ==
  ASSUME NEW st \in [Event -> Time \cup {Never}], NEW q \in Seq(Event), NEW e \in Event,
         Ordered(st, q), \A i \in 1 .. Len(q) : st[q[i]] < st[e]
  PROVE  /\ Append(q, e) \in Seq(Event)
         /\ Len(Append(q, e)) = Len(q) + 1
         /\ \A i \in 1 .. Len(q) : Append(q, e)[i] = q[i]
         /\ Append(q, e)[Len(q) + 1] = e
         /\ Ordered(st, Append(q, e))
BY DEF Ordered

\* Taking the first event leaves an ordered sequence of later ones.
LEMMA TailOrdered ==
  ASSUME NEW st \in [Event -> Time \cup {Never}], NEW q \in Seq(Event), q # <<>>, Ordered(st, q)
  PROVE  /\ Tail(q) \in Seq(Event) /\ Head(q) = q[1] /\ 1 \in 1 .. Len(q) /\ Head(q) \in Event
         /\ Len(Tail(q)) = Len(q) - 1
         /\ \A i \in 1 .. Len(Tail(q)) : i + 1 \in 2 .. Len(q) /\ Tail(q)[i] = q[i + 1]
         /\ \A i \in 2 .. Len(q) : i - 1 \in 1 .. Len(Tail(q)) /\ Tail(q)[i - 1] = q[i]
         /\ \A i \in 1 .. Len(Tail(q)) : st[Head(q)] < st[Tail(q)[i]]
         /\ Ordered(st, Tail(q))
<1>1. Len(q) \in Nat /\ Len(q) >= 1
  BY EmptySeq
<1>2. /\ Tail(q) \in Seq(Event) /\ Head(q) = q[1] /\ Len(Tail(q)) = Len(q) - 1
      /\ \A i \in 1 .. Len(q) - 1 : Tail(q)[i] = q[i + 1]
      /\ \A i \in 1 .. Len(q) : q[i] \in Event
  BY <1>1
<1>3. \A i \in 1 .. Len(Tail(q)) : st[Head(q)] < st[Tail(q)[i]]
  BY <1>1, <1>2 DEF Ordered
<1>4. Ordered(st, Tail(q))
  BY <1>1, <1>2 DEF Ordered
<1> QED BY <1>1, <1>2, <1>3, <1>4

\* What is yielded stays a sequence of events.
LEMMA AppendType ==
  ASSUME got \in [Listener -> Seq(Event)], NEW l \in Listener, NEW e \in Event
  PROVE  [got EXCEPT ![l] = Append(@, e)] \in [Listener -> Seq(Event)]
<1>1. got[l] \in Seq(Event)
  OBVIOUS
<1>2. Append(got[l], e) \in Seq(Event)
  BY <1>1
<1> QED BY <1>2

-----------------------------------------------------------------------------
\* The rows a listener reads lie ahead of its offset.
LEMMA RowsAhead ==
  ASSUME EventsTypeOK, NEW l \in Listener
  PROVE  \A e \in Rows(l) : e \in stored /\ e \in Event /\ stamp[e] \in Time /\ offset[l] < stamp[e]
<1>1. offset[l] \in Int /\ offset[l] >= Never
  BY TimeAssumption DEF EventsTypeOK, Time, Never
<1>2. \A e \in stored : e \in Event /\ stamp[e] \in Time \cup {Never}
  BY DEF EventsTypeOK
<1> QED BY <1>1, <1>2 DEF Rows, Never

\* In the beginning nothing is stored and nobody listens.
LEMMA EventsStart == EventsInit => EventsTypeOK /\ EventsInv
BY TimeAssumption
DEF EventsInit, EventsTypeOK, EventsInv, StampsShape, OffsetsShape, GotShape, BufShape,
    ChannelShape, AllHeard, Ordered, Time, Never

\* Every step keeps every variable in its type.
LEMMA EventsTypes == EventsTypeOK /\ [EventsNext]_eventVars => EventsTypeOK'
<1> SUFFICES ASSUME EventsTypeOK, [EventsNext]_eventVars PROVE EventsTypeOK'
  OBVIOUS
<1> USE TimeAssumption DEF EventsTypeOK, history
<1>1. CASE UNCHANGED eventVars
  BY <1>1 DEF eventVars
<1>2. ASSUME NEW l \in Listener, Subscribe(l) PROVE EventsTypeOK'
  BY <1>2 DEF Subscribe, ClockTime
<1>3. ASSUME NEW e \in Event, Stamp(e) PROVE EventsTypeOK'
  BY <1>3 DEF Stamp, ClockTime
<1>4. ASSUME NEW e \in Event, Insert(e) PROVE EventsTypeOK'
  BY <1>4 DEF Insert
<1>5. ASSUME NEW l \in Listener, Fetch(l) PROVE EventsTypeOK'
  <2>1. \A e \in Rows(l) : e \in Event /\ stamp[e] \in Time
    BY RowsAhead
  <2>2. got' = got \/ \E e \in Event : got' = [got EXCEPT ![l] = Append(@, e)]
    BY <1>5, <2>1 DEF Fetch, FirstOf
  <2>3. got' \in [Listener -> Seq(Event)]
    <3>1. \A e \in Event : [got EXCEPT ![l] = Append(@, e)] \in [Listener -> Seq(Event)]
      BY AppendType
    <3> QED BY <2>2, <3>1
  <2>4. offset' \in [Listener -> Time \cup {Never}]
    BY <1>5, <2>1 DEF Fetch, FirstOf
  <2> QED BY <1>5, <2>3, <2>4 DEF Fetch
<1>6. CASE Tick
  BY <1>6 DEF Tick, Time
<1>7. ASSUME NEW e \in Event, Publish(e) PROVE EventsTypeOK'
  <2>1. \A l \in Listener : Kept(Append(buf[l], e)) \in Seq(Event)
    <3>1. ASSUME NEW l \in Listener PROVE Kept(Append(buf[l], e)) \in Seq(Event)
      <4>1. buf[l] \in Seq(Event)
        OBVIOUS
      <4>2. Append(buf[l], e) \in Seq(Event) /\ Append(buf[l], e) # <<>>
        <5>1. Append(buf[l], e) \in Seq(Event) /\ Len(Append(buf[l], e)) = Len(buf[l]) + 1
              /\ Len(buf[l]) \in Nat
          BY <4>1
        <5>2. \A q : q = <<>> => Len(q) = 0
          OBVIOUS
        <5>3. Len(Append(buf[l], e)) # 0
          BY <5>1
        <5> HIDE DEF EventsTypeOK
        <5> QED BY <5>1, <5>2, <5>3
      <4>3. Tail(Append(buf[l], e)) \in Seq(Event)
        BY <4>2
      <4> QED BY <4>2, <4>3 DEF Kept
    <3> QED BY <3>1
  <2>2. \A l \in open : Kept(Append(buf[l], e)) # Append(buf[l], e) => Head(buf[l]) \in Event
    <3>1. ASSUME NEW l \in open, Kept(Append(buf[l], e)) # Append(buf[l], e)
          PROVE  Head(buf[l]) \in Event
      <4>1. buf[l] \in Seq(Event) /\ Len(Append(buf[l], e)) = Len(buf[l]) + 1
        OBVIOUS
      <4>2. Len(buf[l]) + 1 > Capacity
        BY <3>1, <4>1 DEF Kept
      <4>3. buf[l] # <<>>
        BY <4>1, <4>2
      <4> QED BY <4>1, <4>3
    <3> QED BY <3>1
  <2>3. buf' \in [Listener -> Seq(Event)]
    BY <1>7, <2>1 DEF Publish
  <2>4. lost' \in SUBSET (Listener \X Event)
    BY <1>7, <2>2 DEF Publish
  <2>5. now' \in Time /\ stamp' \in [Event -> Time \cup {Never}]
    BY <1>7 DEF Publish, Time
  <2> QED BY <1>7, <2>3, <2>4, <2>5 DEF Publish
<1>8. ASSUME NEW l \in Listener, Take(l) PROVE EventsTypeOK'
  <2>1. Head(buf[l]) \in Event /\ Tail(buf[l]) \in Seq(Event)
    BY <1>8 DEF Take
  <2>2. got' = got \/ got' = [got EXCEPT ![l] = Append(@, Head(buf[l]))]
    BY <1>8 DEF Take
  <2>3. got' \in [Listener -> Seq(Event)]
    <3>1. [got EXCEPT ![l] = Append(@, Head(buf[l]))] \in [Listener -> Seq(Event)]
      BY <2>1, AppendType
    <3> QED BY <2>2, <3>1
  <2> QED BY <1>8, <2>1, <2>3 DEF Take
<1>9. ASSUME NEW l \in Listener, End(l) PROVE EventsTypeOK'
  BY <1>9 DEF End
<1> QED BY <1>1, <1>2, <1>3, <1>4, <1>5, <1>6, <1>7, <1>8, <1>9 DEF EventsNext

-----------------------------------------------------------------------------
(* The invariant is kept.                                                  *)

\* What the types say about one listener and one event.
LEMMA Facts ==
  ASSUME EventsTypeOK
  PROVE  /\ now \in Int /\ now >= 0
         /\ \A e \in Event : stamp[e] \in Int /\ stamp[e] >= -1
         /\ stored \subseteq Event /\ open \subseteq Listener
         /\ \A l \in Listener :
               /\ offset[l] \in Int /\ offset[l] >= -1 /\ from[l] \in Int /\ from[l] >= -1
               /\ buf[l] \in Seq(Event) /\ Len(buf[l]) \in Nat
               /\ got[l] \in Seq(Event) /\ Len(got[l]) \in Nat
<1>1. \A t \in Time \cup {Never} : t \in Int /\ t >= -1
  BY TimeAssumption DEF Time, Never
<1>2. now \in Int /\ now >= 0
  BY TimeAssumption DEF EventsTypeOK, Time
<1>3. \A e \in Event : stamp[e] \in Int /\ stamp[e] >= -1
  BY <1>1 DEF EventsTypeOK
<1>4. \A l \in Listener : /\ offset[l] \in Int /\ offset[l] >= -1
                         /\ from[l] \in Int /\ from[l] >= -1
  BY <1>1 DEF EventsTypeOK
<1>5. \A l \in Listener : buf[l] \in Seq(Event) /\ got[l] \in Seq(Event)
  BY DEF EventsTypeOK
<1>6. \A q \in Seq(Event) : Len(q) \in Nat
  OBVIOUS
<1> QED BY <1>2, <1>3, <1>4, <1>5, <1>6 DEF EventsTypeOK

\* A new stream has nothing behind it: neither yielded nor waiting.
LEMMA SubscribeKeeps ==
  ASSUME EventsTypeOK, EventsInv, NEW l \in Listener, Subscribe(l)
  PROVE  EventsInv'
<1>1. PICK t \in Time :
         /\ offset[l] = -1 /\ offset' = [offset EXCEPT ![l] = t] /\ from' = [from EXCEPT ![l] = t]
         /\ open' = open \cup {l}
         /\ bridge # "table" => t = now
         /\ UNCHANGED <<bridge, now, stamp, stored, buf, got, lost>>
  BY DEF Subscribe, ClockTime, EventsTypeOK, Never
<1>2. t \in Int /\ t >= 0
  BY TimeAssumption DEF Time
<1>3. l \notin open /\ from[l] <= -1
  BY <1>1 DEF EventsInv, OffsetsShape, Never
<1>4. \A m \in Listener : /\ offset'[m] = IF m = l THEN t ELSE offset[m]
                          /\ from'[m] = IF m = l THEN t ELSE from[m]
  BY <1>1 DEF EventsTypeOK
<1>5. got[l] = <<>> /\ Len(got[l]) = 0 /\ buf[l] = <<>> /\ Len(buf[l]) = 0
  <2>1. \A i \in 1 .. Len(got[l]) : got[l][i] \in stored /\ stamp[got[l][i]] <= -1
    BY <1>1 DEF EventsInv, GotShape
  <2>2. \A e \in stored : stamp[e] >= 0 /\ stamp[e] \in Int
    BY TimeAssumption DEF EventsInv, StampsShape, Time
  <2>3. Len(got[l]) \in Nat /\ got[l] \in Seq(Event)
    BY Facts
  <2>4. Len(got[l]) = 0
    <3>1. SUFFICES ASSUME Len(got[l]) # 0 PROVE FALSE
      OBVIOUS
    <3>2. 1 \in 1 .. Len(got[l])
      BY <2>3, <3>1
    <3>3. stamp[got[l][1]] <= -1 /\ stamp[got[l][1]] >= 0 /\ stamp[got[l][1]] \in Int
      BY <2>1, <2>2, <3>2
    <3> QED BY <3>3
  <2> QED BY <1>3, <2>3, <2>4, EmptySeq DEF EventsInv, BufShape
<1>6. StampsShape' /\ OffsetsShape'
  <2>1. StampsShape'
    BY <1>1 DEF EventsInv, StampsShape
  <2>2. OffsetsShape'
    BY <1>1, <1>2, <1>4, Facts DEF EventsInv, OffsetsShape, Never
  <2> QED BY <2>1, <2>2
<1>7. GotShape'
  BY <1>1, <1>4, <1>5 DEF EventsInv, GotShape, Ordered
<1>8. BufShape'
  BY <1>1, <1>4, <1>5 DEF EventsInv, BufShape, Ordered
<1>9. ChannelShape'
  BY <1>1, <1>2, <1>4, Facts DEF EventsInv, ChannelShape
<1>10. AllHeard'
  BY <1>1, <1>2, <1>4, Facts DEF EventsInv, AllHeard, Passed, HeardIn, Decodable
<1> QED BY <1>6, <1>7, <1>8, <1>9, <1>10 DEF EventsInv

\* Stamping an event changes nothing that is stored, so nothing that was read.
LEMMA StampKeeps ==
  ASSUME EventsTypeOK, EventsInv, NEW e \in Event, Stamp(e)
  PROVE  EventsInv'
<1>1. /\ bridge = "table" /\ stamp[e] = -1
      /\ \E t \in Time : stamp' = [stamp EXCEPT ![e] = t]
      /\ UNCHANGED <<bridge, now, stored, open, offset, from, buf, got, lost>>
  BY DEF Stamp, ClockTime, Never
<1>2. e \notin stored
  BY <1>1, TimeAssumption DEF EventsInv, StampsShape, Time
<1>3. \A f \in stored : stamp'[f] = stamp[f]
  BY <1>1, <1>2 DEF EventsTypeOK
<1>4. \A l \in Listener : buf[l] = <<>> /\ Len(buf[l]) = 0
  BY <1>1 DEF EventsInv, BufShape
<1>5. StampsShape' /\ OffsetsShape' /\ ChannelShape'
  BY <1>1, <1>3 DEF EventsInv, StampsShape, OffsetsShape, ChannelShape
<1>6. GotShape'
  BY <1>1, <1>3 DEF EventsInv, GotShape, Ordered
<1>7. BufShape'
  BY <1>1, <1>4 DEF EventsInv, BufShape, Ordered
<1>8. AllHeard'
  BY <1>1, <1>3 DEF EventsInv, AllHeard, GotShape, Passed, HeardIn, Decodable
<1> QED BY <1>5, <1>6, <1>7, <1>8 DEF EventsInv

\* A row that appears behind the offset of a stream is lost for it.
LEMMA InsertKeeps ==
  ASSUME EventsTypeOK, EventsInv, NEW e \in Event, Insert(e)
  PROVE  EventsInv'
<1>1. /\ bridge = "table" /\ stamp[e] # -1 /\ stored' = stored \cup {e}
      /\ \A l \in open : stamp[e] <= offset[l] => <<l, e>> \in lost'
      /\ lost \subseteq lost'
      /\ UNCHANGED <<bridge, now, stamp, open, offset, from, buf, got>>
  BY DEF Insert, Never
<1>2. StampsShape'
  BY <1>1 DEF EventsInv, StampsShape, EventsTypeOK, Never
<1>3. OffsetsShape' /\ ChannelShape'
  BY <1>1 DEF EventsInv, OffsetsShape, ChannelShape
<1>4. GotShape'
  BY <1>1 DEF EventsInv, GotShape, Ordered
<1>5. BufShape'
  BY <1>1 DEF EventsInv, BufShape, Ordered
<1>6. AllHeard'
  <2>1. ASSUME NEW l \in Listener, Passed(l, e)' PROVE FALSE
    <3>1. from[l] < stamp[e] /\ stamp[e] <= offset[l] /\ <<l, e>> \notin lost' /\ from[l] # -1
      BY <2>1, <1>1 DEF Passed, Never
    <3>2. offset[l] # -1
      BY <3>1, Facts
    <3>3. l \in open
      BY <1>1, <3>2 DEF EventsInv, OffsetsShape, Never
    <3> QED BY <1>1, <3>1, <3>3
  <2>2. \A l \in Listener, f \in stored : Passed(l, f)' => Passed(l, f)
    BY <1>1 DEF Passed, Decodable
  <2>3. \A l \in Listener, f \in stored : HeardIn(got[l], f) => HeardIn(got[l], f)'
    BY <1>1 DEF HeardIn
  <2> QED BY <1>1, <2>1, <2>2, <2>3 DEF EventsInv, AllHeard
<1> QED BY <1>2, <1>3, <1>4, <1>5, <1>6 DEF EventsInv

\* The clock of a table alone disturbs nothing.
LEMMA TickKeeps ==
  ASSUME EventsTypeOK, EventsInv, Tick
  PROVE  EventsInv'
BY DEF Tick, history, EventsInv, StampsShape, OffsetsShape, GotShape, BufShape, ChannelShape, AllHeard,
       Ordered, Passed, HeardIn, Decodable

\* One round of a stream of the table yields the first row that can be decoded,
\* and passes over those only that cannot.
LEMMA FetchKeeps ==
  ASSUME EventsTypeOK, EventsInv, NEW l \in Listener, Fetch(l)
  PROVE  EventsInv'
<1>1. /\ bridge = "table" /\ l \in open
      /\ UNCHANGED <<bridge, now, stamp, stored, open, buf, from, lost>>
  BY DEF Fetch, history
<1>2. \A e \in Rows(l) : e \in stored /\ e \in Event /\ stamp[e] \in Time /\ offset[l] < stamp[e]
  BY RowsAhead
<1>3. PICK e \in Rows(l) :
        /\ offset' = [offset EXCEPT ![l] = stamp[e]]
        /\ \/ e \notin Unknown /\ got' = [got EXCEPT ![l] = Append(@, e)]
              /\ \A f \in Rows(l) \ Unknown : stamp[e] <= stamp[f]
           \/ Rows(l) \subseteq Unknown /\ got' = got
  BY DEF Fetch, FirstOf
<1>4. e \in stored /\ e \in Event /\ stamp[e] \in Int /\ stamp[e] >= 0 /\ offset[l] < stamp[e]
  BY <1>2, TimeAssumption DEF Time
<1>5. offset[l] \in Int /\ offset[l] >= -1 /\ from[l] \in Int /\ from[l] >= -1 /\ from[l] <= offset[l]
      /\ got[l] \in Seq(Event) /\ from[l] # -1
  BY <1>1, Facts DEF EventsInv, OffsetsShape, Never
<1>6. \A m \in Listener : offset'[m] = IF m = l THEN stamp[e] ELSE offset[m]
  BY <1>3 DEF EventsTypeOK
<1>7. \A f \in stored : offset[l] < stamp[f] => f \in Rows(l)
  BY DEF Rows
<1>8. /\ \A m \in Listener : m # l => got'[m] = got[m]
      /\ got'[l] = got[l] \/ got'[l] = Append(got[l], e)
      /\ Rows(l) \ Unknown # {} => got'[l] = Append(got[l], e)
  BY <1>3 DEF EventsTypeOK
<1>9. Ordered(stamp, got[l]) /\ \A i \in 1 .. Len(got[l]) : got[l][i] \in stored /\ stamp[got[l][i]] <= offset[l]
  BY DEF EventsInv, GotShape
<1>10. \A f \in stored : stamp[f] \in Int /\ f \in Event
  BY Facts
<1>11. \A i \in 1 .. Len(got[l]) : stamp[got[l][i]] < stamp[e]
  BY <1>4, <1>5, <1>9, <1>10
<1>12. /\ Len(Append(got[l], e)) = Len(got[l]) + 1 /\ Len(got[l]) \in Nat
       /\ \A i \in 1 .. Len(got[l]) : Append(got[l], e)[i] = got[l][i]
       /\ Append(got[l], e)[Len(got[l]) + 1] = e
       /\ Ordered(stamp, Append(got[l], e))
  <2>1. stamp \in [Event -> Time \cup {Never}]
    BY DEF EventsTypeOK
  <2>2. Len(got[l]) \in Nat
    BY <1>5
  <2> QED BY <1>4, <1>5, <1>9, <1>11, <2>1, <2>2, AppendOrdered
<1>13. StampsShape' /\ ChannelShape'
  BY <1>1 DEF EventsInv, StampsShape, ChannelShape
<1>14. OffsetsShape'
  BY <1>1, <1>4, <1>5, <1>6 DEF EventsInv, OffsetsShape, Never
<1>15. \A i \in 1 .. Len(got'[l]) : got'[l][i] \in stored /\ stamp[got'[l][i]] <= stamp[e]
  <2>1. CASE got'[l] = got[l]
    <3>1. \A i \in 1 .. Len(got[l]) : stamp[got[l][i]] \in Int
      BY <1>9, <1>10
    <3> QED BY <2>1, <1>9, <1>11, <3>1, <1>4
  <2>2. CASE got'[l] = Append(got[l], e)
    <3>1. ASSUME NEW i \in 1 .. Len(got[l]) + 1
          PROVE  Append(got[l], e)[i] \in stored /\ stamp[Append(got[l], e)[i]] <= stamp[e]
      <4>1. CASE i = Len(got[l]) + 1
        BY <4>1, <1>12, <1>4
      <4>2. CASE i # Len(got[l]) + 1
        <5>1. i \in 1 .. Len(got[l])
          BY <4>2, <1>12
        <5>2. Append(got[l], e)[i] = got[l][i] /\ got[l][i] \in stored /\ stamp[got[l][i]] < stamp[e]
          BY <5>1, <1>9, <1>11, <1>12
        <5> QED BY <5>2, <1>4, <1>10
      <4> QED BY <4>1, <4>2
    <3> QED BY <3>1, <2>2, <1>12
  <2> QED BY <1>8, <2>1, <2>2
<1>16. GotShape'
  <2>1. Ordered(stamp, got'[l])
    BY <1>8, <1>9, <1>12
  <2>2. ASSUME NEW m \in Listener
        PROVE  (Ordered(stamp, got[m]) /\ \A i \in 1 .. Len(got[m]) : got[m][i] \in stored /\ stamp[got[m][i]] <= offset[m])'
    <3>1. CASE m = l
      BY <3>1, <2>1, <1>15, <1>6, <1>1 DEF Ordered
    <3>2. CASE m # l
      BY <3>2, <1>1, <1>6, <1>8 DEF EventsInv, GotShape, Ordered
    <3> QED BY <3>1, <3>2
  <2> QED BY <2>2 DEF GotShape
<1>17. BufShape'
  <2>1. \A m \in Listener : buf[m] = <<>> /\ Len(buf[m]) = 0
    BY <1>1 DEF EventsInv, BufShape
  <2> QED BY <1>1, <2>1 DEF BufShape, Ordered
<1>18. AllHeard'
  <2>1. ASSUME NEW f \in stored, Passed(l, f)' PROVE HeardIn(got'[l], f)
    <3>1. from[l] < stamp[f] /\ stamp[f] <= stamp[e] /\ f \notin Unknown /\ <<l, f>> \notin lost
      BY <2>1, <1>1, <1>6 DEF Passed, Decodable
    <3>2. CASE stamp[f] <= offset[l]
      <4>1. HeardIn(got[l], f)
        BY <3>1, <3>2, <1>5, <1>1 DEF EventsInv, AllHeard, Passed, Decodable, Never
      <4>2. PICK i \in 1 .. Len(got[l]) : stamp[got[l][i]] = stamp[f]
        BY <4>1 DEF HeardIn
      <4>3. CASE got'[l] = got[l]
        BY <4>2, <4>3 DEF HeardIn
      <4>4. CASE got'[l] = Append(got[l], e)
        <5>1. i \in 1 .. Len(got[l]) + 1 /\ Append(got[l], e)[i] = got[l][i]
          BY <1>12
        <5> QED BY <4>2, <4>4, <5>1, <1>12 DEF HeardIn
      <4> QED BY <4>3, <4>4, <1>8
    <3>3. CASE ~ (stamp[f] <= offset[l])
      <4>1. f \in Rows(l) \ Unknown
        BY <3>1, <3>3, <1>5, <1>7, <1>10
      <4>2. got'[l] = Append(got[l], e) /\ stamp[e] <= stamp[f]
        BY <4>1, <1>3, <1>8
      <4>3. stamp[e] = stamp[f]
        BY <4>2, <3>1, <1>4, <1>10
      <4>4. Len(got[l]) + 1 \in 1 .. Len(got[l]) + 1
        BY <1>12
      <4> QED BY <4>2, <4>3, <4>4, <1>12 DEF HeardIn
    <3> QED BY <3>2, <3>3
  <2>2. ASSUME NEW m \in Listener, NEW f \in stored, Passed(m, f)' PROVE HeardIn(got[m], f)'
    <3>1. CASE m = l
      BY <3>1, <2>1, <2>2, <1>1 DEF HeardIn
    <3>2. CASE m # l
      <4>1. Passed(m, f)
        BY <2>2, <3>2, <1>1, <1>6 DEF Passed, Decodable
      <4>2. HeardIn(got[m], f)
        BY <4>1 DEF EventsInv, AllHeard
      <4> QED BY <4>2, <3>2, <1>1, <1>8 DEF HeardIn
    <3> QED BY <3>1, <3>2
  <2> QED BY <2>2, <1>1 DEF AllHeard
<1> QED BY <1>13, <1>14, <1>16, <1>17, <1>18 DEF EventsInv

\* A stream that breaks has nothing waiting any more.
LEMMA EndKeeps ==
  ASSUME EventsTypeOK, EventsInv, NEW l \in Listener, End(l)
  PROVE  EventsInv'
<1>1. /\ bridge = "pubsub" /\ l \in open /\ open' = open \ {l}
      /\ buf' = [buf EXCEPT ![l] = <<>>]
      /\ UNCHANGED <<bridge, now, stamp, stored, offset, got, from, lost>>
  BY DEF End, history
<1>2. /\ \A m \in Listener : m # l => buf'[m] = buf[m]
      /\ buf'[l] = <<>> /\ Len(buf'[l]) = 0
  BY <1>1 DEF EventsTypeOK
<1>3. StampsShape' /\ OffsetsShape'
  BY <1>1 DEF EventsInv, StampsShape, OffsetsShape
<1>4. GotShape' /\ AllHeard'
  BY <1>1 DEF EventsInv, GotShape, Ordered, AllHeard, Passed, HeardIn, Decodable
<1>5. BufShape'
  BY <1>1, <1>2 DEF EventsInv, BufShape, Ordered
<1>6. ChannelShape'
  BY <1>1, <1>2, Facts DEF EventsInv, ChannelShape
<1> QED BY <1>3, <1>4, <1>5, <1>6 DEF EventsInv

\* A stream takes the events of its channel from the front, which is the next
\* one ahead of its offset.
LEMMA TakeKeeps ==
  ASSUME EventsTypeOK, EventsInv, NEW l \in Listener, Take(l)
  PROVE  EventsInv'
<1> DEFINE e == Head(buf[l])
<1>1. /\ l \in open /\ buf[l] # <<>> /\ bridge # "table"
      /\ offset' = [offset EXCEPT ![l] = stamp[e]]
      /\ \/ bridge = "pubsub" /\ e \in Unknown /\ got' = got
         \/ got' = [got EXCEPT ![l] = Append(@, e)]
      /\ buf' = [buf EXCEPT ![l] = Tail(@)]
      /\ UNCHANGED <<bridge, now, stamp, stored, open, from, lost>>
  BY DEF Take, history, EventsInv, BufShape
<1>2. buf[l] \in Seq(Event) /\ got[l] \in Seq(Event) /\ Len(got[l]) \in Nat /\ Len(buf[l]) \in Nat
      /\ offset[l] \in Int /\ from[l] \in Int /\ offset[l] >= -1
  BY Facts
<1>3. Ordered(stamp, buf[l]) /\ \A i \in 1 .. Len(buf[l]) : buf[l][i] \in stored /\ offset[l] < stamp[buf[l][i]]
  BY DEF EventsInv, BufShape
<1>4. stamp \in [Event -> Time \cup {Never}]
  BY DEF EventsTypeOK
<1>5. /\ Tail(buf[l]) \in Seq(Event) /\ e = buf[l][1] /\ 1 \in 1 .. Len(buf[l]) /\ e \in Event
      /\ Len(Tail(buf[l])) = Len(buf[l]) - 1
      /\ \A i \in 1 .. Len(Tail(buf[l])) : i + 1 \in 2 .. Len(buf[l]) /\ Tail(buf[l])[i] = buf[l][i + 1]
      /\ \A i \in 2 .. Len(buf[l]) : i - 1 \in 1 .. Len(Tail(buf[l])) /\ Tail(buf[l])[i - 1] = buf[l][i]
      /\ \A i \in 1 .. Len(Tail(buf[l])) : stamp[e] < stamp[Tail(buf[l])[i]]
      /\ Ordered(stamp, Tail(buf[l]))
  BY <1>1, <1>2, <1>3, <1>4, TailOrdered
<1>6. e \in stored /\ offset[l] < stamp[e] /\ stamp[e] \in Int /\ stamp[e] >= 0
  <2>1. e \in stored /\ offset[l] < stamp[e]
    BY <1>3, <1>5
  <2>2. stamp[e] \in Time
    BY <2>1 DEF EventsInv, StampsShape
  <2> QED BY <2>1, <2>2, TimeAssumption DEF Time
<1> HIDE DEF e
<1>7. \A m \in Listener : /\ offset'[m] = IF m = l THEN stamp[e] ELSE offset[m]
                          /\ m # l => got'[m] = got[m] /\ buf'[m] = buf[m]
  BY <1>1 DEF EventsTypeOK
<1>8. /\ buf'[l] = Tail(buf[l])
      /\ got'[l] = got[l] \/ got'[l] = Append(got[l], e)
      /\ Decodable(e) => got'[l] = Append(got[l], e)
  BY <1>1 DEF EventsTypeOK, Decodable
<1>9. \A f \in stored : stamp[f] \in Int /\ f \in Event
  BY Facts
<1>10. Ordered(stamp, got[l]) /\ \A i \in 1 .. Len(got[l]) : got[l][i] \in stored /\ stamp[got[l][i]] <= offset[l]
  BY DEF EventsInv, GotShape
<1>11. \A i \in 1 .. Len(got[l]) : stamp[got[l][i]] < stamp[e]
  BY <1>2, <1>6, <1>9, <1>10
<1>12. /\ Len(Append(got[l], e)) = Len(got[l]) + 1
       /\ \A i \in 1 .. Len(got[l]) : Append(got[l], e)[i] = got[l][i]
       /\ Append(got[l], e)[Len(got[l]) + 1] = e
       /\ Ordered(stamp, Append(got[l], e))
  BY <1>2, <1>4, <1>5, <1>10, <1>11, AppendOrdered
<1>13. StampsShape'
  BY <1>1 DEF EventsInv, StampsShape
<1>14. OffsetsShape'
  <2>1. from[l] <= offset[l]
    BY DEF EventsInv, OffsetsShape
  <2>2. from[l] # -1
    BY <1>1 DEF EventsInv, OffsetsShape, Never
  <2> QED BY <1>1, <1>2, <1>6, <1>7, <2>1, <2>2 DEF EventsInv, OffsetsShape, Never
<1>15. GotShape'
  <2>1. Ordered(stamp, got'[l])
    BY <1>8, <1>10, <1>12
  <2>2. \A i \in 1 .. Len(got[l]) : got[l][i] \in stored /\ stamp[got[l][i]] <= stamp[e]
    BY <1>6, <1>9, <1>10, <1>11
  <2>3. \A i \in 1 .. Len(got'[l]) : got'[l][i] \in stored /\ stamp[got'[l][i]] <= stamp[e]
    <3>1. ASSUME NEW i \in 1 .. Len(got[l]) + 1
          PROVE  Append(got[l], e)[i] \in stored /\ stamp[Append(got[l], e)[i]] <= stamp[e]
      <4>1. CASE i = Len(got[l]) + 1
        BY <4>1, <1>12, <1>6
      <4>2. CASE i # Len(got[l]) + 1
        BY <4>2, <1>2, <1>12, <2>2
      <4> QED BY <4>1, <4>2
    <3> QED BY <3>1, <2>2, <1>8, <1>12
  <2>4. ASSUME NEW m \in Listener
        PROVE  (Ordered(stamp, got[m]) /\ \A i \in 1 .. Len(got[m]) : got[m][i] \in stored /\ stamp[got[m][i]] <= offset[m])'
    <3>1. CASE m = l
      BY <3>1, <2>1, <2>3, <1>7, <1>1 DEF Ordered
    <3>2. CASE m # l
      BY <3>2, <1>1, <1>7 DEF EventsInv, GotShape, Ordered
    <3> QED BY <3>1, <3>2
  <2> QED BY <2>4 DEF GotShape
<1>16. BufShape'
  <2>1. \A i \in 1 .. Len(Tail(buf[l])) : Tail(buf[l])[i] \in stored /\ stamp[e] < stamp[Tail(buf[l])[i]]
    <3>1. ASSUME NEW i \in 1 .. Len(Tail(buf[l])) PROVE Tail(buf[l])[i] \in stored
      <4>1. i + 1 \in 1 .. Len(buf[l]) /\ Tail(buf[l])[i] = buf[l][i + 1]
        BY <1>5, <1>2
      <4> QED BY <4>1, <1>3
    <3> QED BY <3>1, <1>5
  <2>2. ASSUME NEW m \in Listener
        PROVE  (/\ bridge = "table" \/ m \notin open => buf[m] = <<>>
                /\ Ordered(stamp, buf[m])
                /\ \A i \in 1 .. Len(buf[m]) : buf[m][i] \in stored /\ offset[m] < stamp[buf[m][i]])'
    <3>1. CASE m = l
      <4>1. bridge' # "table" /\ m \in open'
        BY <3>1, <1>1
      <4>2. Ordered(stamp, buf[m])'
        BY <3>1, <1>1, <1>5, <1>8 DEF Ordered
      <4>3. \A i \in 1 .. Len(buf'[m]) : buf'[m][i] \in stored /\ offset'[m] < stamp[buf'[m][i]]
        BY <3>1, <2>1, <1>7, <1>8
      <4> QED BY <4>1, <4>2, <4>3, <1>1
    <3>2. CASE m # l
      BY <3>2, <1>1, <1>7 DEF EventsInv, BufShape, Ordered
    <3> QED BY <3>1, <3>2
  <2> QED BY <2>2 DEF BufShape
<1>17. ChannelShape'
  <2>1. /\ \A f \in stored : stamp[f] <= now
        /\ \A m \in Listener : offset[m] <= now
        /\ \A m \in open, f \in stored :
              offset[m] < stamp[f] /\ <<m, f>> \notin lost => \E i \in 1 .. Len(buf[m]) : buf[m][i] = f
    BY <1>1 DEF EventsInv, ChannelShape
  <2>2. ASSUME NEW f \in stored, stamp[e] < stamp[f], <<l, f>> \notin lost
        PROVE  \E i \in 1 .. Len(Tail(buf[l])) : Tail(buf[l])[i] = f
    <3>1. offset[l] < stamp[f]
      BY <2>2, <1>2, <1>6, <1>9
    <3>2. PICK i \in 1 .. Len(buf[l]) : buf[l][i] = f
      BY <3>1, <2>1, <2>2, <1>1
    <3>3. i # 1
      BY <3>2, <2>2, <1>5, <1>6
    <3>4. i \in 2 .. Len(buf[l])
      BY <3>3, <1>2
    <3> QED BY <3>2, <3>4, <1>5
  <2>3. \A m \in Listener : offset'[m] <= now
    BY <2>1, <1>6, <1>7
  <2>4. ASSUME NEW m \in open, NEW f \in stored, offset'[m] < stamp[f], <<m, f>> \notin lost
        PROVE  \E i \in 1 .. Len(buf'[m]) : buf'[m][i] = f
    <3>1. m \in Listener
      BY Facts
    <3>2. CASE m = l
      BY <3>2, <2>2, <2>4, <1>7, <1>8
    <3>3. CASE m # l
      BY <3>1, <3>3, <2>1, <2>4, <1>7
    <3> QED BY <3>2, <3>3
  <2> QED BY <2>1, <2>3, <2>4, <1>1 DEF ChannelShape
<1>18. AllHeard'
  <2>1. ASSUME NEW f \in stored, Passed(l, f)' PROVE HeardIn(got'[l], f)
    <3>1. from[l] # Never /\ from[l] < stamp[f] /\ stamp[f] <= stamp[e] /\ Decodable(f) /\ <<l, f>> \notin lost
      BY <2>1, <1>1, <1>7 DEF Passed, Decodable
    <3>2. CASE stamp[f] <= offset[l]
      <4>1. HeardIn(got[l], f)
        BY <3>1, <3>2 DEF EventsInv, AllHeard, Passed
      <4>2. PICK i \in 1 .. Len(got[l]) : stamp[got[l][i]] = stamp[f]
        BY <4>1 DEF HeardIn
      <4>3. i \in 1 .. Len(got[l]) + 1 /\ Append(got[l], e)[i] = got[l][i]
        BY <1>2, <1>12
      <4> QED BY <4>2, <4>3, <1>8, <1>12 DEF HeardIn
    <3>3. CASE ~ (stamp[f] <= offset[l])
      <4>1. PICK i \in 1 .. Len(buf[l]) : buf[l][i] = f
        <5>1. offset[l] < stamp[f]
          BY <3>3, <1>2, <1>9
        <5> QED BY <5>1, <3>1, <1>1 DEF EventsInv, ChannelShape
      <4>2. i = 1
        <5>1. SUFFICES ASSUME i # 1 PROVE FALSE
          OBVIOUS
        <5>2. i \in 2 .. Len(buf[l])
          BY <5>1, <1>2
        <5>3. stamp[e] < stamp[f]
          BY <4>1, <5>2, <1>5
        <5> QED BY <5>3, <3>1, <1>6, <1>9
      <4>3. f = e
        BY <4>1, <4>2, <1>5
      <4>4. got'[l] = Append(got[l], e) /\ Len(got[l]) + 1 \in 1 .. Len(got[l]) + 1
        BY <4>3, <3>1, <1>2, <1>8
      <4> QED BY <4>3, <4>4, <1>12 DEF HeardIn
    <3> QED BY <3>2, <3>3
  <2>2. ASSUME NEW m \in Listener, NEW f \in stored, Passed(m, f)' PROVE HeardIn(got[m], f)'
    <3>1. CASE m = l
      BY <3>1, <2>1, <2>2, <1>1 DEF HeardIn
    <3>2. CASE m # l
      <4>1. Passed(m, f)
        BY <2>2, <3>2, <1>1, <1>7 DEF Passed, Decodable
      <4>2. HeardIn(got[m], f)
        BY <4>1 DEF EventsInv, AllHeard
      <4> QED BY <4>2, <3>2, <1>1, <1>7 DEF HeardIn
    <3> QED BY <3>1, <3>2
  <2> QED BY <2>2, <1>1 DEF AllHeard
<1> QED BY <1>13, <1>14, <1>15, <1>16, <1>17, <1>18 DEF EventsInv

\* A published event is ahead of every offset; what a full channel pushes out for
\* it is recorded as lost.
LEMMA PublishKeeps ==
  ASSUME EventsTypeOK, EventsInv, NEW e \in Event, Publish(e)
  PROVE  EventsInv'
<1>1. /\ bridge # "table" /\ stamp[e] = -1 /\ now' = now + 1
      /\ stamp' = [stamp EXCEPT ![e] = now + 1] /\ stored' = stored \cup {e}
      /\ buf' = [l \in Listener |-> IF l \in open THEN Kept(Append(buf[l], e)) ELSE buf[l]]
      /\ \A l \in open : Kept(Append(buf[l], e)) # Append(buf[l], e) => <<l, Head(buf[l])>> \in lost'
      /\ lost \subseteq lost'
      /\ UNCHANGED <<bridge, open, offset, from, got>>
  BY DEF Publish, Never
<1>2. e \notin stored /\ now + 1 \in Time /\ now \in Int /\ now + 1 >= 0
  <2>1. e \notin stored
    BY <1>1, TimeAssumption DEF EventsInv, StampsShape, Time
  <2>2. now + 1 \in Time
    BY TimeAssumption DEF Publish, EventsTypeOK, Time
  <2> QED BY <2>1, <2>2, Facts
<1>3. /\ stamp'[e] = now + 1 /\ \A f \in stored : stamp'[f] = stamp[f]
      /\ stamp' \in [Event -> Time \cup {Never}]
  BY <1>1, <1>2 DEF EventsTypeOK
<1>4. /\ \A f \in stored : stamp[f] <= now /\ stamp[f] \in Int /\ f \in Event
      /\ \A l \in Listener : offset[l] <= now /\ offset[l] \in Int
      /\ open \subseteq Listener
  BY <1>1, Facts DEF EventsInv, ChannelShape
<1>5. ASSUME NEW l \in open
      PROVE  /\ Ordered(stamp', buf'[l])
             /\ \A i \in 1 .. Len(buf'[l]) : buf'[l][i] \in stored' /\ offset[l] < stamp'[buf'[l][i]]
             /\ \A f \in stored' : offset[l] < stamp'[f] /\ <<l, f>> \notin lost' =>
                   \E i \in 1 .. Len(buf'[l]) : buf'[l][i] = f
  <2> DEFINE b == Append(buf[l], e)
  <2>1. l \in Listener /\ buf[l] \in Seq(Event) /\ Len(buf[l]) \in Nat
    BY Facts
  <2>2. \A i \in 1 .. Len(buf[l]) : buf[l][i] \in stored /\ offset[l] < stamp[buf[l][i]]
    BY <2>1 DEF EventsInv, BufShape
  <2>3. Ordered(stamp', buf[l])
    <3>1. Ordered(stamp, buf[l])
      BY <2>1 DEF EventsInv, BufShape
    <3> QED BY <3>1, <2>2, <1>3 DEF Ordered
  <2>4. \A i \in 1 .. Len(buf[l]) : stamp'[buf[l][i]] < stamp'[e]
    BY <2>2, <1>2, <1>3, <1>4
  <2>5. /\ b \in Seq(Event) /\ Len(b) = Len(buf[l]) + 1
        /\ \A i \in 1 .. Len(buf[l]) : b[i] = buf[l][i]
        /\ b[Len(buf[l]) + 1] = e /\ Ordered(stamp', b)
    BY <2>1, <2>3, <2>4, <1>3, AppendOrdered
  <2> HIDE DEF b
  <2>6. b # <<>>
    <3>1. Len(b) # 0
      BY <2>1, <2>5
    <3> QED BY <3>1, EmptySeq
  <2>7. ASSUME NEW i \in 1 .. Len(b) PROVE b[i] \in stored' /\ offset[l] < stamp'[b[i]]
    <3>1. CASE i = Len(buf[l]) + 1
      BY <3>1, <2>1, <2>5, <1>1, <1>2, <1>3, <1>4
    <3>2. CASE i # Len(buf[l]) + 1
      <4>1. i \in 1 .. Len(buf[l])
        BY <3>2, <2>1, <2>5
      <4> QED BY <4>1, <2>2, <2>5, <1>1, <1>3
    <3> QED BY <3>1, <3>2
  <2>8. ASSUME NEW f \in stored', offset[l] < stamp'[f], <<l, f>> \notin lost'
        PROVE  \E i \in 1 .. Len(b) : b[i] = f
    <3>1. CASE f = e
      <4>1. Len(buf[l]) + 1 \in 1 .. Len(b)
        BY <2>1, <2>5
      <4> QED BY <3>1, <4>1, <2>5
    <3>2. CASE f # e
      <4>1. f \in stored /\ offset[l] < stamp[f] /\ <<l, f>> \notin lost
        BY <3>2, <2>8, <1>1, <1>3
      <4>2. PICK i \in 1 .. Len(buf[l]) : buf[l][i] = f
        BY <4>1, <1>1 DEF EventsInv, ChannelShape
      <4>3. i \in 1 .. Len(b) /\ b[i] = f
        BY <4>2, <2>1, <2>5
      <4> QED BY <4>3
    <3> QED BY <3>1, <3>2
  <2>9. CASE buf'[l] = b
    BY <2>5, <2>7, <2>8, <2>9
  <2>10. CASE buf'[l] = Tail(b) /\ Len(b) > Capacity
    <3>1. /\ Head(b) = b[1] /\ Len(Tail(b)) = Len(b) - 1 /\ Ordered(stamp', Tail(b))
          /\ \A i \in 1 .. Len(Tail(b)) : i + 1 \in 2 .. Len(b) /\ Tail(b)[i] = b[i + 1]
          /\ \A i \in 2 .. Len(b) : i - 1 \in 1 .. Len(Tail(b)) /\ Tail(b)[i - 1] = b[i]
      BY <2>5, <2>6, <1>3, TailOrdered
    <3>2. 1 \in 1 .. Len(buf[l])
      BY <2>10, <2>1, <2>5, TimeAssumption
    <3>3. Head(buf[l]) = b[1]
      <4>1. buf[l] # <<>>
        BY <3>2
      <4>2. Head(buf[l]) = buf[l][1]
        BY <2>1, <4>1
      <4> QED BY <4>2, <3>2, <2>5
    <3>4. <<l, b[1]>> \in lost'
      <4>1. Len(Tail(b)) # Len(b)
        BY <3>1, <2>1, <2>5
      <4>2. Kept(b) # b
        BY <4>1, <2>10, <1>1, <2>1 DEF b
      <4> QED BY <4>2, <3>3, <1>1 DEF b
    <3>5. ASSUME NEW i \in 1 .. Len(Tail(b))
          PROVE  Tail(b)[i] \in stored' /\ offset[l] < stamp'[Tail(b)[i]]
      <4>1. i + 1 \in 1 .. Len(b) /\ Tail(b)[i] = b[i + 1]
        BY <3>1, <2>1, <2>5
      <4> QED BY <4>1, <2>7
    <3>6. ASSUME NEW f \in stored', offset[l] < stamp'[f], <<l, f>> \notin lost'
          PROVE  \E i \in 1 .. Len(Tail(b)) : Tail(b)[i] = f
      <4>1. PICK i \in 1 .. Len(b) : b[i] = f
        BY <2>8, <3>6
      <4>2. i # 1
        BY <4>1, <3>4, <3>6
      <4>3. i \in 2 .. Len(b)
        BY <4>2, <2>1, <2>5
      <4> QED BY <4>1, <4>3, <3>1
    <3> QED BY <2>10, <3>1, <3>5, <3>6
  <2>11. buf'[l] = b \/ (buf'[l] = Tail(b) /\ Len(b) > Capacity)
    BY <1>1, <2>1 DEF Kept, b
  <2> QED BY <2>9, <2>10, <2>11
<1>6. \A l \in Listener : l \notin open => buf'[l] = <<>> /\ Len(buf'[l]) = 0
  BY <1>1 DEF EventsInv, BufShape
<1>7. StampsShape'
  BY <1>1, <1>2, <1>3 DEF EventsInv, StampsShape
<1>8. OffsetsShape'
  BY <1>1 DEF EventsInv, OffsetsShape
<1>9. GotShape'
  BY <1>1, <1>3 DEF EventsInv, GotShape, Ordered
<1>10. BufShape'
  <2>1. ASSUME NEW l \in Listener
        PROVE  (/\ bridge = "table" \/ l \notin open => buf[l] = <<>>
                /\ Ordered(stamp, buf[l])
                /\ \A i \in 1 .. Len(buf[l]) : buf[l][i] \in stored /\ offset[l] < stamp[buf[l][i]])'
    <3>1. CASE l \in open
      BY <3>1, <1>1, <1>5
    <3>2. CASE l \notin open
      BY <3>2, <1>1, <1>6 DEF Ordered
    <3> QED BY <3>1, <3>2
  <2> QED BY <2>1 DEF BufShape
<1>11. ChannelShape'
  <2>1. \A f \in stored' : stamp'[f] <= now'
    BY <1>1, <1>2, <1>3, <1>4
  <2>2. \A l \in Listener : offset'[l] <= now'
    BY <1>1, <1>2, <1>4
  <2> QED BY <2>1, <2>2, <1>1, <1>5 DEF ChannelShape
<1>12. AllHeard'
  <2>1. ASSUME NEW l \in Listener, Passed(l, e)' PROVE FALSE
    BY <2>1, <1>1, <1>2, <1>3, <1>4 DEF Passed
  <2>2. \A l \in Listener, f \in stored : Passed(l, f)' => Passed(l, f)
    BY <1>1, <1>3 DEF Passed, Decodable
  <2>3. ASSUME NEW l \in Listener, NEW f \in stored, HeardIn(got[l], f)
        PROVE  HeardIn(got[l], f)'
    <3>1. PICK i \in 1 .. Len(got[l]) : stamp[got[l][i]] = stamp[f]
      BY <2>3 DEF HeardIn
    <3>2. got[l][i] \in stored
      BY <3>1 DEF EventsInv, GotShape
    <3> QED BY <3>1, <3>2, <1>1, <1>3 DEF HeardIn
  <2> QED BY <1>1, <2>1, <2>2, <2>3 DEF EventsInv, AllHeard
<1> QED BY <1>7, <1>8, <1>9, <1>10, <1>11, <1>12 DEF EventsInv

-----------------------------------------------------------------------------
\* Types and invariant hold for ever.
LEMMA EventsInvariance == EventsSpec => [](EventsTypeOK /\ EventsInv)
<1>1. ASSUME EventsTypeOK, EventsInv, [EventsNext]_eventVars PROVE EventsTypeOK' /\ EventsInv'
  <2>1. EventsTypeOK'
    BY <1>1, EventsTypes
  <2>2. ASSUME UNCHANGED eventVars PROVE EventsInv'
    BY <1>1, <2>2 DEF eventVars, EventsInv, StampsShape, OffsetsShape, GotShape, BufShape, ChannelShape,
                      AllHeard, Ordered, Passed, HeardIn, Decodable
  <2>3. ASSUME NEW e \in Event, Stamp(e) \/ Insert(e) \/ Publish(e) PROVE EventsInv'
    BY <1>1, <2>3, StampKeeps, InsertKeeps, PublishKeeps
  <2>4. ASSUME NEW l \in Listener, Subscribe(l) \/ Fetch(l) \/ Take(l) \/ End(l) PROVE EventsInv'
    BY <1>1, <2>4, SubscribeKeeps, FetchKeeps, TakeKeeps, EndKeeps
  <2>5. ASSUME Tick PROVE EventsInv'
    BY <1>1, <2>5, TickKeeps
  <2> QED BY <1>1, <2>1, <2>2, <2>3, <2>4, <2>5 DEF EventsNext
<1> QED BY <1>1, EventsStart, PTL DEF EventsSpec

\* Every variable of the bridges stays in its type.
THEOREM EventsTypeCorrect == EventsSpec => []EventsTypeOK
BY EventsInvariance, PTL

\* A stream never yields an event twice or out of the order of the stamps
\* (receive_events of the three bridges).
THEOREM EventsYieldInOrder == EventsSpec => []YieldsInOrder
<1>1. EventsTypeOK /\ EventsInv => YieldsInOrder
  <2> SUFFICES ASSUME EventsTypeOK, EventsInv PROVE YieldsInOrder
    OBVIOUS
  <2>1. \A l \in Listener : got[l] \in Seq(Event) /\ Ordered(stamp, got[l])
    BY Facts DEF EventsInv, GotShape
  <2>2. \A q \in Seq(Event) : DOMAIN q = 1 .. Len(q)
    OBVIOUS
  <2> QED BY <2>1, <2>2 DEF YieldsInOrder, Ordered
<1> QED BY <1>1, EventsInvariance, PTL

\* What a stream has got past and not yielded came too late, was pushed out, cannot
\* be decoded, or lost its place to a yielded event of the very same stamp
\* (receive_events of the three bridges).
THEOREM EventsSkipOnlyTwins == EventsSpec => []SkipsOnlyTwins
<1>1. EventsTypeOK /\ EventsInv => SkipsOnlyTwins
  <2> SUFFICES ASSUME EventsTypeOK, EventsInv,
                      NEW l \in Listener, NEW e \in stored, Passed(l, e)
               PROVE  Yielded(l, e) \/ Displaced(l, e)
    BY DEF SkipsOnlyTwins, Passed
  <2>1. HeardIn(got[l], e)
    BY DEF EventsInv, AllHeard
  <2>2. PICK i \in 1 .. Len(got[l]) : stamp[got[l][i]] = stamp[e]
    BY <2>1 DEF HeardIn
  <2>3. got[l] \in Seq(Event)
    BY Facts
  <2>4. Yielded(l, got[l][i])
    <3>1. i \in DOMAIN got[l]
      BY <2>3
    <3> QED BY <3>1 DEF ToSet, Yielded
  <2>5. got[l][i] \in Event
    BY <2>3
  <2>6. CASE got[l][i] = e
    BY <2>4, <2>6
  <2>7. CASE got[l][i] # e
    BY <2>2, <2>4, <2>5, <2>7 DEF Displaced
  <2> QED BY <2>6, <2>7
<1> QED BY <1>1, EventsInvariance, PTL

\* An event that nobody shares its stamp with is received: it is yielded before the
\* stream gets past it, unless it came too late or was pushed out.
THEOREM EventsAloneAreReceived ==
  EventsSpec => [](\A l \in Listener, e \in stored :
                      /\ from[l] # Never /\ from[l] < stamp[e] /\ stamp[e] <= offset[l]
                      /\ Decodable(e) /\ <<l, e>> \notin lost
                      /\ \A f \in Event \ {e} : stamp[f] # stamp[e]
                      => Yielded(l, e))
<1> DEFINE AloneReceived ==
       \A l \in Listener, e \in stored :
          /\ from[l] # Never /\ from[l] < stamp[e] /\ stamp[e] <= offset[l]
          /\ Decodable(e) /\ <<l, e>> \notin lost
          /\ \A f \in Event \ {e} : stamp[f] # stamp[e]
          => Yielded(l, e)
<1>1. SkipsOnlyTwins => AloneReceived
  BY DEF SkipsOnlyTwins, Displaced
<1> QED BY <1>1, EventsSkipOnlyTwins, PTL

-----------------------------------------------------------------------------
(* The two side by side.                                                   *)

\* Each behaviour is one of the locks and one of the control events.
THEOREM SideBySide == Spec => LocksSpec /\ EventsSpec
<1>1. Init => LocksInit /\ EventsInit
  BY DEF Init
<1>2. [Next]_vars => [LocksNext]_lockVars /\ [EventsNext]_eventVars
  BY DEF Next, vars
<1> QED BY <1>1, <1>2, PTL DEF Spec, LocksSpec, EventsSpec

\* The variables of both have their types.
THEOREM BothTypeCorrect == Spec => []TypeOK
<1>1. Init => part \in {"locks", "events"}
  BY DEF Init
<1>2. part \in {"locks", "events"} /\ [Next]_vars => (part \in {"locks", "events"})'
  BY DEF Next, vars
<1>3. part \in {"locks", "events"} /\ LocksTypeOK /\ EventsTypeOK => TypeOK
  BY DEF TypeOK
<1> QED BY <1>1, <1>2, <1>3, SideBySide, LocksTypeCorrect, EventsTypeCorrect, PTL DEF Spec

=============================================================================
