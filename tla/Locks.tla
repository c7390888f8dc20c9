-------------------------------- MODULE Locks --------------------------------
(***************************************************************************)
(* The locks of the backends, and the connection pool those of the SQL     *)
(* backends live in.  A section of code (one call of a service for one     *)
(* target) acquires the lock, works and releases it (service.rs,           *)
(* scheduler.rs).  Three implementations of the trait Lock:                *)
(*                                                                         *)
(*  "session"  PostgresLock, MysqlLock: a lock of the database session of  *)
(*             a connection that is taken from the pool for the section;   *)
(*             sessions may lock a target more than once                   *)
(*  "key"      RedisLock: a key with a token and a time-to-live            *)
(*  "set"      MemoryLock: a set of names in the memory of the process     *)
(*                                                                         *)
(* The token of a section stands for the fresh one of each acquisition: a  *)
(* section has never more than one that could still be in the key.         *)
(***************************************************************************)
EXTENDS Integers, FiniteSets

CONSTANTS Process,   \* processes, each with a pool of connections
          Target,    \* names of locks
          Section,   \* <<p, t>>: process p runs the service that target t guards
          PoolSize,  \* max_connections
          MaxHolds,  \* bound on the times a session locks a target
          Nobody,    \* no such key, nobody holds the lock
          InPool,    \* the connection is open and can be borrowed
          Closed     \* the pool may open this connection

ASSUME SectionAssumption == Section \subseteq Process \X Target
ASSUME PoolAssumption    == PoolSize \in Nat /\ MaxHolds \in Nat \ {0}
ASSUME NullAssumption    == /\ Nobody \notin Section
                            /\ InPool \notin Section /\ Closed \notin Section
                            /\ InPool # Closed

Kind == {"session", "key", "set"}
Conn == Process \X (1 .. PoolSize)

VARIABLES kind,   \* the implementation in use; never changes
          stage,  \* where each section is
          lent,   \* who has borrowed each connection, InPool or Closed
          holds,  \* holds[c][t]: how often the session of c has locked t
          dirty,  \* history: connections whose last unlock failed
          key     \* key[t]: the token in the key of t, or who has t in the set

lockVars == <<kind, stage, lent, holds, dirty, key>>
pool == <<lent, holds, dirty>>

Unlocked == [t \in Target |-> 0]

LocksTypeOK ==
    /\ kind \in Kind
    /\ stage \in [Section -> {"idle", "trying", "inside", "done"}]
    /\ lent \in [Conn -> Section \cup {InPool, Closed}]
    /\ holds \in [Conn -> [Target -> 0 .. MaxHolds]]
    /\ dirty \in SUBSET Conn
    /\ key \in [Target -> Section \cup {Nobody}]

LocksInit ==
    /\ kind \in Kind
    /\ stage = [s \in Section |-> "idle"]
    /\ lent = [c \in Conn |-> Closed]
    /\ holds = [c \in Conn |-> Unlocked]
    /\ dirty = {}
    /\ key = [t \in Target |-> Nobody]

-----------------------------------------------------------------------------
(* Connections.                                                            *)

ProcessOf(s) == s[1]
TargetOf     == [s \in Section |-> s[2]]

Borrowed(s)  == {c \in Conn : lent[c] = s}
Available(s) == {c \in Conn : c[1] = ProcessOf(s) /\ lent[c] \in {InPool, Closed}}

Step(s, next) == stage' = [stage EXCEPT ![s] = next]

\* The connections C end, and the locks of their sessions with them.
Close(C) ==
    /\ lent'  = [c \in Conn |-> IF c \in C THEN Closed ELSE lent[c]]
    /\ holds' = [c \in Conn |-> IF c \in C THEN Unlocked ELSE holds[c]]
    /\ dirty' = dirty \ C

ReturnToPool(c) == lent' = [lent EXCEPT ![c] = InPool]

-----------------------------------------------------------------------------
(* acquire.                                                                *)

\* pool.acquire: an open connection or a new one.  When there is none until
\* the timeout of the pool, acquire returns false and nothing has changed.
PoolAcquire(s) ==
    /\ kind = "session" /\ stage[s] = "idle"
    /\ \E c \in Available(s) : lent' = [lent EXCEPT ![c] = s]
    /\ Step(s, "trying")
    /\ UNCHANGED <<kind, holds, dirty, key>>

\* pg_try_advisory_lock, GET_LOCK(t, 0): a session may lock again what it has.
TryLock(s) ==
    /\ stage[s] = "trying"
    /\ \E c \in Borrowed(s) :
          /\ \A d \in Conn \ {c} : holds[d][TargetOf[s]] = 0
          /\ holds[c][TargetOf[s]] < MaxHolds
          /\ holds' = [holds EXCEPT ![c][TargetOf[s]] = @ + 1]
    /\ Step(s, "inside")
    /\ UNCHANGED <<kind, lent, dirty, key>>

\* Another session has the lock, or the query failed.
TryFails(s) ==
    /\ stage[s] = "trying"
    /\ \E c \in Borrowed(s) : ReturnToPool(c)
    /\ Step(s, "idle")
    /\ UNCHANGED <<kind, holds, dirty, key>>

Bug_TakeKey(s) ==
    /\ kind # "session" /\ stage[s] = "idle"
    /\ key' = [key EXCEPT ![TargetOf[s]] = s]
    /\ Step(s, "inside")
    /\ UNCHANGED <<kind, pool>>

\* SET NX EX, and the insertion into held_locks.
TakeKey(s) ==
    /\ kind # "session" /\ stage[s] = "idle"
    /\ key[TargetOf[s]] = Nobody
    /\ key' = [key EXCEPT ![TargetOf[s]] = s]
    /\ Step(s, "inside")
    /\ UNCHANGED <<kind, pool>>

\* The key is set and the reply is lost: acquire returns false.
TakeKeyUnheard(s) ==
    /\ kind = "key" /\ stage[s] = "idle"
    /\ key[TargetOf[s]] = Nobody
    /\ key' = [key EXCEPT ![TargetOf[s]] = s]
    /\ UNCHANGED <<kind, stage, pool>>

-----------------------------------------------------------------------------
(* The guarded work.                                                       *)

\* Calls to the backend.  On SQL each needs a connection besides the one that
\* has the lock.
Work(s) ==
    /\ stage[s] = "inside"
    /\ IF kind = "session" THEN \E c \in Available(s) : ReturnToPool(c)
                           ELSE UNCHANGED lent
    /\ Step(s, "done")
    /\ UNCHANGED <<kind, holds, dirty, key>>

\* A call fails, because of the timeout of the pool or otherwise.  The section
\* ignores it and goes on to release.
WorkFails(s) ==
    /\ stage[s] = "inside"
    /\ Step(s, "done")
    /\ UNCHANGED <<kind, pool, key>>

-----------------------------------------------------------------------------
(* release.                                                                *)

Bug_Unlock(s) ==
    /\ kind = "session" /\ stage[s] = "done"
    /\ \E c \in Borrowed(s) :
          /\ holds' = [holds EXCEPT ![c][TargetOf[s]] = @ - 1]
          /\ ReturnToPool(c)
          /\ dirty' = dirty
    /\ Step(s, "idle")
    /\ UNCHANGED <<kind, key>>

\* pg_advisory_unlock, RELEASE_LOCK: undoes one of the session's locks.
Unlock(s) ==
    /\ kind = "session" /\ stage[s] = "done"
    /\ \E c \in Borrowed(s) :
          /\ holds' = [holds EXCEPT ![c][TargetOf[s]] = IF @ = 0 THEN 0 ELSE @ - 1]
          /\ ReturnToPool(c)
          /\ dirty' = dirty
    /\ Step(s, "idle")
    /\ UNCHANGED <<kind, key>>

\* The statement fails and the error is ignored.  The connection is returned to
\* the pool, which throws it away if it is broken.
UnlockFails(s) ==
    /\ kind = "session" /\ stage[s] = "done"
    /\ \E c \in Borrowed(s) :
          \/ /\ holds[c][TargetOf[s]] < MaxHolds
             /\ ReturnToPool(c)
             /\ dirty' = dirty \cup {c}
             /\ UNCHANGED holds
          \/ Close({c})
    /\ Step(s, "idle")
    /\ UNCHANGED <<kind, key>>

Bug_DeleteKey(s) ==
    /\ kind # "session" /\ stage[s] = "done"
    /\ key' = [key EXCEPT ![TargetOf[s]] = Nobody]
    /\ Step(s, "idle")
    /\ UNCHANGED <<kind, pool>>

\* The script deletes the key if it has the section's token; held_locks.remove.
DeleteKey(s) ==
    /\ kind # "session" /\ stage[s] = "done"
    /\ key' = [key EXCEPT ![TargetOf[s]] = IF @ = s THEN Nobody ELSE @]
    /\ Step(s, "idle")
    /\ UNCHANGED <<kind, pool>>

\* The script does not reach the server: the key is left to expire.
DeleteKeyFails(s) ==
    /\ kind = "key" /\ stage[s] = "done"
    /\ Step(s, "idle")
    /\ UNCHANGED <<kind, pool, key>>

Release(s) == Unlock(s) \/ UnlockFails(s) \/ DeleteKey(s) \/ DeleteKeyFails(s)

-----------------------------------------------------------------------------
(* Faults.                                                                 *)

Bug_Drop(s) ==
    /\ UNCHANGED <<holds, dirty>>
    /\ lent' = [c \in Conn |-> IF lent[c] = s THEN InPool ELSE lent[c]]
    /\ key' = IF kind = "set" /\ key[TargetOf[s]] = s
              THEN [key EXCEPT ![TargetOf[s]] = Nobody] ELSE key

\* The Drop of a lock that was not released: the connection is detached and
\* closed; the name leaves the set; a key stays.
Drop(s) ==
    /\ Close(Borrowed(s))
    /\ key' = IF kind = "set" /\ key[TargetOf[s]] = s
              THEN [key EXCEPT ![TargetOf[s]] = Nobody] ELSE key

\* The guarded work panics; the runner of the service catches it.
Panic(s) ==
    /\ stage[s] = "inside"
    /\ Drop(s)
    /\ Step(s, "idle")
    /\ UNCHANGED kind

\* A process dies.  A memory backend dies with all that use it.
Crash(p) ==
    /\ kind # "set"
    /\ \E s \in Section : ProcessOf(s) = p /\ stage[s] # "idle"
    /\ stage' = [s \in Section |-> IF ProcessOf(s) = p THEN "idle" ELSE stage[s]]
    /\ Close({c \in Conn : c[1] = p})
    /\ UNCHANGED <<kind, key>>

\* The server ends the session of a connection, which its borrower finds out
\* when it uses it.
BreakSession(c) ==
    /\ lent[c] # Closed
    /\ lent' = [lent EXCEPT ![c] = IF @ = InPool THEN Closed ELSE @]
    /\ holds' = [holds EXCEPT ![c] = Unlocked]
    /\ dirty' = dirty \ {c}
    /\ UNCHANGED <<kind, stage, key>>

\* The pool closes a connection that is too old or was idle for too long.
Reap(c) ==
    /\ lent[c] = InPool
    /\ Close({c})
    /\ UNCHANGED <<kind, stage, key>>

Bug_Expire(t) == kind = "key" /\ key[t] # Nobody /\ UNCHANGED lockVars

\* LOCK_TTL_SECS have passed, whoever set the key and wherever it is by now.
Expire(t) ==
    /\ kind = "key" /\ key[t] # Nobody
    /\ key' = [key EXCEPT ![t] = Nobody]
    /\ UNCHANGED <<kind, stage, pool>>

-----------------------------------------------------------------------------
LocksNext ==
    \/ \E s \in Section :
          \/ PoolAcquire(s) \/ TryLock(s) \/ TryFails(s)
          \/ TakeKey(s) \/ TakeKeyUnheard(s)
          \/ Work(s) \/ WorkFails(s)
          \/ Release(s) \/ Panic(s)
    \/ \E p \in Process : Crash(p)
    \/ \E c \in Conn : BreakSession(c) \/ Reap(c)
    \/ \E t \in Target : Expire(t)

LocksSpec == LocksInit /\ [][LocksNext]_lockVars

\* A call of a service goes on; the pool gives up waiting, so that a call to the
\* backend succeeds or fails; keys expire and old connections are closed.
LocksFairness ==
    /\ \A s \in Section : /\ WF_lockVars(TryLock(s) \/ TryFails(s))
                          /\ WF_lockVars(Work(s) \/ WorkFails(s))
                          /\ WF_lockVars(Release(s))
    /\ \A c \in Conn : SF_lockVars(Reap(c))
    /\ \A t \in Target : WF_lockVars(Expire(t))

-----------------------------------------------------------------------------
(* Properties.                                                             *)

InSection(s) == stage[s] \in {"inside", "done"}

\* The backend agrees that section s has its lock.
Owns(s) ==
    IF kind = "session" THEN \E c \in Borrowed(s) : holds[c][TargetOf[s]] > 0
                        ELSE key[TargetOf[s]] = s

Holder(t) ==
    LET S == {s \in Section : TargetOf[s] = t /\ InSection(s) /\ Owns(s)} IN
    IF S = {} THEN Nobody ELSE CHOOSE s \in S : TRUE

\* A section that has its lock is left alone while it is inside: nothing takes the
\* lock from it but the expiry of its key or the end of its session, whatever the
\* other sections acquire, release and drop, and none of them gets in (acquire
\* and release of the three locks).
HolderIsLeftAlone ==
    [][\A s \in Section : InSection(s) /\ Owns(s) /\ InSection(s)' =>
          /\ Owns(s)' \/ Expire(TargetOf[s]) \/ \E c \in Borrowed(s) : BreakSession(c)
          /\ \A r \in Section \ {s} :
                TargetOf[r] = TargetOf[s] /\ InSection(r)' => InSection(r)]_lockVars

Contract == INSTANCE LockContract WITH
    inside <- {s \in Section : InSection(s)},
    holder <- [t \in {TargetOf[s] : s \in Section} |-> Holder(t)]

\* Whatever the implementation, a lock is granted only while nobody has it, and
\* a section that ends after it lost its lock does not free that of another
\* (the token of RedisLock, the dedicated connection of PostgresLock and
\* MysqlLock, held_locks of MemoryLock).
KeepsLockContract == Contract!Spec

\* A connection in the pool has no lock left, so that borrowing it for anything
\* else does not hold up a service somewhere: a panic does not skip this (the
\* Drop of PostgresLock and MysqlLock), only an unlock that fails does.
PoolIsClean ==
    \A c \in Conn : lent[c] = InPool /\ c \notin dirty => holds[c] = Unlocked

Taken(t) == \/ key[t] # Nobody
            \/ \E c \in Conn : holds[c][t] > 0

\* A lock always becomes free again, though processes die while they hold it,
\* unlocks fail, replies are lost and all connections of a pool may be taken by
\* sections that each need another one (Lock::release: "leaves the lock to
\* expire or to be freed when the connection drops").
LocksComeBack == \A t \in Target : []<>~Taken(t)

=============================================================================
