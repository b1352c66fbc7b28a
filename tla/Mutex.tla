------------------------------- MODULE Mutex --------------------------------
(***************************************************************************)
(* sync/mutex.rs: a lock is a semaphore of one permit whose guard holds it.  *)
(* Only the operations a Mutex exposes: never closed, added to or forgotten. *)
(***************************************************************************)
EXTENDS Semaphore

(* The semaphore Mutex::new makes. *)
OnePermit == Initial = 1 /\ UsizeMax >= 1

Lock(t)       == Acquire(t, 1)      \* lock, lock_owned
TryLock(t)    == TryAcquire(t, 1)   \* try_lock
PollLock(t)   == PollAcquire(t)
CancelLock(t) == DropAcquire(t)     \* the pending lock future is dropped
Unlock(t)     == DropPermit(t)      \* MutexGuard, OwnedMutexGuard dropped

LockNext ==
  \/ ReleaseStep
  \/ \E t \in Tasks : \/ Lock(t) \/ TryLock(t) \/ PollLock(t)
                      \/ CancelLock(t) \/ Unlock(t) \/ SpuriousPoll(t)

LockSpec == Init /\ [][LockNext]_vars

(* A woken task is polled, a running release ends, and users do unlock. *)
LockFairness ==
  /\ WF_vars(ReleaseStep)
  /\ \A t \in Tasks : WF_vars(PollLock(t)) /\ WF_vars(Unlock(t)) /\ WF_vars(Wake(t))

FairLockSpec == LockSpec /\ LockFairness

(* At most one task has the lock or a grant of it not yet observed, and the      *)
(* permit is free exactly when none has: the guard's `&mut T` is exclusive.      *)
Exclusive ==
  /\ \A t, u \in Owned : t = u
  /\ Owned # {} => permits = 0
  /\ Owned = {} => permits = 1

(* A queued lock is granted, and the grant becomes a guard, unless the future is *)
(* dropped: unlocking never skips it, the cancellation of a granted lock passes  *)
(* the lock on, and no grant stays unobserved.                                   *)
LockServed == \A t \in Tasks : (Linked(t) \/ granted[t]) ~> ~(Linked(t) \/ granted[t])
=============================================================================
