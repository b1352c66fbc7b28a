-------------------------------- MODULE Locks -------------------------------
(***************************************************************************)
(* The notifier, the reader-writer lock and the cancellation tree side by    *)
(* side.  They share nothing; each has variables of its own.  MCLocks checks *)
(* them beside the Mutex, LockProofs proves the same statements for every    *)
(* value of the constants.                                                   *)
(***************************************************************************)

CONSTANTS
  Lockers,               \* futures of the RwLock and of the Notify
  MaxNotifies,           \* Notify
  Tokens, Root, Waits    \* CancellationToken

VARIABLES
  permit, nWaiters, nStatus, registered, notified,     \* Notify
  waker, nWaking, calls, owed, spilt,
  lock, locker, gap,                                   \* RwLock
  tok, cancels, birth, wait                            \* CancellationToken

N == INSTANCE Notify WITH
       Tasks <- Lockers, waiters <- nWaiters, status <- nStatus, waking <- nWaking
R == INSTANCE RwLock
C == INSTANCE CancellationToken

(* Notify: waiters and marks agree, nobody parked is out of reach of a notification,  *)
(* and a notify_one without a waiter is kept for the next one.                       *)
NotifyKept == N!NotifyKept

(* RwLock: exclusion, exact counters, and a head of the queue that waits for an owner. *)
RwLockSound == R!RwLockSound

(* CancellationToken: a cancel reaches every parked waiter and every linked child. *)
CancellationSound == C!CancellationSound

-----------------------------------------------------------------------------
(* What the code does not keep; the README describes each counterexample. *)

(* Notify: the notification of a dropped Notified passes to another. *)
NotificationKept == N!NotificationKept

(* RwLock: readers do not queue behind nobody. *)
ReadersJoin == R!ReadersJoin

(* CancellationToken: a cancel reaches descendants below a dropped token. *)
CancelReachesDescendants == C!CancelReachesDescendants
=============================================================================
