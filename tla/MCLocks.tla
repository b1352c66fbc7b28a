------------------------------- MODULE MCLocks ------------------------------
(* A behaviour picks the lock or notifier it is about and the others stay as they  *)
(* began: the states of this instance are the sum of theirs, not the product.      *)
EXTENDS Mutex, Locks

CONSTANTS a, b, c

VARIABLE subject \* the component of this behaviour

Only(x) == subject = x /\ UNCHANGED subject

SumInit ==
  /\ subject \in {"mutex", "notify", "rwlock", "cancellation"}
  /\ Init /\ N!Init /\ R!Init /\ C!Init

nVars == <<permit, nWaiters, nStatus, registered, notified, waker, nWaking, calls, owed, spilt>>
rVars == <<lock, locker, gap>>
cVars == <<tok, cancels, birth, wait>>

NotMutex == UNCHANGED <<nVars, rVars, cVars>>
NotNotify == UNCHANGED <<vars, rVars, cVars>>

SumNext ==
  \/ Only("mutex") /\ LockNext /\ NotMutex
  \/ Only("notify") /\ N!Next /\ NotNotify
  \/ Only("rwlock") /\ R!Next /\ UNCHANGED <<vars, nVars, cVars>>
  \/ Only("cancellation") /\ C!Next /\ UNCHANGED <<vars, nVars, rVars>>

all == <<subject, vars, nVars, rVars, cVars>>

OfMutex(A) == Only("mutex") /\ A /\ NotMutex
OfNotify(A) == Only("notify") /\ A /\ NotNotify

SumSpec ==
  /\ SumInit /\ [][SumNext]_all
  /\ WF_all(OfMutex(ReleaseStep))
  /\ \A t \in Tasks : WF_all(OfMutex(PollLock(t))) /\ WF_all(OfMutex(Unlock(t))) /\ WF_all(OfMutex(Wake(t)))
  /\ \A t \in Lockers : WF_all(OfNotify(N!TakeWaker(t))) /\ WF_all(OfNotify(N!Poll(t)))

(* Every waiter is served: a task waiting for the Mutex gets the lock, and a Notified *)
(* that was chosen resolves.                                                          *)
WaitersServed == LockServed /\ N!MarkedResolves
=============================================================================
