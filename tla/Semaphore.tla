----------------------------- MODULE Semaphore ------------------------------
(***************************************************************************)
(* The FIFO semaphore of sync/semaphore.rs.  A poll, a drop or a release is  *)
(* one critical section on the state mutex, except that the grant loop of    *)
(* release_locked is one step per waiter with the mutex held; wakers run     *)
(* after it is released.  A poll that the cooperative budget turns away      *)
(* wakes itself and changes nothing here.                                    *)
(***************************************************************************)
EXTENDS Integers, Sequences, FiniteSets, WaitQueue

CONSTANTS
  Tasks,      \* each makes at most one acquisition at a time
  Initial,    \* permits at construction
  Requests,   \* sizes of acquire_many
  MaxAdded,   \* bound: permits given to add_permits
  MaxForgets, \* bound: permits forgotten
  UsizeMax    \* where the permit count saturates

ASSUME RequestsPositive == Requests \subseteq Nat \ {0}
ASSUME CountsNat == {Initial, MaxAdded, MaxForgets, UsizeMax} \subseteq Nat /\ Initial <= UsizeMax

VARIABLES
  permits,   \* State::permits
  closed,    \* State::closed
  waiters,   \* State::waiters, oldest first
  releasing, \* the state mutex is held by release_locked's loop
  status,    \* per task: no Acquire, an Acquire "ready" to be polled or "parked", a permit
  want,      \* per task: the size of its request
  granted,   \* per task: Waiter::granted
  waking,    \* wakers taken out of waiters and not called yet
  added,     \* permits given to add_permits so far
  forgotten  \* permits forgotten so far

vars == <<permits, closed, waiters, releasing, status, want, granted, waking, added, forgotten>>
counters == <<added, forgotten>>

Linked(t) == Occurs(waiters, t)
Waiting(t) == status[t] \in {"ready", "parked"}
Saturated(n) == IF n > UsizeMax THEN UsizeMax ELSE n

Init ==
  /\ permits = Initial /\ closed = FALSE /\ waiters = <<>> /\ releasing = FALSE
  /\ status = [t \in Tasks |-> "none"] /\ want = [t \in Tasks |-> 0]
  /\ granted = [t \in Tasks |-> FALSE] /\ waking = {}
  /\ added = 0 /\ forgotten = 0

(* acquire_many makes the future; nothing happens before its first poll. *)
Acquire(t, n) ==
  /\ status[t] = "none"
  /\ status' = [status EXCEPT ![t] = "ready"]
  /\ want' = [want EXCEPT ![t] = n]
  /\ UNCHANGED <<permits, closed, waiters, releasing, granted, waking, counters>>

(* An Acquire may take permits at once only when nobody is queued before it. *)
MayTake_OffByOne(t) == ~Linked(t) /\ waiters = <<>> /\ permits + 1 >= want[t]
MayTake_Barging(t) == ~Linked(t) /\ permits >= want[t]
MayTake(t) == ~Linked(t) /\ waiters = <<>> /\ permits >= want[t]

(* LinkedList::remove: the waiter's node leaves the list, if it is in it. *)
Unlinked(t) == Without(waiters, t)

(* Acquire::poll *)
PollAcquire(t) ==
  /\ status[t] = "ready" /\ ~releasing
  /\ \/ /\ granted[t]
        /\ granted' = [granted EXCEPT ![t] = FALSE]
        /\ status' = [status EXCEPT ![t] = "holder"]
        /\ UNCHANGED <<permits, waiters>>
     \/ /\ ~granted[t] /\ closed
        /\ waiters' = Unlinked(t)
        /\ status' = [status EXCEPT ![t] = "none"]
        /\ UNCHANGED <<permits, granted>>
     \/ /\ ~granted[t] /\ ~closed /\ MayTake(t)
        /\ permits' = permits - want[t]
        /\ status' = [status EXCEPT ![t] = "holder"]
        /\ UNCHANGED <<waiters, granted>>
     \/ /\ ~granted[t] /\ ~closed /\ ~MayTake(t)
        /\ waiters' = IF Linked(t) THEN waiters ELSE Append(waiters, t)
        /\ status' = [status EXCEPT ![t] = "parked"]
        /\ UNCHANGED <<permits, granted>>
  /\ UNCHANGED <<closed, releasing, want, waking, counters>>

(* The entry of release_locked: permits come back, then the grant loop runs. *)
Release_NoGrant(n) == permits' = Saturated(permits + n) /\ UNCHANGED releasing
Release(n) == permits' = Saturated(permits + n) /\ releasing' = TRUE

(* Acquire::drop: a granted but unobserved permit is given back. *)
DropGivesBack_Never(t) == FALSE
DropGivesBack(t) == ~Linked(t) /\ granted[t]
DropAcquire(t) ==
  /\ Waiting(t) /\ ~releasing
  /\ status' = [status EXCEPT ![t] = "none"]
  /\ waiters' = Unlinked(t)
  /\ granted' = [granted EXCEPT ![t] = FALSE]
  /\ IF DropGivesBack(t) THEN Release(want[t]) ELSE UNCHANGED <<permits, releasing>>
  /\ UNCHANGED <<closed, want, waking, counters>>

(* SemaphorePermit::drop *)
DropPermit(t) ==
  /\ status[t] = "holder" /\ ~releasing
  /\ status' = [status EXCEPT ![t] = "none"]
  /\ Release(want[t])
  /\ UNCHANGED <<closed, waiters, want, granted, waking, counters>>

(* SemaphorePermit::forget *)
Forget(t) ==
  /\ status[t] = "holder" /\ forgotten + want[t] <= MaxForgets
  /\ status' = [status EXCEPT ![t] = "none"]
  /\ forgotten' = forgotten + want[t]
  /\ UNCHANGED <<permits, closed, waiters, releasing, want, granted, waking, added>>

(* try_acquire_many; a refusal changes nothing. *)
TryAcquire(t, n) ==
  /\ status[t] = "none" /\ ~releasing
  /\ ~closed /\ waiters = <<>> /\ permits >= n
  /\ permits' = permits - n
  /\ status' = [status EXCEPT ![t] = "holder"]
  /\ want' = [want EXCEPT ![t] = n]
  /\ UNCHANGED <<closed, waiters, releasing, granted, waking, counters>>

AddPermits(n) ==
  /\ ~releasing /\ n > 0 /\ added + n <= MaxAdded
  /\ added' = added + n
  /\ Release(n)
  /\ UNCHANGED <<closed, waiters, status, want, granted, waking, forgotten>>

Close ==
  /\ ~releasing /\ ~closed
  /\ closed' = TRUE
  /\ waking' = waking \cup {t \in Tasks : Linked(t)}
  /\ waiters' = <<>>
  /\ UNCHANGED <<permits, releasing, status, want, granted, counters>>

(* release_locked: grant the oldest waiter if its whole request fits.  The      *)
(* head of the queue is served or the loop ends: no younger, smaller request     *)
(* is tried.                                                                     *)
Grants == waiters # <<>> /\ want[Head(waiters)] <= permits
GrantNext ==
  /\ releasing /\ Grants
  /\ permits' = permits - want[Head(waiters)]
  /\ granted' = [granted EXCEPT ![Head(waiters)] = TRUE]
  /\ waking' = waking \cup {Head(waiters)}
  /\ waiters' = Tail(waiters)
  /\ UNCHANGED <<closed, releasing, status, want, counters>>

EndRelease ==
  /\ releasing /\ ~Grants
  /\ releasing' = FALSE
  /\ UNCHANGED <<permits, closed, waiters, status, want, granted, waking, counters>>

(* wake_all, after the mutex is released.  A task that is no longer parked on    *)
(* this acquisition ignores its wake.                                            *)
Wake_Lost(t) ==
  /\ t \in waking /\ ~releasing
  /\ waking' = waking \ {t}
  /\ UNCHANGED <<permits, closed, waiters, releasing, status, want, granted, counters>>
Wake(t) ==
  /\ t \in waking /\ ~releasing
  /\ waking' = waking \ {t}
  /\ status' = [status EXCEPT ![t] = IF @ = "parked" THEN "ready" ELSE @]
  /\ UNCHANGED <<permits, closed, waiters, releasing, want, granted, counters>>

(* The task is polled again for a reason of its own. *)
SpuriousPoll(t) ==
  /\ status[t] = "parked"
  /\ status' = [status EXCEPT ![t] = "ready"]
  /\ UNCHANGED <<permits, closed, waiters, releasing, want, granted, waking, counters>>

(* The loop of release_locked and the wakes that follow it: one running call. *)
ReleaseStep == GrantNext \/ EndRelease \/ \E t \in Tasks : Wake(t)

Next ==
  \/ ReleaseStep \/ Close
  \/ \E n \in Requests : AddPermits(n) \/ \E t \in Tasks : Acquire(t, n) \/ TryAcquire(t, n)
  \/ \E t \in Tasks : PollAcquire(t) \/ DropAcquire(t) \/ DropPermit(t) \/ Forget(t) \/ SpuriousPoll(t)

Spec == Init /\ [][Next]_vars

-----------------------------------------------------------------------------
TypeOK ==
  /\ permits \in 0 .. UsizeMax /\ closed \in BOOLEAN /\ releasing \in BOOLEAN
  /\ waiters \in Seq(Tasks)
  /\ status \in [Tasks -> {"none", "ready", "parked", "holder"}]
  /\ want \in [Tasks -> Nat] /\ granted \in [Tasks -> BOOLEAN] /\ waking \subseteq Tasks
  /\ added \in Nat /\ forgotten \in Nat

(* Every permit is free, granted to a waiter, held, or forgotten: dropping an    *)
(* Acquire at any point, a racing close or a release never loses or duplicates   *)
(* one (release_locked, Acquire::drop).  Below saturation.                       *)
Owned == {t \in Tasks : granted[t] \/ status[t] = "holder"}
PermitsOut == UNION {{t} \X (1 .. want[t]) : t \in Owned}
PermitsConserved == permits + forgotten + Cardinality(PermitsOut) = Initial + added

(* A grant belongs to a live Acquire that is not queued any more, and a parked   *)
(* task is still queued or has its wake under way: no waiter is forgotten.       *)
WaitersAccounted ==
  \A t \in Tasks :
    /\ granted[t] => Waiting(t) /\ ~Linked(t)
    /\ Linked(t) => Waiting(t)
    /\ status[t] = "parked" => Linked(t) \/ t \in waking
    /\ Cardinality({i \in 1 .. Len(waiters) : waiters[i] = t}) <= 1

(* Permits are conserved through grants, drops, forgets and additions, and every *)
(* registered waiter is in the list, or granted, or on its way out of it.        *)
PermitsAccounted == PermitsConserved /\ WaitersAccounted

(* Permits go to waiters in the order they queued: no step gives a waiter its    *)
(* permits while an older one stays queued, and nobody outside the queue takes   *)
(* any while it is not empty.                                                    *)
FifoStep ==
  /\ \A i, j \in 1 .. Len(waiters) :
       i < j /\ granted'[waiters[j]] => \A k \in 1 .. Len(waiters') : waiters'[k] # waiters[i]
  /\ waiters # <<>> => \A t \in Tasks : status'[t] = "holder" => status[t] = "holder" \/ granted[t]
Fifo == [][FifoStep]_vars

(* Nobody waits for permits that are there: the oldest waiter's request does not *)
(* fit.  It holds when every request has one size; with mixed sizes dropping a   *)
(* large request at the head strands the small one behind it.                    *)
HeadIsBlocked ==
  ~releasing /\ ~closed /\ waiters # <<>> => want[Head(waiters)] > permits
=============================================================================
