------------------------------- MODULE Notify -------------------------------
(***************************************************************************)
(* sync/notify.rs: one stored permit and a FIFO of registered waiters.       *)
(* notify_one and notify_waiters mark waiters under the state mutex and take *)
(* their wakers after releasing it, so the wakes interleave with polls,      *)
(* registrations and drops.  A poll that the cooperative budget turns away   *)
(* wakes itself and changes nothing here.                                    *)
(***************************************************************************)
EXTENDS Integers, Sequences, FiniteSets, WaitQueue

CONSTANTS
  Tasks,      \* the Notified futures, each with its Arc<Waiter>
  MaxNotifies \* bound: calls of notify_one in a behaviour

VARIABLES
  permit,     \* State::permit
  waiters,    \* State::waiters, oldest first
  status,     \* per task: no Notified, one "ready" to be polled, or one "parked"
  registered, \* per task: Notified::registered
  notified,   \* per task: Waiter::notified
  waker,      \* per task: Waiter::waker is set
  waking,     \* waiters marked by a running notify call whose waker is not taken yet
  calls,      \* notify_one calls so far
  owed,       \* history: a notify_one no Notified has resolved for yet
  spilt       \* history: since then a marked Notified was dropped

history == <<owed, spilt>>
vars == <<permit, waiters, status, registered, notified, waker, waking, calls, history>>

Live(t) == status[t] # "none"
Linked(t) == Occurs(waiters, t)

Init ==
  /\ permit = FALSE /\ waiters = <<>> /\ waking = {} /\ calls = 0
  /\ owed = FALSE /\ spilt = FALSE
  /\ status = [t \in Tasks |-> "none"]
  /\ registered = [t \in Tasks |-> FALSE]
  /\ notified = [t \in Tasks |-> FALSE]
  /\ waker = [t \in Tasks |-> FALSE]

(* Notify::notified makes a fresh Waiter; its name is free again once no notify  *)
(* call holds the Arc of the old one.                                            *)
NewNotified(t) ==
  /\ ~Live(t) /\ t \notin waking
  /\ status' = [status EXCEPT ![t] = "ready"]
  /\ registered' = [registered EXCEPT ![t] = FALSE]
  /\ notified' = [notified EXCEPT ![t] = FALSE]
  /\ waker' = [waker EXCEPT ![t] = FALSE]
  /\ UNCHANGED <<permit, waiters, waking, calls, history>>

(* A stored permit goes to the first Notified that looks, in enable or in poll. *)
TakesPermit(t) == permit' = FALSE

Register(t) ==
  /\ waiters' = Append(waiters, t)
  /\ registered' = [registered EXCEPT ![t] = TRUE]

(* Notified::enable *)
Enable(t) ==
  /\ status[t] = "ready" /\ ~registered[t] /\ ~notified[t]
  /\ IF permit
     THEN /\ TakesPermit(t)
          /\ notified' = [notified EXCEPT ![t] = TRUE]
          /\ UNCHANGED <<waiters, registered>>
     ELSE Register(t) /\ UNCHANGED <<permit, notified>>
  /\ UNCHANGED <<status, waker, waking, calls, history>>

(* Notified::poll: Ready when marked, Ready with the permit, or Pending. *)
Resolve(t) ==
  /\ status' = [status EXCEPT ![t] = "none"]
  /\ owed' = FALSE /\ spilt' = FALSE
  /\ UNCHANGED <<waiters, registered, waker>>

ChecksMark_Never(t) == FALSE
ChecksMark(t) == notified[t]

Poll(t) ==
  /\ status[t] = "ready"
  /\ \/ ChecksMark(t) /\ Resolve(t) /\ UNCHANGED <<permit, notified>>
     \/ /\ ~ChecksMark(t) /\ ~registered[t] /\ permit
        /\ TakesPermit(t)
        /\ notified' = [notified EXCEPT ![t] = TRUE]
        /\ Resolve(t)
     \/ /\ ~ChecksMark(t) /\ (registered[t] \/ ~permit)
        /\ waker' = [waker EXCEPT ![t] = TRUE]
        /\ status' = [status EXCEPT ![t] = "parked"]
        /\ IF registered[t] THEN UNCHANGED <<waiters, registered>> ELSE Register(t)
        /\ UNCHANGED <<permit, notified, history>>
  /\ UNCHANGED <<waking, calls>>

(* Notified::drop unregisters a waiter that was not marked.  One that was marked, *)
(* or took the permit in enable, is dropped with its notification.                *)
DropNotified(t) ==
  /\ Live(t)
  /\ status' = [status EXCEPT ![t] = "none"]
  /\ waiters' = IF registered[t] /\ ~notified[t] THEN Without(waiters, t) ELSE waiters
  /\ spilt' = (spilt \/ notified[t])
  /\ UNCHANGED <<permit, registered, notified, waker, waking, calls, owed>>

(* A permit is stored only when nobody waits. *)
StoresPermit == waiters = <<>>

NotifyOne ==
  /\ calls < MaxNotifies
  /\ calls' = calls + 1 /\ owed' = TRUE
  /\ permit' = (permit \/ StoresPermit)
  /\ IF waiters = <<>>
     THEN UNCHANGED <<waiters, notified, waking>>
     ELSE /\ waiters' = Tail(waiters)
          /\ notified' = [notified EXCEPT ![Head(waiters)] = TRUE]
          /\ waking' = waking \cup {Head(waiters)}
  /\ UNCHANGED <<status, registered, waker, spilt>>

NotifyWaiters ==
  /\ waiters # <<>>
  /\ notified' = [t \in Tasks |-> notified[t] \/ Linked(t)]
  /\ waking' = waking \cup {t \in Tasks : Linked(t)}
  /\ waiters' = <<>>
  /\ UNCHANGED <<permit, status, registered, waker, calls, history>>

(* After the state mutex is released: take the waker of a marked waiter and call it. *)
TakeWaker(t) ==
  /\ t \in waking
  /\ waking' = waking \ {t}
  /\ waker' = [waker EXCEPT ![t] = FALSE]
  /\ status' = [status EXCEPT ![t] = IF waker[t] /\ @ = "parked" THEN "ready" ELSE @]
  /\ UNCHANGED <<permit, waiters, registered, notified, calls, history>>

(* The awaiting task is polled for a reason of its own, as in a select. *)
SpuriousPoll(t) ==
  /\ status[t] = "parked"
  /\ status' = [status EXCEPT ![t] = "ready"]
  /\ UNCHANGED <<permit, waiters, registered, notified, waker, waking, calls, history>>

Next ==
  \/ NotifyOne \/ NotifyWaiters
  \/ \E t \in Tasks : \/ NewNotified(t) \/ Enable(t) \/ Poll(t) \/ DropNotified(t)
                      \/ TakeWaker(t) \/ SpuriousPoll(t)

Spec == Init /\ [][Next]_vars

(* A running notify call takes the wakers it owes, and a woken task is polled. *)
FairSpec == Spec /\ \A t \in Tasks : WF_vars(TakeWaker(t)) /\ WF_vars(Poll(t))

-----------------------------------------------------------------------------
TypeOK ==
  /\ permit \in BOOLEAN /\ {owed, spilt} \subseteq BOOLEAN /\ calls \in 0 .. MaxNotifies
  /\ waiters \in Seq(Tasks) /\ Len(waiters) <= Cardinality(Tasks)
  /\ waking \subseteq Tasks
  /\ status \in [Tasks -> {"none", "ready", "parked"}]
  /\ {registered, notified, waker} \subseteq [Tasks -> BOOLEAN]

(* The list holds exactly the live Notified that are registered and not marked,  *)
(* once each: no dangling waiter takes a notification meant for a live one.      *)
ListExact ==
  /\ \A t \in Tasks : Linked(t) <=> Live(t) /\ registered[t] /\ ~notified[t]
  /\ Distinct(waiters)

(* Nobody waits beside a stored permit: notify_one racing a registration is      *)
(* either stored before it or delivered to it (the loom test of notify.rs).      *)
PermitMeansNoWaiter == permit => waiters = <<>>

(* The state notify_one decides by can be trusted whenever the mutex is free:    *)
(* the list holds the waiters that can take a notification, and there is one or  *)
(* the other, waiters or a permit.                                               *)
StateTrusted == TypeOK /\ ListExact /\ PermitMeansNoWaiter

(* A parked Notified is still registered with its waker, or its mark has a wake  *)
(* on the way: the window between the mark and the waker's removal loses nothing. *)
ParkedIsReachable ==
  \A t \in Tasks : status[t] = "parked" =>
    waker[t] /\ (Linked(t) \/ (notified[t] /\ t \in waking))

(* A notify_one stays in the permit or in a marked live Notified until one        *)
(* resolves, as long as no marked Notified is dropped: a notify that comes before *)
(* the wait is not lost.                                                          *)
StoredOrMarked == permit \/ \E t \in Tasks : Live(t) /\ notified[t]
NotifyBeforeWait == owed /\ ~spilt => StoredOrMarked

(* Waiters and marks agree, nobody parked is out of reach of a notification, and  *)
(* a notify_one without a waiter is kept for the next one.                        *)
NotifyKept == StateTrusted /\ ParkedIsReachable /\ NotifyBeforeWait

(* The same without the exception: dropping a Notified never loses a notification *)
(* (docs/CANCEL_SAFETY.md).  It does: a marked one takes it along.                *)
NotificationKept == owed => StoredOrMarked

(* A parked Notified that was marked is resolved or dropped. *)
MarkedResolves == \A t \in Tasks : (Live(t) /\ notified[t]) ~> ~(Live(t) /\ notified[t])
=============================================================================
