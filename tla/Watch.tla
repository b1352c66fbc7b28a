-------------------------------- MODULE Watch -------------------------------
(***************************************************************************)
(* sync/watch.rs: the latest value with a version, and a list of wakers.    *)
(* send, send_replace and the drop of a Sender take the list under the      *)
(* state mutex and call it afterwards; a dropped handle gives up its share   *)
(* of the Arc only after that.                                              *)
(***************************************************************************)
EXTENDS Integers, FiniteSets

CONSTANTS
  Receivers,  \* Receiver handles
  Senders,    \* Sender handles
  MaxVersion  \* bound: values sent

VARIABLES
  version, \* State::version; the value sent with it is identified with it
  wakers,  \* State::wakers, as the set of receivers whose task is listed
  handle,  \* per Sender: "none", "held", "dropping" (body of drop has run) or "gone"
  reader,  \* per Receiver: held, seen (Receiver::version), doing
  ringing  \* receivers whose waker was taken and not called yet

vars == <<version, wakers, handle, reader, ringing>>

Absent == [held |-> FALSE, seen |-> 0, doing |-> "idle"]

Init ==
  /\ version = 0 /\ wakers = {} /\ ringing = {}
  /\ \E s \in Senders, r \in Receivers :
       /\ handle = [x \in Senders |-> IF x = s THEN "held" ELSE "none"]
       /\ reader = [x \in Receivers |-> IF x = r THEN [Absent EXCEPT !.held = TRUE] ELSE Absent]

strong_count ==
  Cardinality({s \in Senders : handle[s] \in {"held", "dropping"}})
    + Cardinality({r \in Receivers : reader[r].held})

CloneSender(s, t) ==
  /\ handle[s] = "held" /\ handle[t] = "none"
  /\ handle' = [handle EXCEPT ![t] = "held"]
  /\ UNCHANGED <<version, wakers, reader, ringing>>

(* send and send_replace: a new version, and everyone on the list is woken. *)
TakesWakers_Never == {}
TakesWakers == wakers
send(s) ==
  /\ handle[s] = "held" /\ version < MaxVersion
  /\ version' = version + 1
  /\ wakers' = {} /\ ringing' = ringing \cup TakesWakers
  /\ UNCHANGED <<handle, reader>>

DropSender(s) ==
  /\ handle[s] = "held"
  /\ handle' = [handle EXCEPT ![s] = "dropping"]
  /\ wakers' = {} /\ ringing' = ringing \cup wakers
  /\ UNCHANGED <<version, reader>>

(* The field drop after Sender::drop decrements the Arc. *)
ReleaseArc(s) ==
  /\ handle[s] = "dropping" /\ handle' = [handle EXCEPT ![s] = "gone"]
  /\ UNCHANGED <<version, wakers, reader, ringing>>

(* The name of a dropped receiver is used again once no list holds its waker. *)
CloneReceiver(r, q) ==
  /\ reader[r].held /\ ~reader[q].held /\ q \notin ringing \cup wakers
  /\ reader' = [reader EXCEPT ![q] = [reader[r] EXCEPT !.doing = "idle"]]
  /\ UNCHANGED <<version, wakers, handle, ringing>>

DropReceiver(r) ==
  /\ reader[r].held
  /\ reader' = [reader EXCEPT ![r] = Absent]
  /\ UNCHANGED <<version, wakers, handle, ringing>>

borrow_and_update(r) ==
  /\ reader[r].held /\ reader[r].doing \in {"idle", "changed"}
  /\ reader' = [reader EXCEPT ![r].seen = version, ![r].doing = "idle"]
  /\ UNCHANGED <<version, wakers, handle, ringing>>

(* poll_changed reports a version the receiver has not seen and leaves it unseen. *)
Sees(r) == version # reader[r].seen
poll_changed(r) ==
  /\ reader[r].held /\ reader[r].doing \in {"idle", "ready"}
  /\ \/ /\ Sees(r)
        /\ reader' = [reader EXCEPT ![r].doing = "changed"] /\ UNCHANGED wakers
     \/ /\ ~Sees(r) /\ strong_count = 1
        /\ reader' = [reader EXCEPT ![r].doing = "closed"] /\ UNCHANGED wakers
     \/ /\ ~Sees(r) /\ strong_count # 1
        /\ reader' = [reader EXCEPT ![r].doing = "parked"] /\ wakers' = wakers \cup {r}
  /\ UNCHANGED <<version, handle, ringing>>

(* A select drops the pending changed(); its waker stays on the list. *)
CancelChanged(r) ==
  /\ reader[r].doing \in {"ready", "parked"}
  /\ reader' = [reader EXCEPT ![r].doing = "idle"]
  /\ UNCHANGED <<version, wakers, handle, ringing>>

CallWaker(r) ==
  /\ r \in ringing /\ ringing' = ringing \ {r}
  /\ reader' = [reader EXCEPT ![r].doing = IF @ = "parked" THEN "ready" ELSE @]
  /\ UNCHANGED <<version, wakers, handle>>

Next ==
  \/ \E s \in Senders : \/ send(s) \/ DropSender(s) \/ ReleaseArc(s)
                        \/ \E t \in Senders : CloneSender(s, t)
  \/ \E r \in Receivers : \/ DropReceiver(r) \/ borrow_and_update(r) \/ poll_changed(r)
                          \/ CancelChanged(r) \/ CallWaker(r)
                          \/ \E q \in Receivers : CloneReceiver(r, q)

Spec == Init /\ [][Next]_vars

-----------------------------------------------------------------------------
(* ChangeReachesAll: a receiver parked in changed() has seen the newest value   *)
(* and is listed for the next one, or its wake is in flight.                    *)
ChangeReachesAll ==
  \A r \in Receivers :
    reader[r].doing = "parked" => r \in ringing \/ (reader[r].seen = version /\ r \in wakers)

(* ClosedIsTold: with every Sender gone, nobody is left parked in changed().  The *)
(* code does not keep this: the last Sender's drop wakes its waiters while its    *)
(* Arc is still counted, and two receivers count each other.                      *)
ClosedIsTold ==
  (\A s \in Senders : handle[s] \in {"none", "gone"}) =>
    \A r \in Receivers : reader[r].doing = "parked" => r \in ringing
=============================================================================
