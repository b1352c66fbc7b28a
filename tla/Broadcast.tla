----------------------------- MODULE Broadcast ------------------------------
(***************************************************************************)
(* sync/broadcast.rs: a ring of the last Capacity values and one cursor per  *)
(* receiver.  A value is identified with its sequence number.  send takes    *)
(* the wakers under the state mutex and calls them afterwards; cloning a     *)
(* receiver reads the cursor and registers its slot under two separate       *)
(* locks; a dropped receiver's slot goes before its share of the Arc.        *)
(***************************************************************************)
EXTENDS Integers, Sequences, FiniteSets

CONSTANTS
  Receivers, \* Receiver handles
  Capacity,  \* Inner::capacity
  MaxSends,  \* bound: values sent
  MaxTxs     \* bound: Sender handles

VARIABLES
  buffer,   \* State::buffer
  next_seq, \* State::next_seq
  slots,    \* State::receivers: the registered receivers
  slot_waker, \* the slots whose waker is set
  txs,      \* Sender handles
  listener, \* per Receiver: state, cursor, and the last sequence number it got
  rung      \* receivers whose waker was taken and not called yet

vars == <<buffer, next_seq, slots, slot_waker, txs, listener, rung>>

None == [state |-> "none", cursor |-> 0, last |-> -1]
Live(r) == listener[r].state \notin {"none", "dropping"}
Owns(r) == listener[r].state # "none"

Init ==
  /\ buffer = <<>> /\ next_seq = 0 /\ txs = 1 /\ slot_waker = {} /\ rung = {}
  /\ \E r \in Receivers :
       /\ slots = {r}
       /\ listener = [q \in Receivers |-> IF q = r THEN [None EXCEPT !.state = "idle"] ELSE None]

strong_count == txs + Cardinality({r \in Receivers : Owns(r)})
first_seq == next_seq - Len(buffer)

CloneSender == txs \in 1 .. MaxTxs - 1 /\ txs' = txs + 1
               /\ UNCHANGED <<buffer, next_seq, slots, slot_waker, listener, rung>>
(* Sender has no Drop of its own: only the Arc is released and nobody is woken. *)
DropSender == txs > 0 /\ txs' = txs - 1
              /\ UNCHANGED <<buffer, next_seq, slots, slot_waker, listener, rung>>

(* Every waiting receiver's waker is taken, whatever its cursor. *)
SendTakes_Lagging == {r \in slot_waker : listener[r].cursor < first_seq}
SendTakes == slot_waker
send ==
  /\ txs > 0 /\ next_seq < MaxSends /\ slots # {}
  /\ buffer' = Append(IF Len(buffer) = Capacity THEN Tail(buffer) ELSE buffer, next_seq)
  /\ next_seq' = next_seq + 1
  /\ rung' = rung \cup SendTakes /\ slot_waker' = {}
  /\ UNCHANGED <<slots, txs, listener>>

(* Receiver::clone, first lock: the cursor; second lock: register_slot. *)
CloneReceiver(r, q) ==
  /\ Live(r) /\ listener[r].state # "cloning" /\ ~Owns(q) /\ q \notin rung
  /\ listener' = [listener EXCEPT ![q] = [state |-> "cloning", cursor |-> next_seq, last |-> next_seq - 1]]
  /\ UNCHANGED <<buffer, next_seq, slots, slot_waker, txs, rung>>

register_slot(q) ==
  /\ listener[q].state = "cloning"
  /\ slots' = slots \cup {q}
  /\ listener' = [listener EXCEPT ![q].state = "idle"]
  /\ UNCHANGED <<buffer, next_seq, slot_waker, txs, rung>>

(* A lagging receiver learns how many values it missed and moves to the oldest *)
(* buffered one; the others take the value under their cursor.  The slot is    *)
(* put back if it is missing (slot_index).                                     *)
Lagging(r) == listener[r].cursor < first_seq
At(r) == listener[r].cursor - first_seq + 1
Advance(r) ==
  /\ listener' = IF Lagging(r)
                 THEN [listener EXCEPT ![r] = [state |-> "idle", cursor |-> first_seq, last |-> first_seq - 1]]
                 ELSE [listener EXCEPT ![r] = [state |-> "idle", cursor |-> @.cursor + 1, last |-> buffer[At(r)]]]
  /\ slots' = slots \cup {r}

(* try_recv reports Closed before it looks for buffered values. *)
try_recv(r) ==
  /\ listener[r].state = "idle"
  /\ strong_count # Cardinality(slots)
  /\ listener[r].cursor < next_seq
  /\ Advance(r)
  /\ UNCHANGED <<buffer, next_seq, slot_waker, txs, rung>>

PollReceiver(r) ==
  /\ listener[r].state \in {"idle", "ready"}
  /\ \/ listener[r].cursor < next_seq /\ Advance(r) /\ UNCHANGED slot_waker
     \/ /\ listener[r].cursor >= next_seq /\ strong_count = Cardinality(slots)
        /\ listener' = [listener EXCEPT ![r].state = "closed"]
        /\ UNCHANGED <<slots, slot_waker>>
     \/ /\ listener[r].cursor >= next_seq /\ strong_count # Cardinality(slots)
        /\ listener' = [listener EXCEPT ![r].state = "parked"]
        /\ slots' = slots \cup {r} /\ slot_waker' = slot_waker \cup {r}
  /\ UNCHANGED <<buffer, next_seq, txs, rung>>

(* Dropping a pending receive leaves the cursor; the waker stays in the slot. *)
CancelRecv(r) ==
  /\ listener[r].state \in {"ready", "parked"}
  /\ listener' = [listener EXCEPT ![r].state = "idle"]
  /\ UNCHANGED <<buffer, next_seq, slots, slot_waker, txs, rung>>

DropReceiver(r) ==
  /\ listener[r].state \notin {"none", "cloning", "dropping"}
  /\ listener' = [listener EXCEPT ![r].state = "dropping"]
  /\ slots' = slots \ {r} /\ slot_waker' = slot_waker \ {r}
  /\ UNCHANGED <<buffer, next_seq, txs, rung>>

ReleaseArc(r) ==
  /\ listener[r].state = "dropping" /\ listener' = [listener EXCEPT ![r] = None]
  /\ UNCHANGED <<buffer, next_seq, slots, slot_waker, txs, rung>>

CallWaker(r) ==
  /\ r \in rung /\ rung' = rung \ {r}
  /\ listener' = [listener EXCEPT ![r].state = IF @ = "parked" THEN "ready" ELSE @]
  /\ UNCHANGED <<buffer, next_seq, slots, slot_waker, txs>>

Next ==
  \/ CloneSender \/ DropSender \/ send
  \/ \E r \in Receivers : \/ register_slot(r) \/ try_recv(r) \/ PollReceiver(r) \/ CancelRecv(r)
                          \/ DropReceiver(r) \/ ReleaseArc(r) \/ CallWaker(r)
                          \/ \E q \in Receivers : CloneReceiver(r, q)

Spec == Init /\ [][Next]_vars

-----------------------------------------------------------------------------
(* CursorsExact: each receiver has been handed exactly the values before its     *)
(* cursor, or told of the gap: the value last received, or the end of the gap    *)
(* reported, is the one before the cursor, and no cursor passes the newest value.*)
CursorsExact ==
  \A r \in Receivers : Live(r) => /\ listener[r].last = listener[r].cursor - 1
                                  /\ listener[r].cursor <= next_seq

(* ValueReachesAll: a parked receiver has everything that was sent and its waker *)
(* is in its slot, or its wake is in flight; and a receiver hears Closed only    *)
(* when every Sender is gone.                                                    *)
ValueReachesAll ==
  \A r \in Receivers :
    /\ listener[r].state = "parked" =>
         r \in rung \/ (listener[r].cursor = next_seq /\ r \in slot_waker)
    /\ listener[r].state = "closed" => txs = 0

BroadcastSound == CursorsExact /\ ValueReachesAll

(* ClosedIsTold: with every Sender gone nobody is left parked.  The code does not *)
(* keep this: dropping a Sender wakes no receiver.                                *)
ClosedIsTold == txs = 0 => \A r \in Receivers : listener[r].state = "parked" => r \in rung
=============================================================================
