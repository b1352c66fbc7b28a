------------------------------ MODULE Oneshot -------------------------------
(***************************************************************************)
(* sync/oneshot.rs: one value, a sender that may watch for the receiver's   *)
(* death, a receiver that is a future.  send and the two drops take a waker *)
(* under the state mutex and call it after releasing it.                    *)
(***************************************************************************)

CONSTANT Watchers   \* Closed futures; closed borrows the sender, so there may be several at once

VARIABLES
  st,     \* State: value and sent, the two alive flags, the receiver's waker, whose waker closed_waker is
  tx,     \* the Sender: "held", "sent" (consumed by send) or "dropped"
  closed, \* per Closed future: "none", "ready", "parked"
  rcv,    \* the Receiver: "idle", "ready", "parked", "ok", "err" or "dropped"
  calling, \* which wakers, taken and not yet called, are in flight
  displaced \* history: Closed futures whose waker another one's replaced

vars == <<st, tx, closed, rcv, calling, displaced>>

Init ==
  /\ st = [value |-> FALSE, sent |-> FALSE, receiver_alive |-> TRUE, sender_alive |-> TRUE,
           receiver_waker |-> FALSE, closed_waker |-> {}]
  /\ tx = "held" /\ closed = [c \in Watchers |-> "none"] /\ rcv = "idle"
  /\ calling = [rx |-> FALSE, closed |-> {}] /\ displaced = {}

Borrowed == \E c \in Watchers : closed[c] # "none"

(* Sender::send consumes the sender; a refused value goes back to the caller. *)
SendTakesWaker_Never == FALSE
SendTakesWaker == st.receiver_waker
send ==
  /\ tx = "held" /\ ~Borrowed /\ tx' = "sent"
  /\ IF ~st.receiver_alive \/ st.sent
     THEN UNCHANGED <<st, calling>>
     ELSE /\ st' = [st EXCEPT !.sent = TRUE, !.value = TRUE, !.receiver_waker = FALSE]
          /\ calling' = [calling EXCEPT !.rx = @ \/ SendTakesWaker]
  /\ UNCHANGED <<closed, rcv, displaced>>

DropSender ==
  /\ tx = "held" /\ ~Borrowed /\ tx' = "dropped"
  /\ st' = [st EXCEPT !.sender_alive = FALSE, !.receiver_waker = @ /\ st.sent]
  /\ calling' = [calling EXCEPT !.rx = @ \/ (st.receiver_waker /\ ~st.sent)]
  /\ UNCHANGED <<closed, rcv, displaced>>

(* Receiver::poll *)
PollReceiver ==
  /\ rcv \in {"idle", "ready"}
  /\ \/ st.value /\ st' = [st EXCEPT !.value = FALSE] /\ rcv' = "ok"
     \/ ~st.value /\ (st.sent \/ ~st.sender_alive) /\ rcv' = "err" /\ UNCHANGED st
     \/ /\ ~st.value /\ ~st.sent /\ st.sender_alive
        /\ st' = [st EXCEPT !.receiver_waker = TRUE] /\ rcv' = "parked"
  /\ UNCHANGED <<tx, closed, calling, displaced>>

(* Receiver::drop; after Ready the inner is taken and the drop does nothing. *)
DropReceiver ==
  /\ rcv \in {"idle", "ready", "parked"} /\ rcv' = "dropped"
  /\ st' = [st EXCEPT !.receiver_alive = FALSE, !.closed_waker = {}]
  /\ calling' = [calling EXCEPT !.closed = @ \cup st.closed_waker]
  /\ UNCHANGED <<tx, closed, displaced>>

(* Sender::closed, Closed::poll and the drop of a Closed, which leaves its waker behind. *)
NewClosed(c) ==
  /\ tx = "held" /\ closed[c] = "none" /\ closed' = [closed EXCEPT ![c] = "ready"]
  /\ UNCHANGED <<st, tx, rcv, calling, displaced>>

ClosedSees == ~st.receiver_alive
PollClosed(c) ==
  /\ closed[c] = "ready" /\ closed' = [closed EXCEPT ![c] = IF ClosedSees THEN "none" ELSE "parked"]
  /\ IF ClosedSees THEN UNCHANGED <<st, displaced>>
     ELSE /\ st' = [st EXCEPT !.closed_waker = {c}]
          /\ displaced' = (displaced \cup st.closed_waker) \ {c}
  /\ UNCHANGED <<tx, rcv, calling>>

DropClosed(c) ==
  /\ closed[c] # "none" /\ closed' = [closed EXCEPT ![c] = "none"]
  /\ UNCHANGED <<st, tx, rcv, calling, displaced>>

Woken(state) == IF state = "parked" THEN "ready" ELSE state
CallWaker ==
  \/ /\ calling.rx /\ calling' = [calling EXCEPT !.rx = FALSE] /\ rcv' = Woken(rcv)
     /\ UNCHANGED <<st, tx, closed, displaced>>
  \/ \E c \in calling.closed :
       /\ calling' = [calling EXCEPT !.closed = @ \ {c}] /\ closed' = [closed EXCEPT ![c] = Woken(@)]
       /\ UNCHANGED <<st, tx, rcv, displaced>>

SpuriousPoll ==
  \/ rcv = "parked" /\ rcv' = "ready" /\ UNCHANGED <<st, tx, closed, calling, displaced>>
  \/ \E c \in Watchers : /\ closed[c] = "parked" /\ closed' = [closed EXCEPT ![c] = "ready"]
                         /\ UNCHANGED <<st, tx, rcv, calling, displaced>>

Next ==
  \/ send \/ DropSender \/ PollReceiver \/ DropReceiver
  \/ CallWaker \/ SpuriousPoll
  \/ \E c \in Watchers : NewClosed(c) \/ PollClosed(c) \/ DropClosed(c)

Spec == Init /\ [][Next]_vars

-----------------------------------------------------------------------------
(* ValueSettled: an accepted value is in the cell, was received, or died with *)
(* the receiver; an error means the sender was dropped without sending.       *)
ValueSettled ==
  /\ st.sent => st.value \/ rcv = "ok" \/ rcv = "dropped"
  /\ st.value => st.sent
  /\ rcv = "err" => tx = "dropped"
  /\ rcv = "ok" => tx = "sent"

(* NoOneStranded: a parked half has no reason to move, or its wake is in flight:  *)
(* whichever way send, the drops and the polls of receiver and Closed interleave.  *)
(* Of several Closed futures this is said of the one that parked last; the others  *)
(* are displaced.                                                                 *)
NoOneStranded ==
  /\ rcv = "parked" => \/ calling.rx
                       \/ st.receiver_waker /\ ~st.sent /\ st.sender_alive
  /\ \A c \in Watchers \ displaced :
       closed[c] = "parked" => c \in calling.closed \/ (c \in st.closed_waker /\ st.receiver_alive)

OneshotSound == ValueSettled /\ NoOneStranded

(* EveryClosedIsTold: every parked Closed learns of the receiver's death.  The code *)
(* does not keep this: there is one closed_waker, and a second Closed replaces it.  *)
EveryClosedIsTold ==
  \A c \in Watchers : closed[c] = "parked" /\ ~st.receiver_alive => c \in calling.closed
=============================================================================
