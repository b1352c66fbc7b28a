-------------------------------- MODULE Mpsc --------------------------------
(***************************************************************************)
(* sync/mpsc.rs: the bounded channel.  Every critical section holds the     *)
(* state mutex to its end, wakes included, except the drop of the last      *)
(* Sender and of the Receiver, which call the wakers they took after        *)
(* releasing it.  A poll the cooperative budget turns away changes nothing. *)
(* An unbounded channel is the case where capacity is always available and  *)
(* no sender ever waits.                                                    *)
(***************************************************************************)
EXTENDS Integers, Sequences, FiniteSets, WaitQueue

CONSTANTS
  Ops,        \* the Send and Reserve futures, with their Arc<Waiter>
  Cap,        \* State::capacity
  MaxSenders  \* bound: Sender handles alive at once

VARIABLES
  ch,    \* State, with rx: what the receiver's task does
  op,    \* per future: its fields and those of its Waiter
  late,  \* futures whose waker a finished Receiver::drop has still to take
  lateRx \* the receiver waker a finished Sender::drop has still to call

vars == <<ch, op, late, lateRx>>

Fresh(reserves, status) ==
  [reserves |-> reserves, status |-> status, registered |-> FALSE, granted |-> FALSE, waker |-> FALSE]
Pending(o) == op[o].status \in {"ready", "parked"}

Init ==
  /\ ch = [queue |-> <<>>, reserved |-> 0, senders |-> 1, receiver_alive |-> TRUE,
           recv_waker |-> FALSE, send_waiters |-> <<>>, rx |-> "idle"]
  /\ op = [o \in Ops |-> Fresh(FALSE, "none")]
  /\ late = {} /\ lateRx = FALSE

capacity_available(c) == Len(c.queue) + c.reserved < Cap

Woken(status) == IF status = "parked" THEN "ready" ELSE status

wake_receiver(c) ==
  [c EXCEPT !.recv_waker = FALSE, !.rx = IF c.recv_waker THEN Woken(@) ELSE @]

Push(c, o) == wake_receiver([c EXCEPT !.queue = Append(@, o)])

WakeWaiter(w) == [w EXCEPT !.waker = FALSE, !.status = IF w.waker THEN Woken(@) ELSE @]

(* Grants the front waiter; a Reserve waiter's slot is counted here. *)
GrantCounts(w) == IF w.reserves THEN 1 ELSE 0
Grants(c) == capacity_available(c) /\ c.send_waiters # <<>>
WakeOneSender(c, f) ==
  LET h == Head(c.send_waiters)
  IN  /\ ch' = IF Grants(c)
               THEN [c EXCEPT !.reserved = @ + GrantCounts(f[h]), !.send_waiters = Tail(@)]
               ELSE c
      /\ op' = IF Grants(c) THEN [f EXCEPT ![h] = WakeWaiter([@ EXCEPT !.granted = TRUE])] ELSE f

CloneSender ==
  /\ ch.senders \in 1 .. MaxSenders - 1
  /\ ch' = [ch EXCEPT !.senders = @ + 1]
  /\ UNCHANGED <<op, late, lateRx>>

(* A future borrows a Sender: the last one outlives every pending future. *)
DropSender ==
  /\ ch.senders > (IF \E o \in Ops : Pending(o) THEN 1 ELSE 0)
  /\ LET last == ch.senders = 1
     IN  /\ ch' = [ch EXCEPT !.senders = @ - 1, !.recv_waker = @ /\ ~last]
         /\ lateRx' = (lateRx \/ (last /\ ch.recv_waker))
  /\ UNCHANGED <<op, late>>

WakeLateRx ==
  /\ lateRx /\ lateRx' = FALSE
  /\ ch' = [ch EXCEPT !.rx = Woken(@)]
  /\ UNCHANGED <<op, late>>

send(o) ==
  /\ ch.senders > 0 /\ op[o].status = "none" /\ o \notin late
  /\ op' = [op EXCEPT ![o] = Fresh(FALSE, "ready")]
  /\ UNCHANGED <<ch, late, lateRx>>

reserve(o) ==
  /\ ch.senders > 0 /\ op[o].status = "none" /\ o \notin late
  /\ op' = [op EXCEPT ![o] = Fresh(TRUE, "ready")]
  /\ UNCHANGED <<ch, late, lateRx>>

try_send ==
  /\ ch.senders > 0 /\ ch.receiver_alive /\ capacity_available(ch) /\ ch.send_waiters = <<>>
  /\ ch' = Push(ch, "item")
  /\ UNCHANGED <<op, late, lateRx>>

(* The end of a poll that could not proceed: the waker is stored and the waiter  *)
(* is linked unless it is linked already.                                        *)
Park(o, registered) ==
  /\ op' = [op EXCEPT ![o].status = "parked", ![o].waker = TRUE, ![o].granted = FALSE,
                      ![o].registered = TRUE]
  /\ ch' = IF registered THEN ch ELSE [ch EXCEPT !.send_waiters = Append(@, o)]

(* A pending future resolves and is dropped; what its drop finds is that it is   *)
(* neither granted nor linked (when the receiver is gone, see DropOp).           *)
Resolved(o, status) == op' = [op EXCEPT ![o] = Fresh(@.reserves, status)]

(* A grant that was lost to a competing push registers the Send from scratch. *)
StillRegistered(o) == op[o].registered /\ ~op[o].granted

PollSend(o) ==
  /\ op[o].status = "ready" /\ ~op[o].reserves /\ ch.receiver_alive
  /\ IF capacity_available(ch) /\ (op[o].granted \/ (~op[o].registered /\ ch.send_waiters = <<>>))
     THEN ch' = Push(ch, "item") /\ Resolved(o, "none")
     ELSE Park(o, StillRegistered(o))
  /\ UNCHANGED <<late, lateRx>>

PollReserve(o) ==
  /\ op[o].status = "ready" /\ op[o].reserves /\ ch.receiver_alive
  /\ \/ op[o].granted /\ Resolved(o, "permit") /\ UNCHANGED ch
     \/ /\ ~op[o].granted /\ ~op[o].registered /\ ch.send_waiters = <<>> /\ capacity_available(ch)
        /\ ch' = [ch EXCEPT !.reserved = @ + 1]
        /\ Resolved(o, "permit")
     \/ /\ ~op[o].granted
        /\ op[o].registered \/ ch.send_waiters # <<>> \/ ~capacity_available(ch)
        /\ Park(o, op[o].registered)
  /\ UNCHANGED <<late, lateRx>>

(* Send::drop and Reserve::drop, of a pending future or of one whose poll returned *)
(* the receiver's death: unlink, and pass a grant on.                              *)
Unlinked(c, o) == [c EXCEPT !.send_waiters = Without(@, o)]
PassesOn_Never(o) == FALSE
PassesOn(o) == op[o].granted
DropOp(o) ==
  /\ Pending(o)
  /\ LET c == IF op[o].registered THEN Unlinked(ch, o) ELSE ch
         f == [op EXCEPT ![o] = Fresh(FALSE, "none")]
         freed == IF op[o].granted /\ op[o].reserves THEN 1 ELSE 0
     IN  IF PassesOn(o)
         THEN WakeOneSender([c EXCEPT !.reserved = @ - freed], f)
         ELSE ch' = c /\ op' = f
  /\ UNCHANGED <<late, lateRx>>

PermitSend(o) ==
  /\ op[o].status = "permit"
  /\ LET c == [ch EXCEPT !.reserved = @ - 1]
     IN  ch' = IF ch.receiver_alive THEN Push(c, "item") ELSE c
  /\ op' = [op EXCEPT ![o] = Fresh(FALSE, "none")]
  /\ UNCHANGED <<late, lateRx>>

PermitDrop(o) ==
  /\ op[o].status = "permit"
  /\ WakeOneSender([ch EXCEPT !.reserved = @ - 1], [op EXCEPT ![o] = Fresh(FALSE, "none")])
  /\ UNCHANGED <<late, lateRx>>

(* recv, and each turn of recv_many, awaits a Recv that may be dropped at any poll. *)
recv ==
  /\ ch.rx = "idle" /\ ch' = [ch EXCEPT !.rx = "ready"]
  /\ UNCHANGED <<op, late, lateRx>>

CancelRecv ==
  /\ ch.rx \in {"ready", "parked"} /\ ch' = [ch EXCEPT !.rx = "idle"]
  /\ UNCHANGED <<op, late, lateRx>>

PollRecv ==
  /\ ch.rx = "ready"
  /\ \/ /\ ch.queue # <<>>
        /\ WakeOneSender([ch EXCEPT !.queue = Tail(@), !.rx = "idle"], op)
     \/ /\ ch.queue = <<>> /\ ch.senders = 0
        /\ ch' = [ch EXCEPT !.rx = "ended"] /\ UNCHANGED op
     \/ /\ ch.queue = <<>> /\ ch.senders # 0
        /\ ch' = [ch EXCEPT !.recv_waker = TRUE, !.rx = "parked"] /\ UNCHANGED op
  /\ UNCHANGED <<late, lateRx>>

(* Receiver::drop does nothing once recv has returned None: inner is taken. *)
DropReceiver ==
  /\ ch.rx = "idle"
  /\ ch' = [ch EXCEPT !.rx = "dropped", !.receiver_alive = FALSE, !.send_waiters = <<>>]
  /\ late' = {ch.send_waiters[i] : i \in DOMAIN ch.send_waiters}
  /\ UNCHANGED <<op, lateRx>>

WakeLate(o) ==
  /\ o \in late /\ late' = late \ {o}
  /\ op' = [op EXCEPT ![o] = WakeWaiter(@)]
  /\ UNCHANGED <<ch, lateRx>>

(* The task awaiting a future is polled for a reason of its own, as in a select. *)
SpuriousPoll ==
  /\ \/ \E o \in Ops : /\ op[o].status = "parked" /\ op' = [op EXCEPT ![o].status = "ready"]
                       /\ UNCHANGED ch
     \/ ch.rx = "parked" /\ ch' = [ch EXCEPT !.rx = "ready"] /\ UNCHANGED op
  /\ UNCHANGED <<late, lateRx>>

Next ==
  \/ CloneSender \/ DropSender \/ WakeLateRx \/ try_send
  \/ recv \/ CancelRecv \/ PollRecv \/ DropReceiver \/ SpuriousPoll
  \/ \E o \in Ops : \/ send(o) \/ reserve(o) \/ PollSend(o) \/ PollReserve(o) \/ DropOp(o)
                    \/ PermitSend(o) \/ PermitDrop(o) \/ WakeLate(o)

Spec == Init /\ [][Next]_vars

-----------------------------------------------------------------------------
Holders == {o \in Ops : op[o].status = "permit" \/ (op[o].reserves /\ op[o].granted)}

(* SlotsExact: the channel never holds more items and reservations than its    *)
(* capacity, and reserved counts exactly the permits handed out and the        *)
(* Reserve futures granted one they have not seen yet: wake_one_sender counts  *)
(* at the grant, Reserve::poll at an immediate success, never both.            *)
SlotsExact == Len(ch.queue) + ch.reserved <= Cap /\ ch.reserved = Cardinality(Holders)

(* WaitersReachable: a registered, ungranted future is linked exactly once while *)
(* the receiver lives, and only such futures are linked.                         *)
WaitersReachable ==
  \A o \in Ops :
    Cardinality({i \in DOMAIN ch.send_waiters : ch.send_waiters[i] = o}) =
      IF ch.receiver_alive /\ Pending(o) /\ op[o].registered /\ ~op[o].granted THEN 1 ELSE 0

(* SenderNotStranded: free capacity beside a queue of waiters is always on its way *)
(* to one of them, and a parked sender of a dead channel is about to be woken.     *)
SenderNotStranded ==
  /\ ch.receiver_alive /\ Grants(ch) => \E o \in Ops : Pending(o) /\ op[o].granted
  /\ \A o \in Ops : op[o].status = "parked" =>
       (IF ch.receiver_alive THEN ~op[o].granted ELSE o \in late)

(* ReceiverNotStranded: a parked receiver has nothing to receive and a sender *)
(* left, or its wake is in flight.                                            *)
ReceiverNotStranded ==
  ch.rx = "parked" => lateRx \/ (ch.recv_waker /\ ch.queue = <<>> /\ ch.senders > 0)

(* The channel as its users see it: slots are exact and nobody waits for a wake *)
(* that will not come, under any cancellation, grant and drop order.            *)
MpscSound == SlotsExact /\ WaitersReachable /\ SenderNotStranded /\ ReceiverNotStranded
=============================================================================
