----------------------------- MODULE DelayQueue -----------------------------
(***************************************************************************)
(* time/delay_queue.rs: values with a timer each and one FireSink that is    *)
(* the waker of all of them.  The owner calls insert, remove, poll_expired   *)
(* and close one after the other (&mut self); the timer driver fires entries *)
(* and calls the sink at any point between their steps.  The wheel itself is *)
(* TimerWheel: here an armed timer may fire at any time.                     *)
(***************************************************************************)
EXTENDS Integers, Sequences, FiniteSets, SequencesExt

CONSTANT Keys \* values, each inserted at most once

VARIABLES
  entries,  \* QueueState::entries
  expired,  \* QueueState::expired
  closed,   \* QueueState::closed
  timer,    \* per key: "none", "armed", "fired", "cancelled"
  calling,  \* keys whose timer waker, the sink, is about to be called
  sink,     \* FireSink: the task its waker belongs to ("none", "old", "now"), notified
  owner,    \* pc of the owner, and the key it works on
  woken,    \* the owner's task was woken
  moved,    \* the queue was passed to another task after a poll
  out       \* per key: how its value left: "no", "expired", "removed", "dropped"

vars == <<entries, expired, closed, timer, calling, sink, owner, woken, moved, out>>

None == "none"
Init ==
  /\ entries = {} /\ expired = <<>> /\ closed = FALSE
  /\ timer = [k \in Keys |-> "none"] /\ calling = {}
  /\ sink = [waker |-> "none", notified |-> FALSE]
  /\ owner = [pc |-> "idle", key |-> None] /\ woken = FALSE /\ moved = FALSE
  /\ out = [k \in Keys |-> "no"]

Go(pc, k) == owner' = [pc |-> pc, key |-> k]
Idle == owner.pc \in {"idle", "pending"}

(* FireSink::notify holds the waker lock to its end. *)
Remembers_Never == FALSE
Remembers == TRUE
notify ==
  IF sink.waker = "none"
  THEN sink' = [sink EXCEPT !.notified = Remembers] /\ UNCHANGED woken
  ELSE sink' = [sink EXCEPT !.waker = "none"] /\ woken' = (woken \/ sink.waker = "now")

-----------------------------------------------------------------------------
(* The timer driver: fired is set, then the waker is called. *)
Fire(k) ==
  /\ timer[k] = "armed"
  /\ timer' = [timer EXCEPT ![k] = "fired"] /\ calling' = calling \cup {k}
  /\ UNCHANGED <<entries, expired, closed, sink, owner, woken, moved, out>>

CallSink(k) ==
  /\ k \in calling /\ calling' = calling \ {k} /\ notify
  /\ UNCHANGED <<entries, expired, closed, timer, owner, moved, out>>

-----------------------------------------------------------------------------
(* insert_inner: arm, then the table, then the sink for what is due already. *)
insert(k) ==
  /\ Idle /\ ~closed /\ timer[k] = "none"
  /\ \E due \in BOOLEAN : /\ timer' = [timer EXCEPT ![k] = IF due THEN "fired" ELSE "armed"]
                          /\ Go(IF due THEN "expire" ELSE "store", k)
  /\ UNCHANGED <<entries, expired, closed, calling, sink, woken, moved, out>>

InsertStore ==
  /\ owner.pc \in {"store", "expire"}
  /\ IF owner.pc = "store"
     THEN entries' = entries \cup {owner.key} /\ Go("idle", None) /\ UNCHANGED expired
     ELSE expired' = Append(expired, owner.key) /\ Go("notify", None) /\ UNCHANGED entries
  /\ UNCHANGED <<closed, timer, calling, sink, woken, moved, out>>

InsertNotify ==
  /\ owner.pc = "notify" /\ Go("idle", None) /\ notify
  /\ UNCHANGED <<entries, expired, closed, timer, calling, moved, out>>

(* remove and remove_if: a fired entry is refused; the driver's cancel takes the  *)
(* wheel lock, so the timer may fire in between and then stays fired.             *)
remove(k) ==
  /\ Idle /\ k \in entries /\ timer[k] # "fired" /\ Go("cancel", k)
  /\ UNCHANGED <<entries, expired, closed, timer, calling, sink, woken, moved, out>>

RemoveCancel ==
  /\ owner.pc = "cancel" /\ Go("idle", None)
  /\ timer' = [timer EXCEPT ![owner.key] = IF @ = "armed" THEN "cancelled" ELSE @]
  /\ entries' = entries \ {owner.key} /\ out' = [out EXCEPT ![owner.key] = "removed"]
  /\ UNCHANGED <<expired, closed, calling, sink, woken, moved>>

(* poll_expired: collect what has fired and hand out one, else leave the waker and *)
(* look at notified.                                                               *)
Fired == {k \in entries : timer[k] = "fired"}
Collect ==
  /\ owner.pc \in {"idle", "pending", "again"}
  /\ LET all == expired \o SetToSeq(Fired)
     IN  /\ entries' = entries \ Fired
         /\ woken' = (woken /\ owner.pc = "again")
         /\ IF all # <<>>
            THEN /\ expired' = Tail(all) /\ out' = [out EXCEPT ![Head(all)] = "expired"]
                 /\ Go("idle", None)
            ELSE Go("register", None) /\ UNCHANGED <<expired, out>>
  /\ UNCHANGED <<closed, timer, calling, sink, moved>>

Register ==
  /\ owner.pc = "register"
  /\ IF closed /\ entries = {} /\ expired = <<>> THEN Go("idle", None) /\ UNCHANGED sink
     ELSE Go("swap", None) /\ sink' = [sink EXCEPT !.waker = "now"]
  /\ UNCHANGED <<entries, expired, closed, timer, calling, woken, moved, out>>

SwapNotified ==
  /\ owner.pc = "swap" /\ sink' = [sink EXCEPT !.notified = FALSE]
  /\ Go(IF sink.notified THEN "again" ELSE "pending", None)
  /\ UNCHANGED <<entries, expired, closed, timer, calling, woken, moved, out>>

close ==
  /\ Idle /\ ~closed /\ closed' = TRUE /\ Go("idle", None)
  /\ UNCHANGED <<entries, expired, timer, calling, sink, woken, moved, out>>

(* The queue is given to another task: the waker it holds is of the old one. *)
MoveQueue ==
  /\ owner.pc \in {"idle", "pending"} /\ ~moved /\ moved' = TRUE /\ Go("idle", None) /\ woken' = FALSE
  /\ sink' = [sink EXCEPT !.waker = IF @ = "now" THEN "old" ELSE @]
  /\ UNCHANGED <<entries, expired, closed, timer, calling, out>>

DropQueue ==
  /\ Idle /\ Go("gone", None)
  /\ entries' = {} /\ expired' = <<>>
  /\ out' = [k \in Keys |-> IF k \in entries \cup ToSet(expired) THEN "dropped" ELSE out[k]]
  /\ timer' = [k \in Keys |-> IF k \in entries /\ timer[k] = "armed" THEN "cancelled" ELSE timer[k]]
  /\ UNCHANGED <<closed, calling, sink, woken, moved>>

Next ==
  \/ InsertStore \/ InsertNotify \/ RemoveCancel \/ Collect \/ Register \/ SwapNotified
  \/ close \/ MoveQueue \/ DropQueue
  \/ \E k \in Keys : Fire(k) \/ CallSink(k) \/ insert(k) \/ remove(k)

Spec == Init /\ [][Next]_vars

-----------------------------------------------------------------------------
(* ValueOnce: a value is in the table or in the expired list or left once, and  *)
(* what left is nowhere any more.                                               *)
ValueOnce ==
  /\ \A k \in Keys : k \in entries \cup ToSet(expired) => out[k] = "no"
  /\ entries \cap ToSet(expired) = {} /\ Cardinality(ToSet(expired)) = Len(expired)

(* FireSeen: a task parked in next() beside an expired entry has been woken or the *)
(* call that wakes it is coming, however the firing fell between its look at the   *)
(* table, its waker and its look at notified; a queue that changed tasks excepted. *)
FireSeen ==
  owner.pc = "pending" /\ (Fired # {} \/ expired # <<>>) /\ ~moved => woken \/ Fired \cap calling # {}

DelayQueueSound == ValueOnce /\ FireSeen

(* FireSeenAnywhere: the same for a queue passed between tasks.  The code does not  *)
(* keep this: a waker left by the old task swallows the notification.               *)
FireSeenAnywhere ==
  owner.pc = "pending" /\ (Fired # {} \/ expired # <<>>) => woken \/ Fired \cap calling # {}
=============================================================================
