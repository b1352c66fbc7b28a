----------------------------- MODULE ScheduledIo -----------------------------
(***************************************************************************)
(* io/driver.rs with io/mod.rs (Registration), io/net.rs, io/unix.rs and     *)
(* io/poll_evented.rs: one slab index, the ScheduledIo registered there, the *)
(* worker that dispatches kernel events to it, and the tasks that read,      *)
(* write, accept and connect on the descriptor.                              *)
(*                                                                         *)
(* Readiness is the set of directions a waiter can ask for: READABLE,        *)
(* READ_CLOSED and ERROR all satisfy "r", WRITABLE and the closed bits "w".  *)
(* A step is one atomic access or one section under the waiters lock; the    *)
(* dispatcher's load and store of packed are two steps of one section.  The   *)
(* list of further waiters is a set: its order only orders the wakes.        *)
(***************************************************************************)
EXTENDS Integers

CONSTANTS
  Users,      \* tasks; each holds the Readiness future of its operation
  Uses,       \* the operation each of them runs, the interests registered, whether the fd is
              \* edge-triggered, and a bound on the times the peer sends, connects or makes room
  GenBits,    \* bits of the generation that packed keeps (31: GEN_SHIFT is 33)
  MaxGen      \* bound: registrations at this index

VARIABLES
  reg,      \* Registration: open, generation (32 bits in the Token), arrivals left
  packed,   \* ScheduledIo::packed: gen, bits
  waiters,  \* ScheduledIo::waiters: reader, writer, list
  sock,     \* the descriptor: items to read or accept, room to write
  armed,    \* EPOLLONESHOT: the kernel will report
  driver,   \* dispatch: pc, the event's token and bits, the ScheduledIo found, what it loaded, whom it popped
  user,     \* per task: pc, event snapshot, second snapshot, connections taken, read_any
  woken,    \* tasks whose waker was called since their last poll
  pending,  \* TcpListener::pending: accepted connections kept for later calls
  use,      \* the chosen member of Uses
  history   \* foreign: an event of another registration was applied; lost: connections dropped on an error

vars == <<reg, packed, waiters, sock, armed, driver, user, woken, pending, use, history>>

None == "none"
ASSUME NoneIsNoUser == None \notin Users
ASSUME GenBitsNat == GenBits \in Nat /\ 2 ^ GenBits \in Nat \ {0} /\ MaxGen \in Nat
ASSUME ArrivalsNat == \A v \in Uses : v.arrivals \in Nat

Idle == [pc |-> "idle", gen |-> 0, bits |-> {}, object |-> 0, seen |-> {}, popped |-> {}]
AtRest == [pc |-> "idle", event |-> {}, again |-> {}, taken |-> 0]
Empty == [reader |-> None, writer |-> None, list |-> {}]

Init ==
  /\ use \in Uses /\ reg = [open |-> FALSE, gen |-> 0, left |-> use.arrivals]
  /\ packed = [gen |-> 0, bits |-> {}]
  /\ waiters = Empty /\ sock = [items |-> 0, room |-> FALSE] /\ armed = FALSE
  /\ driver = Idle /\ user = [u \in Users |-> AtRest] /\ woken = {} /\ pending = 0
  /\ history = [foreign |-> FALSE, lost |-> 0]

-----------------------------------------------------------------------------
(* The operations on a descriptor.  All loop over readiness, call and clear; they     *)
(* differ in the direction, in whether the call goes through try_io_with (tries), in  *)
(* what a success does: drain and keep the rest (drains), clear (clears), read on in  *)
(* edge mode (loops), in whether there is a call at all after the wait (calls), and   *)
(* in whether they spend budget (coop).                                               *)
Reading == [dir |-> "r", tries |-> TRUE, drains |-> FALSE, clears |-> FALSE,
            loops |-> FALSE, calls |-> TRUE, coop |-> FALSE]
Writing == [Reading EXCEPT !.dir = "w"]

TcpListener_accept == [Reading EXCEPT !.drains = TRUE]
TcpStream_connect == [Writing EXCEPT !.calls = FALSE]
TcpStream_peek == Reading
TcpStream_poll_read == Reading
TcpStream_poll_write == Writing
TcpStream_poll_write_vectored == [Writing EXCEPT !.tries = FALSE]
OwnedTcpReadHalf_poll_read == Reading
OwnedTcpWriteHalf_poll_write == Writing
UdpSocket_recv_from == Reading
UdpSocket_send_to == Writing
UdpSocket_recv == Reading
UdpSocket_send == Writing
UdpSocket_poll_read == Reading
UdpSocket_poll_write == Writing
UnixListener_accept == [Reading EXCEPT !.clears = TRUE]
UnixStream_connect == [Writing EXCEPT !.calls = FALSE]
UnixDatagram_recv_from == Reading
UnixDatagram_send_to == Writing
UnixDatagram_recv == Reading
UnixDatagram_send == Writing
PollEvented_poll_read == [Reading EXCEPT !.loops = TRUE, !.coop = TRUE]
PollEvented_poll_write == [Writing EXCEPT !.coop = TRUE]

(* What the constructors register. *)
TcpListener_bind == {"r"}
TcpStream_from_owned_fd == {"r", "w"}
UdpSocket_bind_one == {"r", "w"}
UnixListener_bind == {"r"}
UnixStream_from_std == {"r", "w"}
UnixDatagram_bind == {"r", "w"}

Op(u) == use.op[u]
interest_satisfied(u, ready) == Op(u).dir \in ready
Listed == {waiters.reader, waiters.writer} \cup waiters.list
Unlocked == ~(driver.pc = "store" /\ reg.open /\ driver.object = reg.gen)
Truncated(generation) == generation % 2 ^ GenBits

-----------------------------------------------------------------------------
(* DriverShared::register and deregister; the tasks borrow the Registration. *)
register ==
  /\ ~reg.open /\ reg.gen < MaxGen
  /\ reg' = [reg EXCEPT !.open = TRUE, !.gen = @ + 1]
  /\ packed' = [gen |-> Truncated(reg.gen + 1), bits |-> {}] /\ waiters' = Empty
  /\ armed' = TRUE /\ sock' = [items |-> 0, room |-> FALSE]
  /\ UNCHANGED <<driver, user, woken, pending, use, history>>

deregister ==
  /\ reg.open /\ \A u \in Users : user[u].pc = "idle"
  /\ reg' = [reg EXCEPT !.open = FALSE] /\ armed' = FALSE /\ pending' = 0
  /\ UNCHANGED <<packed, waiters, sock, driver, user, woken, use, history>>

(* try_io_with rearms a one-shot filter after every call; the slab still has it. *)
reregister == armed' = TRUE

-----------------------------------------------------------------------------
(* The peer and the kernel. *)
Arrive ==
  /\ reg.open /\ reg.left > 0 /\ reg' = [reg EXCEPT !.left = @ - 1]
  /\ \/ sock' = [sock EXCEPT !.items = @ + 1]
     \/ ~sock.room /\ sock' = [sock EXCEPT !.room = TRUE]
  /\ UNCHANGED <<packed, waiters, armed, driver, user, woken, pending, use, history>>

Reports == {d \in use.interests : IF d = "r" THEN sock.items > 0 ELSE sock.room}

(* Poller::wait by the worker that holds the driver. *)
wait ==
  /\ driver.pc = "idle" /\ armed /\ Reports # {}
  /\ driver' = [Idle EXCEPT !.pc = "lookup", !.gen = reg.gen, !.bits = Reports]
  /\ armed' = ~use.edge
  /\ UNCHANGED <<reg, packed, waiters, sock, user, woken, pending, use, history>>

(* dispatch: the slab may have another registration at the index by now. *)
Stale == packed.gen # driver.gen
dispatch ==
  /\ driver.pc = "lookup"
  /\ driver' = IF ~reg.open \/ Stale THEN Idle ELSE [driver EXCEPT !.pc = "load", !.object = reg.gen]
  /\ UNCHANGED <<reg, packed, waiters, sock, armed, user, woken, pending, use, history>>

(* Of a registration dropped since then the dispatcher still has the old ScheduledIo, *)
(* which nobody waits on any more.                                                     *)
Live == reg.open /\ driver.object = reg.gen
DispatchGone ==
  /\ driver.pc \in {"load", "store"} /\ ~Live /\ driver' = Idle
  /\ UNCHANGED <<reg, packed, waiters, sock, armed, user, woken, pending, use, history>>

(* set_readiness_and_wake: lock and load, *)
LoadReady ==
  /\ driver.pc = "load" /\ Live /\ driver' = [driver EXCEPT !.pc = "store", !.seen = packed.bits]
  /\ UNCHANGED <<reg, packed, waiters, sock, armed, user, woken, pending, use, history>>

(* then store, take the waiters of the reported directions, unlock, *)
take_matching(slot) == slot # None /\ interest_satisfied(slot, driver.bits)
set_readiness_and_wake ==
  LET matching == {u \in Listed \ {None} : interest_satisfied(u, driver.bits)}
  IN  /\ driver.pc = "store" /\ Live
      /\ packed' = [packed EXCEPT !.bits = driver.seen \cup driver.bits]
      /\ waiters' = [reader |-> IF take_matching(waiters.reader) THEN None ELSE waiters.reader,
                     writer |-> IF take_matching(waiters.writer) THEN None ELSE waiters.writer,
                     list |-> {u \in waiters.list : ~interest_satisfied(u, driver.bits)}]
      /\ driver' = [driver EXCEPT !.pc = "wake", !.popped = matching]
      /\ history' = [history EXCEPT !.foreign = @ \/ driver.gen # reg.gen]
      /\ UNCHANGED <<reg, sock, armed, user, woken, pending, use>>

(* and wake them. *)
WakePopped ==
  /\ driver.pc = "wake" /\ woken' = woken \cup driver.popped /\ driver' = Idle
  /\ UNCHANGED <<reg, packed, waiters, sock, armed, user, pending, use, history>>

-----------------------------------------------------------------------------
(* Readiness::poll *)
Go(u, pc) == user' = [user EXCEPT ![u].pc = pc]

Begin(u) ==
  /\ user[u].pc = "idle" /\ reg.open
  /\ IF Op(u).drains /\ pending > 0
     THEN pending' = pending - 1 /\ UNCHANGED <<user, woken>>
     ELSE user' = [user EXCEPT ![u] = [AtRest EXCEPT !.pc = "look"]] /\ woken' = woken \ {u} /\ UNCHANGED pending
  /\ UNCHANGED <<reg, packed, waiters, sock, armed, driver, use, history>>

(* A poll by its own waker or by another future of the same task. *)
Repoll(u) ==
  /\ user[u].pc = "parked" /\ woken' = woken \ {u}
  /\ user' = [user EXCEPT ![u] = [AtRest EXCEPT !.pc = "look"]]
  /\ UNCHANGED <<reg, packed, waiters, sock, armed, driver, pending, use, history>>

(* coop::poll_proceed: no budget left, the task is woken at once. *)
OutOfBudget(u) ==
  /\ Op(u).coop /\ reg.open /\ user[u].pc \in {"idle", "parked"}
  /\ user' = [user EXCEPT ![u] = [AtRest EXCEPT !.pc = "parked"]] /\ woken' = woken \cup {u}
  /\ UNCHANGED <<reg, packed, waiters, sock, armed, driver, pending, use, history>>

AfterReady(u) == IF Op(u).calls THEN "call" ELSE "clear"
readiness(u) ==
  /\ user[u].pc = "look"
  /\ user' = IF interest_satisfied(u, packed.bits)
             THEN [user EXCEPT ![u].pc = "detach", ![u].event = packed.bits]
             ELSE [user EXCEPT ![u].pc = "redetach"]
  /\ UNCHANGED <<reg, packed, waiters, sock, armed, driver, woken, pending, use, history>>

(* remove_slot_waiter, remove_list_waiter *)
Detached(u) ==
  [reader |-> IF waiters.reader = u THEN None ELSE waiters.reader,
   writer |-> IF waiters.writer = u THEN None ELSE waiters.writer,
   list |-> waiters.list \ {u}]

detach(u) ==
  /\ user[u].pc \in {"detach", "redetach"} /\ Unlocked
  /\ waiters' = Detached(u) /\ Go(u, IF user[u].pc = "detach" THEN AfterReady(u) ELSE "add")
  /\ UNCHANGED <<reg, packed, sock, armed, driver, woken, pending, use, history>>

Rechecks_Never(u) == FALSE
Rechecks(u) == interest_satisfied(u, packed.bits)
add_waiter(u) ==
  /\ user[u].pc = "add" /\ Unlocked
  /\ IF Rechecks(u)
     THEN user' = [user EXCEPT ![u].pc = AfterReady(u), ![u].event = packed.bits] /\ UNCHANGED waiters
     ELSE /\ Go(u, "parked")
          /\ waiters' = IF Op(u).dir = "r" /\ waiters.reader = None THEN [waiters EXCEPT !.reader = u]
                        ELSE IF Op(u).dir = "w" /\ waiters.writer = None THEN [waiters EXCEPT !.writer = u]
                        ELSE [waiters EXCEPT !.list = @ \cup {u}]
  /\ UNCHANGED <<reg, packed, sock, armed, driver, woken, pending, use, history>>

(* The future of the operation is dropped: Readiness::drop. *)
DropWait(u) ==
  /\ user[u].pc = "parked" /\ Unlocked /\ waiters' = Detached(u) /\ user' = [user EXCEPT ![u] = AtRest]
  /\ UNCHANGED <<reg, packed, sock, armed, driver, woken, pending, use, history>>

-----------------------------------------------------------------------------
(* try_io_with: the call, the rearm, and on WouldBlock a look that is cleared at once. *)
Answers(u) == IF Op(u).dir = "r" THEN sock.items > 0 ELSE sock.room
recv_into == sock.items > 0 /\ sock' = [sock EXCEPT !.items = @ - 1]
send_from == sock.room /\ sock' = [sock EXCEPT !.room = FALSE]
accept_tcp(u) == recv_into /\ pending' = IF user[u].taken > 0 THEN pending + 1 ELSE pending
Rearms(u) == IF use.edge /\ Op(u).tries THEN reregister ELSE UNCHANGED armed

CallOk(u) ==
  /\ user[u].pc = "call"
  /\ IF Op(u).drains THEN accept_tcp(u)
     ELSE UNCHANGED pending /\ IF Op(u).dir = "r" THEN recv_into ELSE send_from
  /\ \/ Op(u).drains /\ user' = [user EXCEPT ![u].taken = @ + 1]
     \/ Op(u).clears /\ user' = [user EXCEPT ![u].taken = @ + 1, ![u].pc = "clear"]
     \/ use.edge /\ Op(u).loops /\ user' = [user EXCEPT ![u].taken = @ + 1, ![u].pc = "look"]
     \/ ~Op(u).drains /\ ~Op(u).clears /\ user' = [user EXCEPT ![u] = AtRest]
  /\ Rearms(u)
  /\ UNCHANGED <<reg, packed, waiters, driver, woken, use, history>>

CallBlocks(u) ==
  /\ user[u].pc = "call" /\ ~Answers(u)
  /\ Go(u, IF ~Op(u).tries THEN "clear" ELSE IF use.edge THEN "rearm" ELSE "snap")
  /\ UNCHANGED <<reg, packed, waiters, sock, armed, driver, woken, pending, use, history>>

(* Any other error ends the operation; a listener drops what it had accepted first. *)
CallFails(u) ==
  /\ user[u].pc = "call" /\ user' = [user EXCEPT ![u] = AtRest]
  /\ history' = [history EXCEPT !.lost = @ + IF Op(u).drains /\ user[u].taken > 0 THEN 1 ELSE 0]
  /\ Rearms(u)
  /\ UNCHANGED <<reg, packed, waiters, sock, driver, woken, pending, use>>

Rearm(u) ==
  /\ user[u].pc = "rearm" /\ Go(u, "snap") /\ reregister
  /\ UNCHANGED <<reg, packed, waiters, sock, driver, woken, pending, use, history>>

Snap(u) ==
  /\ user[u].pc = "snap"
  /\ user' = IF interest_satisfied(u, packed.bits)
             THEN [user EXCEPT ![u].pc = "clear_again", ![u].again = packed.bits]
             ELSE [user EXCEPT ![u].pc = "clear"]
  /\ UNCHANGED <<reg, packed, waiters, sock, armed, driver, woken, pending, use, history>>

(* ReadyEvent::clear_ready: only what is still exactly what the event saw. *)
clear_ready(seen) == packed' = IF packed.bits = seen THEN [packed EXCEPT !.bits = {}] ELSE packed

ClearAgain(u) ==
  /\ user[u].pc = "clear_again" /\ clear_ready(user[u].again) /\ Go(u, "clear")
  /\ UNCHANGED <<reg, waiters, sock, armed, driver, woken, pending, use, history>>

(* A drained listener, an edge read that has read something, connect: over. *)
ClearEvent(u) ==
  /\ user[u].pc = "clear" /\ clear_ready(user[u].event)
  /\ user' = IF user[u].taken > 0 \/ ~Op(u).calls THEN [user EXCEPT ![u] = AtRest]
             ELSE [user EXCEPT ![u].pc = "look"]
  /\ UNCHANGED <<reg, waiters, sock, armed, driver, woken, pending, use, history>>

Next ==
  \/ register \/ deregister \/ Arrive \/ wait \/ dispatch \/ DispatchGone \/ LoadReady \/ set_readiness_and_wake \/ WakePopped
  \/ \E u \in Users :
       \/ Begin(u) \/ Repoll(u) \/ OutOfBudget(u) \/ readiness(u) \/ detach(u) \/ add_waiter(u) \/ DropWait(u)
       \/ CallOk(u) \/ CallBlocks(u) \/ CallFails(u) \/ Rearm(u) \/ Snap(u) \/ ClearAgain(u) \/ ClearEvent(u)

Spec == Init /\ [][Next]_vars

-----------------------------------------------------------------------------
(* ParkedIsHeard: a parked task is on a slot or on the list, or it has been taken    *)
(* off it to be woken: detaching, re-registering and dispatching never leave it out,  *)
(* however two waiters of one direction share the slot.                              *)
ParkedIsHeard == \A u \in Users : user[u].pc = "parked" => u \in Listed \cup woken \cup driver.popped

(* NotBesideReady: nobody waits for a direction that packed already shows: readiness  *)
(* looks without the lock, so a dispatch between the look and the registration must    *)
(* be seen by the second look under the lock.                                         *)
NotBesideReady == \A u \in Listed \ {None} : ~interest_satisfied(u, packed.bits)

(* OwnEvents: an event fetched for one registration is never applied to the next      *)
(* registration that took its slab index.                                             *)
OwnEvents == ~history.foreign

ReadinessSound == ParkedIsHeard /\ NotBesideReady /\ OwnEvents

(* The code does not keep the following ones. *)

(* EdgeNotStranded: "a short read cannot strand a still-ready fd" (io/mod.rs:439): a    *)
(* parked task whose direction is ready will be told.  The event that answers the rearm *)
(* can be dispatched before the look that is cleared at once.                           *)
EdgeNotStranded ==
  \A u \in Users : user[u].pc = "parked" /\ Answers(u) =>
     u \in woken \/ armed \/ driver.pc # "idle" \/ \E v \in Users \ {u} : user[v].pc \notin {"idle", "parked"}

(* NothingHeldBack: a read that returns Pending has put nothing in the caller's buffer. *)
NothingHeldBack == \A u \in Users : user[u].pc = "parked" => user[u].taken = 0

(* HandedOut: no accept waits while an accepted connection is kept for a later call. *)
HandedOut == pending > 0 => \A u \in Users : ~(Op(u).drains /\ user[u].pc = "parked" /\ u \notin woken)

(* ConnectionsKept: an accepted connection is returned or kept. *)
ConnectionsKept == history.lost = 0

(* GenerationKept: an event of the live registration is not taken for a stale one. *)
GenerationKept == reg.open => packed.gen = reg.gen
=============================================================================
