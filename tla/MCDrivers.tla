------------------------------ MODULE MCDrivers ------------------------------
(***************************************************************************)
(* What waits on the outside world: the I/O driver with its sockets, the     *)
(* timer wheel and the io_uring driver.  A behaviour picks the one it is     *)
(* about; the others stay as they began.                                     *)
(***************************************************************************)
EXTENDS Drivers, TLC

VARIABLES
  subject,                                                       \* the component of this behaviour
  wheel, timers, clock, sleep, wWoken, ringing, wDriver, peer, moving, stale, astray \* TimerWheel

(* Two operations on one descriptor: both directions of a level-triggered stream, two *)
(* accepts, a connect beside a Unix accept, two reads that share a direction, and     *)
(* both directions of an edge-triggered PollEvented.                                   *)
Using(p, q, interests, edge, arrivals) ==
  [op |-> [u \in Users |-> IF u = "a" THEN p ELSE q], interests |-> interests, edge |-> edge, arrivals |-> arrivals]
MCUses ==
  {Using(TcpStream_poll_read, TcpStream_poll_write_vectored, TcpStream_from_owned_fd, FALSE, 1),
   Using(TcpListener_accept, TcpListener_accept, TcpListener_bind, FALSE, 2),
   Using(TcpStream_connect, UnixListener_accept, UdpSocket_bind_one, FALSE, 1),
   Using(UdpSocket_recv, UdpSocket_recv, UdpSocket_bind_one, FALSE, 1),
   Using(PollEvented_poll_read, PollEvented_poll_write, {"r", "w"}, TRUE, 2)}

(* A stream beside a request, and each other class by itself. *)
MCClasses == {("a" :> "maccept") @@ ("b" :> "rw"), "a" :> "mrecv", "a" :> "accept", "a" :> "vec", "a" :> "plain"}

(* Two levels of two slots: a deadline is in a far slot, in a near one or passed. *)
W == INSTANCE TimerWheel WITH Timers <- {"a", "b"}, Slots <- 2, Levels <- 2, MaxMs <- 4, Dues <- {3, 8}, Period <- 3,
       Scenarios <- {[moving |-> {"a"}, pauses |-> 0, shared |-> FALSE], [moving |-> {}, pauses |-> 1, shared |-> FALSE],
                     [moving |-> {}, pauses |-> 0, shared |-> TRUE]},
       entry <- timers, woken <- wWoken, driver <- wDriver

uVars == <<fut, home, entry, sq, taken, kern, cq, cancel_targets, reap, ring, leaked, spoilt, shots>>
wVars == <<wheel, timers, clock, sleep, wWoken, ringing, wDriver, peer, moving, stale, astray>>
all == <<subject, vars, uVars, wVars>>

Only(x) == subject = x /\ UNCHANGED subject

(* One beginning of a component where the behaviour is about another. *)
SumInit ==
  /\ subject \in {"io", "uring", "timers"}
  /\ Init /\ U!Init /\ W!Init
  /\ subject # "io" => use.edge
  /\ subject # "uring" => fut["a"].class = "vec"
  /\ subject # "timers" => moving = {} /\ peer.shared
  /\ moving = {} => sleep["a"].due < sleep["b"].due   \* a near deadline and a far one

SumNext ==
  \/ Only("io") /\ Next /\ UNCHANGED <<uVars, wVars>>
  \/ Only("uring") /\ U!Next /\ UNCHANGED <<vars, wVars>>
  \/ Only("timers") /\ W!Next /\ UNCHANGED <<vars, uVars>>

SumSpec == SumInit /\ [][SumNext]_all

(* Timers: never early, slept through only where the notification went to a second  *)
(* worker, and the bitmap that next_event_at reads agrees with the slots.           *)
TimerSound == W!TimerSound

(* Timers: a reset Sleep is not ready before its new deadline; the code does not keep *)
(* this, see the README.                                                             *)
ResetHonoured == W!ResetHonoured

(* Timers: an armed timer is never slept through; with a second worker on the condvar *)
(* the code does not keep this, see the README.                                      *)
TimerWakesDriver == W!TimerWakesDriver

(* Timers: resume never makes the driver's own advance panic; the code does not keep  *)
(* this, see the README.                                                             *)
ClockNeverPanics == W!ClockNeverPanics
=============================================================================
