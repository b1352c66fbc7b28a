------------------------------- MODULE RwLock -------------------------------
(***************************************************************************)
(* sync/rwlock.rs: a write-preferring lock with one FIFO of readers and     *)
(* writers.  Every critical section, wakes included, holds the state mutex. *)
(* A granted waiter owns its share of the lock before it is polled.         *)
(***************************************************************************)
EXTENDS Integers, FiniteSets, SequencesExt, WaitQueue

CONSTANTS Lockers \* the Read and Write futures, and the guards they become

VARIABLES
  lock,   \* State: readers, writer, waiting_writers, queue
  locker, \* per future or guard: kind, phase, registered, granted, waker
  gap     \* history: a queued writer was dropped and the queue not served since

vars == <<lock, locker, gap>>

Future(kind, phase) ==
  [kind |-> kind, phase |-> phase, registered |-> FALSE, granted |-> FALSE, waker |-> FALSE]
IsWriter(l) == locker[l].kind = "writer"

Init ==
  /\ lock = [readers |-> 0, writer |-> FALSE, waiting_writers |-> 0, queue |-> <<>>]
  /\ locker = [l \in Lockers |-> Future("reader", "none")]
  /\ gap = FALSE

(* The readers before the first queued writer, for wake_readers_locked. *)
LeadingReaders(q) ==
  LET first == SelectInSeq(q, IsWriter) IN IF first = 0 THEN Len(q) ELSE first - 1

(* How many waiters wake_next_locked takes off the front. *)
Admits(s) ==
  CASE s.writer -> 0
    [] ~s.writer /\ s.readers = 0 /\ s.queue # <<>> /\ IsWriter(Head(s.queue)) -> 1
    [] OTHER -> LeadingReaders(s.queue)

wake_waiter(w) ==
  [w EXCEPT !.waker = FALSE, !.phase = IF w.waker /\ @ = "parked" THEN "ready" ELSE @]

wake_next_locked(s, f) ==
  LET n == Admits(s)
      front == {s.queue[i] : i \in 1 .. n}
      writers == Cardinality({l \in front : IsWriter(l)})
  IN  /\ lock' = [s EXCEPT !.queue = SubSeq(@, n + 1, Len(@)),
                           !.readers = @ + n - writers,
                           !.writer = @ \/ writers > 0,
                           !.waiting_writers = @ - writers]
      /\ locker' = [l \in Lockers |->
                      IF l \in front THEN wake_waiter([f[l] EXCEPT !.granted = TRUE]) ELSE f[l]]
      /\ gap' = FALSE

read(l) ==
  /\ locker[l].phase = "none" /\ locker' = [locker EXCEPT ![l] = Future("reader", "ready")]
  /\ UNCHANGED <<lock, gap>>

write(l) ==
  /\ locker[l].phase = "none" /\ locker' = [locker EXCEPT ![l] = Future("writer", "ready")]
  /\ UNCHANGED <<lock, gap>>

ReaderEnters == ~lock.writer /\ lock.waiting_writers = 0 /\ lock.queue = <<>>
WriterEnters == ~lock.writer /\ lock.readers = 0 /\ lock.queue = <<>>

Guard(l, kind) == locker' = [locker EXCEPT ![l] = Future(kind, "guard")]

try_read(l) ==
  /\ locker[l].phase = "none" /\ ReaderEnters
  /\ lock' = [lock EXCEPT !.readers = @ + 1] /\ Guard(l, "reader") /\ UNCHANGED gap

try_write(l) ==
  /\ locker[l].phase = "none" /\ WriterEnters
  /\ lock' = [lock EXCEPT !.writer = TRUE] /\ Guard(l, "writer") /\ UNCHANGED gap

Park(l) ==
  /\ locker' = [locker EXCEPT ![l].phase = "parked", ![l].waker = TRUE, ![l].registered = TRUE]
  /\ lock' = IF locker[l].registered
             THEN lock
             ELSE [lock EXCEPT !.queue = Append(@, l),
                               !.waiting_writers = @ + IF IsWriter(l) THEN 1 ELSE 0]

PollRead(l) ==
  /\ locker[l].phase = "ready" /\ ~IsWriter(l)
  /\ \/ locker[l].granted /\ Guard(l, "reader") /\ UNCHANGED lock
     \/ /\ ~locker[l].granted /\ ~locker[l].registered /\ ReaderEnters
        /\ lock' = [lock EXCEPT !.readers = @ + 1] /\ Guard(l, "reader")
     \/ ~locker[l].granted /\ (locker[l].registered \/ ~ReaderEnters) /\ Park(l)
  /\ UNCHANGED gap

PollWrite(l) ==
  /\ locker[l].phase = "ready" /\ IsWriter(l)
  /\ \/ locker[l].granted /\ Guard(l, "writer") /\ UNCHANGED lock
     \/ /\ ~locker[l].granted /\ ~locker[l].registered /\ WriterEnters
        /\ lock' = [lock EXCEPT !.writer = TRUE] /\ Guard(l, "writer")
     \/ ~locker[l].granted /\ (locker[l].registered \/ ~WriterEnters) /\ Park(l)
  /\ UNCHANGED gap

Gone(l) == [locker EXCEPT ![l] = Future("reader", "none")]
Pending(l) == locker[l].phase \in {"ready", "parked"}

(* Read::drop and Write::drop: a granted future gives its share back, a queued *)
(* one leaves the queue; a queued writer that leaves wakes nobody behind it.   *)
Leaves(l) == [lock EXCEPT !.queue = Without(@, l)]
DropRead(l) ==
  /\ Pending(l) /\ ~IsWriter(l)
  /\ IF locker[l].granted
     THEN wake_next_locked([lock EXCEPT !.readers = @ - 1], Gone(l))
     ELSE lock' = Leaves(l) /\ locker' = Gone(l) /\ UNCHANGED gap

DropWrite_KeepsCount(l) ==
  /\ Pending(l) /\ IsWriter(l)
  /\ IF locker[l].granted
     THEN wake_next_locked([lock EXCEPT !.writer = FALSE], Gone(l))
     ELSE lock' = Leaves(l) /\ locker' = Gone(l) /\ gap' = (gap \/ locker[l].registered)
DropWrite(l) ==
  /\ Pending(l) /\ IsWriter(l)
  /\ IF locker[l].granted
     THEN wake_next_locked([lock EXCEPT !.writer = FALSE], Gone(l))
     ELSE /\ lock' = IF locker[l].registered
                     THEN [Leaves(l) EXCEPT !.waiting_writers = @ - 1] ELSE lock
          /\ locker' = Gone(l)
          /\ gap' = (gap \/ locker[l].registered)

DropReadGuard(l) ==
  /\ locker[l].phase = "guard" /\ ~IsWriter(l)
  /\ wake_next_locked([lock EXCEPT !.readers = @ - 1], Gone(l))

DropWriteGuard(l) ==
  /\ locker[l].phase = "guard" /\ IsWriter(l)
  /\ wake_next_locked([lock EXCEPT !.writer = FALSE], Gone(l))

downgrade(l) ==
  /\ locker[l].phase = "guard" /\ IsWriter(l)
  /\ wake_next_locked([lock EXCEPT !.writer = FALSE, !.readers = 1],
                      [locker EXCEPT ![l] = Future("reader", "guard")])

SpuriousPoll(l) ==
  /\ locker[l].phase = "parked" /\ locker' = [locker EXCEPT ![l].phase = "ready"]
  /\ UNCHANGED <<lock, gap>>

Next == \E l \in Lockers :
  \/ read(l) \/ write(l) \/ try_read(l) \/ try_write(l) \/ PollRead(l) \/ PollWrite(l)
  \/ DropRead(l) \/ DropWrite(l) \/ DropReadGuard(l) \/ DropWriteGuard(l) \/ downgrade(l)
  \/ SpuriousPoll(l)

Spec == Init /\ [][Next]_vars

-----------------------------------------------------------------------------
Owners(kind) ==
  {l \in Lockers : locker[l].kind = kind /\ (locker[l].phase = "guard" \/ locker[l].granted)}

(* LockExclusive: a writer (a guard, or a grant not yet seen) excludes everyone   *)
(* else, and the counters say exactly who holds and who waits: readers, writer    *)
(* and waiting_writers survive every cancellation, grant and downgrade.           *)
LockExclusive ==
  /\ Owners("writer") # {} => Cardinality(Owners("writer")) = 1 /\ Owners("reader") = {}
  /\ lock.readers = Cardinality(Owners("reader"))
  /\ lock.writer = (Owners("writer") # {})
  /\ lock.waiting_writers = Cardinality({i \in DOMAIN lock.queue : IsWriter(lock.queue[i])})

(* FrontBlocked: the head of the queue waits for someone: a reader for a writer,   *)
(* a writer for any owner, and a granted future is not left asleep.  The one way    *)
(* out is the drop of a queued writer, which does not serve the readers behind it.  *)
FrontBlocked ==
  /\ lock.queue # <<>> =>
       \/ lock.writer \/ gap
       \/ IsWriter(Head(lock.queue)) /\ lock.readers > 0
  /\ \A l \in Lockers : locker[l].phase = "parked" =>
       ~locker[l].granted /\ \E i \in DOMAIN lock.queue : lock.queue[i] = l

RwLockSound == LockExclusive /\ FrontBlocked

(* ReadersJoin: readers at the head of the queue never wait beside a lock no      *)
(* writer holds.  The code does not keep this once a queued writer is dropped.    *)
ReadersJoin == lock.queue # <<>> /\ ~IsWriter(Head(lock.queue)) => lock.writer
=============================================================================
