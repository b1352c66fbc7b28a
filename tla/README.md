# A TLA+ verification of eddy

eddy is an async runtime in Rust (`crates/eddy`): tasks, two schedulers, an I/O
and timer driver, a blocking pool and the usual synchronization primitives. This
directory holds TLA+ modules translated from its source, the TLC runs that check
them on small instances, and TLAPS proofs of the properties that matter most.
Paths below are relative to `crates/eddy/src`.

## The system

| Component | State it keeps | Operations | Hard part |
|---|---|---|---|
| Task cell (`task/`) | a word of flags and a reference count, the stage (future, result, consumed), the join waker | poll, wake by value and by reference, abort, join, drop of each handle, shutdown | wakes, aborts and joins race the poll; the last of many references frees the cell |
| Local run queue (`scheduler/multi_thread/queue.rs`) | packed head (steal, real), tail, ring of 256 slots | push_back, push_overflow, pop, steal_into | lock-free owner against thieves |
| Multi-thread scheduler (`scheduler/multi_thread/worker.rs`, `inject.rs`) | per worker a LIFO slot and a local queue; injector, task registry, searching count, parked bits, shutdown flag | spawn, schedule, worker loop, park, steal, block_in_place, shutdown | a wake must reach a worker that is about to sleep; shutdown races everything |
| Current-thread scheduler (`scheduler/current_thread.rs`) | local and injection queue, deferred deallocations, owner thread, closed flags | enqueue, block_on, shutdown | wakes and drops from foreign threads |
| Blocking pool (`blocking.rs`) | job queue, idle count, thread count, handles, closed | submit, thread_loop, shutdown | the decision to start a thread and the exit of an idle one overlap |
| I/O driver (`io/driver.rs`, `io/poll_evented.rs`) | park state (holder, condvar waiters), wake_pending, slab of registrations with packed readiness and generation, waiters | park_worker, notify_driver, register, deregister, dispatch, readiness, clear_ready | readiness cleared against readiness arriving; slot reuse |
| Timer wheel and sleep (`time/wheel.rs`, `time/mod.rs`) | six levels of 64 slots, elapsed, pending list | insert, remove, advance_to, next_event_at, arm, cancel | level arithmetic; a timer armed while the driver waits |
| DelayQueue (`time/delay_queue.rs`) | entries, expired items, waker | insert, remove, poll_expired, close | expiry between scan and waker store |
| Semaphore, Mutex (`sync/semaphore.rs`, `sync/mutex.rs`) | permits, closed, FIFO of waiters with a granted mark | acquire, try_acquire, release, add_permits, close, drop of each future | cancellation of a queued or granted request |
| Notify (`sync/notify.rs`) | stored permit, FIFO of waiters | notify_one, notify_waiters, enable, poll, drop | notification before wait; cancellation |
| mpsc (`sync/mpsc.rs`) | queue, reserved slots, FIFO of senders, receiver waker, handle counts | send, try_send, reserve, permit, recv, drops | a slot granted to a future that is dropped |
| oneshot (`sync/oneshot.rs`) | the value, two alive flags, two wakers | send, recv, closed, drops | both ends end at once |
| watch (`sync/watch.rs`) | version, list of wakers, Arc count | send, changed, borrow_and_update, clones, drops | a change or the close between look and registration |
| broadcast (`sync/broadcast.rs`) | ring of values, sequence number, slots with one waker each | send, recv, try_recv, subscribe, drops | overwritten values, lag |
| RwLock (`sync/rwlock.rs`) | readers, writer, waiting writers, FIFO | read, write, try_, downgrade, drops | dropping a granted or a queued request |
| CancellationToken (`cancellation.rs`) | flag, waiters, weak links to children | cancel, child_token, cancelled | a link or a waiter that cancel has just missed |
| FuturesUnordered, JoinSet (`future/`) | members, ready queue, one outer waker | push, poll_next, wake of a member, clear, abort_all | wakes during the poll that empties the queue |
| io_uring driver (`io/uring.rs`) | submission and completion queue, slab of operations, orphans, cancel targets | submit, reap, poll, cancel, drop of a future, drop of the ring | the kernel owns buffers whose future is gone |
| Networking, Unix sockets, PollEvented (`io/net.rs`, `io/unix.rs`, `io/poll_evented.rs`) | a registration and at most two wait futures | read, write, accept, connect, send, recv | readiness, system call and clearing are three steps |
| Coop budget (`coop.rs`) | remaining units of the poll | poll_proceed | a loop that polls while the budget is zero |
| Front end, combinators, streams, buffered I/O, kqueue and IOCP, instrumentation, consoles, macros | | | sequential code, presentation or pure I/O |

How they interact: a `Waker` is a reference to a task cell; waking it moves the
cell's word and may hand a queue entry to the cell's scheduler. The scheduler
puts the entry into the LIFO slot, a local queue or the injector, and signals the
I/O driver, whose wait is where idle workers sleep. Drivers and synchronization
primitives know of the scheduler only through wakers. The blocking pool runs jobs
as tasks of their own scheduler type.

What is hard: steps of several threads between two atomic accesses; cancellation
of a future at any await point (every primitive has a `Drop`); a wake racing the
decision to sleep; shutdown racing spawns, wakes and thread starts. The list with
source lines is "hazards" in `PROJECT.json`.

## The modules

| Module | Models | Composition |
|---|---|---|
| `TaskCell` | one task: state word, poll driver, wakers, JoinHandle, AbortHandle, completion, deallocation | |
| `TaskPromise` | what a task promises its users, without the word, the counts or the threads | `TaskCell` implements it (`KeepsPromise`) |
| `TaskCellProofs` | the inductive invariant of `TaskCell`, its theorems and the refinement | extends `TaskCell` |
| `StealQueue` | the ring of a worker, one action per atomic access | |
| `Scheduler` | worker loop, injector, stealing, parking, shutdown | uses the lifecycle of `TaskCell` and an atomic local queue in place of `StealQueue`; contains the park protocol of the I/O driver |
| `Takeover` | `block_in_place`, its takeover thread and the root loop | the injector of `Scheduler`, and its park protocol with the takeover thread beside other workers |
| `CurrentThread` | the current-thread scheduler | |
| `BlockingPool` | the pool, its submitters, threads and shutdown | |
| `Semaphore`, `Mutex` | the FIFO semaphore; the lock as its one-permit case | `Mutex` extends `Semaphore` |
| `WaitQueue` | the FIFO of waiters that several primitives share | used by `Semaphore`, `Notify`, `RwLock`, `Mpsc` |
| `WaitQueueProofs` | lemmas about queues and counts | extended by the proof modules below |
| `Locks`, `LockProofs` | Notify, RwLock, CancellationToken: the statements about them, and the proofs, with those of semaphore and lock | instances of the three; `LockProofs` also extends `Mutex` |
| `Channels`, `ChannelProofs` | the four channels, FuturesUnordered, DelayQueue, likewise | instances of the six |
| `Runtimes`, `RuntimeProofs` | the blocking pool, Takeover, CurrentThread, likewise | extends `BlockingPool`, instances of the other two |
| `SchedulerProofs` | parking and queues of the scheduler | extends `Scheduler` |
| `StealQueueProofs` | every item leaves the local queue once and none is lost | extends `StealQueue` |
| `Drivers`, `DriverProofs` | the I/O driver and the io_uring driver: the statements about them, and their proofs | extends `ScheduledIo`, instance of `Uring` |
| `Notify`, `RwLock`, `CancellationToken` | one primitive each | |
| `Mpsc`, `Oneshot`, `Watch`, `Broadcast` | one channel each | |
| `FuturesUnordered` | the set of futures, its wakers, and JoinSet on top | |
| `ScheduledIo` | one slab index of the I/O driver: registration, readiness, waiters, dispatch, and the socket operations that use it | |
| `TimerWheel` | wheel, clock, Sleep, Interval, the thread that waits for the next event and a worker asleep beside it | |
| `DelayQueue` | the queue over firing timers | a timer may fire at any time, which `TimerWheel` refines |
| `Uring` | the io_uring driver with the kernel as an actor | |
| `MCTaskCell`, `MCStealQueue`, `MCScheduler` | instances of one module | extend the module they are named for |
| `MCLocks`, `MCChannels`, `MCRuntimes`, `MCDrivers` | instances of several modules | a sum, see below; they extend `Locks` (with `Mutex`), `Channels` (with `Semaphore`), `Runtimes` and `Drivers`, so that run and theorem speak of the same definition |

**Sums.** Components that share no state are checked together by a module whose
variable `subject` picks, in the initial state, the one component a behaviour is
about; the others keep their initial state. The reachable states are the sum of those
of the components, and an invariant of one component is trivially kept by the
behaviours of the others. Nothing is claimed about interactions there; interactions are
in `Scheduler` (scheduler and driver), `Mutex` (lock and semaphore), `Takeover`
(worker, takeover thread and waker), `ScheduledIo` (kernel, driver and two tasks),
`Uring` (kernel, reaper and futures) and `DelayQueue` (driver and owner).

### TaskCell

The variables are the fields of `Header`, `Core` and `Trailer`: `flags` and `ref`
are the two halves of the packed word, `stage` and `result` the `Stage`,
`stageLock` the `stage_lock`, `trailer` the join waker. `queue`, `deferred` and
`registered` are what the scheduler holds of this task. `pc` and `via` say for each
thread which call it is inside and which handle that call borrows. Each
compare-exchange loop on the word (`fetch_update_action`) is one action, and so is
each critical section; between them threads interleave freely. What a future does
is the set of outcomes of a poll: ready, pending, panic, with any wakes in between.
`due` and `droppedOn` are history variables.

`TaskPromise` says: a task is waiting, polling or done; a wake makes a poll due, and
a poll begins only when one is due and none is running; the task resolves once, as
cancelled only if somebody asked for it; the outcome is kept until the JoinHandle
reads it, or is discarded once the JoinHandle is gone.

### StealQueue

`head` is the pair (steal, real) that one 64-bit word packs, `tail` the owner's
index; both are counted modulo `IndexMod`, a small stand-in for 2^32, so that they
wrap. `taken` counts how often each item left the queue. Memory orders are read as
sequentially consistent: the fence of `pop` and the acquire/release pairs are taken
to do what their comments say.

### Scheduler

Workers are `0 .. N-1`, and further threads call from outside. `pc[w]` is the place
of worker `w` in `worker_loop`, `IdleState::park` and `park_worker`; `at[p]` is the
place of thread `p` in a call of `schedule`, `spawn_named` or `notify_driver`, which
a worker makes from inside a poll or from `dispatch`. The holder of the kernel wait,
the condvar waiters, the searching count and the two shutdown flags are functions of
these places. `kernelWake` is the eventfd: sticky, drained by the wait. The tick that
gives the injector its turn is a nondeterministic choice at the point where the code
evaluates it, which is past an empty local queue. The random start of a steal is a
choice of victim. Timers are not in this module: a kernel wait ends by a wake or by
an event.

### Semaphore, Mutex, Notify

Each poll, drop or release is a critical section on the state mutex and one action;
the grant loop of `release_locked` is one action per waiter with the mutex held. Wakers run after it
(`waking`). `status` is the life of a task's future: none, ready to be polled,
parked, holder. A future can be dropped in every state, and polled spuriously.

### BlockingPool

One action per critical section of the queue lock and per step outside it. `submit`
is the place of each submitter, `thread` of each pool thread, `shutter` of the
caller of `shutdown`. Condvar waits may end spuriously and by the keep-alive.

### CurrentThread and Takeover

`CurrentThread` follows the owner thread through `block_on` (`main.pc`): the root when
it was woken, up to one entry of the three queues by the order the tick gives, then
timers, the last look and the park, whose token is sticky; `BlockOnCleanup` and
`shutdown` with its cancel pass and its sweep are steps of the same thread. Remote
threads are inside `enqueue`, a spawn, or the drop of a handle, one lock at a time.

`Takeover` has one worker that calls `block_in_place`, the thread that takes its queue
cell, and a waker of the root. `place` says where each job is (LIFO slot, cell,
injector, running), `some` whether the cell is filled; the hand-over, the request, the
put-back, `returned` and its notification are steps of their own. The takeover thread parks
in the driver with the other workers (`Peers`): `stage` says for each where it stands in
`park_worker`, and `notify_driver`, which the request and an injection go through, is its store of `wake_pending`, its look at the waiters and its notification or poke. No wake
is addressed: `unpark_worker` ignores its id. `astray` records that another thread got the
wake of the request.

### Channels, RwLock, CancellationToken

Each keeps the fields of its state struct in a record and one entry per future or
handle. A critical section is one action. Wakers are called inside it where the code
does so (mpsc, RwLock) and in a later step where the code collects them first (watch,
broadcast, oneshot, cancellation), since a poll or a drop can come in between. The Arc
counts by which watch and broadcast recognise a closed channel are counted as the code
does, so the window between a wake and the drop of the Arc is there. Values are their
sequence numbers. A cancel walks down the tree one token at a time.

### FuturesUnordered

`ready` holds ids, with the duplicates and the ids of members long gone that the code
leaves in it. A wake is two steps, push and take of the outer waker. `poll_next` runs
member after member until one is ready or the queue is empty; a member that asks the
budget (`Coop`) wakes itself when the budget of the poll is spent. `arcs` counts the
EntryWake references.

### ScheduledIo

One slab index and its successive registrations. `packed` is the word of readiness and
generation, `GenBits` its width; the waiters are a reader slot, a writer slot and the
list, as a set, whose order would only order the wakes. The kernel reports level or
one-shot edge events; `dispatch` looks the token up, compares generations, ORs the bits
and takes the waiters under the lock and wakes them after it. What a socket operation
does is a row: the interest it waits for, whether it goes on after a success (`drains`),
clears, or rearms. Every poll of net.rs, unix.rs and poll_evented.rs is such a row;
MCDrivers picks the pairs that meet on one descriptor.

### TimerWheel and DelayQueue

The wheel is a function from timers to (level, slot) with the `occupied` bitmap that
`next_event_at` reads; `insert`, `remove`, `advance_to` and the cascade are operators,
checked by the invariants against the deadlines themselves. Deadlines are counted in
half milliseconds so that the rounding up of `instant_to_ms` has an effect. The driver
thread reads the next event, waits, and advances. It is the owner of a current-thread
runtime, which an unpark always reaches, or (`peer.shared`) the worker in the kernel wait, with
another that may sleep on the condvar and then gets the notification of `arm`; `astray` holds
the timers for which that happened. `pause` is its swap and its store, and a paused park is
the look at the next event and the call of `advance`, whose assertion a `resume` in between
fails (`driver.pc = "panicked"`). `DelayQueue` splits insert, remove and
poll_expired at every unlock, so a firing can fall between any two.

### Uring

The kernel takes submission entries, starts and completes them, and owns the buffer of
each operation meanwhile (`kern`). The slab entry of an operation is live, orphaned or
gone; `cq` holds completions in order; `reap` is the one thread that reaps, step by
step, and `cancel_targets` the cancellations on record, by their own request. A submit hands
the kernel all published entries or a first part of them, or fails; a failed submit leaves
what was published in the queue, for the next one to take. A stream whose first submit failed may be
polled again and starts anew (`uring.rs:2408-2416`); nothing links that to the request left
behind, so the restart is another member of `Futs`. `Classes` gives the futures of an instance their kind: plain,
read or write with a buffer, vectored, accept, multishot accept, multishot receive.

## What the runs check

`PROJECT.json` names for every property a mutated definition that breaks it.

| Run | Instance | Shows |
|---|---|---|
| `task_safety` | 2 workers, 1 outside thread, 2 wakers, 1 abort handle | the count equals the references in existence, nothing is reached after the free, one claim at a time, no wake and no join lost, outcome stable |
| `task_current_thread` | the owner and a foreign thread, deallocation deferred to the owner, fairness | wakes are polled, aborts complete, joins resolve, the finished task is freed, once; the cell implements `TaskPromise` |
| `queue` | capacity 2, 2 thieves, wrapping indices, fairness | each item leaves once, none is lost or overwritten, claims commit, pushes end |
| `queue_double_take` (violation) | capacity 4, all of it used, a thief that stalls between its loads and its claim | the owner's pop and the thief's claim take the same item |
| `sched_queues` | 2 workers, 2 tasks, 1 outside thread | one entry per notified task; the injector never holds work while all workers fall asleep |
| `sched_liveness` | 2 workers, 1 task, fairness | a queued task is polled |
| `sched_shutdown` | 1 worker, 2 tasks, no LIFO slot, fairness | shutdown joins the worker |
| `sched_shutdown_hang` (violation) | 2 workers | shutdown does not always join the second one |
| `locks` (121,000 states) | 3 tasks on a Mutex, a Notify, an RwLock; 3 tokens | exclusion; nobody waits beside a free lock; a chosen waiter resolves; cancel reaches waiters and children |
| `channels` (811,000 states) | mpsc of 2 slots with 3 senders' futures, oneshot with 2 Closed futures, watch with 2 senders and 2 receivers, broadcast of 2 slots with 4 values, a set of 3 futures of which 2 use the budget, 3 delayed values, a Semaphore of 2 permits with requests of 1 and 2 | exact slots, cursors and permits; values delivered once; grants in order; no sender, receiver or owner is left asleep beside what it waits for |
| `runtimes` (596,000 states) | pool: 3 jobs, cap 2, 3 thread starts, timeouts, shutdown; current thread: 2 tasks, 1 remote thread; takeover: 2 jobs, 1 other worker | counts, cap, jobs end once, shutdown returns; the owner thread does not sleep beside work and takes every entry; the hand-over loses nothing, and the request for the queue wakes the takeover thread unless the other worker got that wake |
| `drivers` (2,490,000 states) | 2 tasks on a descriptor whose index is registered twice, 5 uses; 5 sets of uring operations on 2 entries; 2 timers on 2 levels of 2 slots, with a paused clock or with a second worker | no lost readiness and no foreign event; buffers outlive the kernel's use and go afterwards; no timer is early, and none is slept through unless `notify_driver` woke the second worker for it |

The sums end in one invariant per component, a conjunction of the named parts its module
defines and explains: for instance `MpscSound` is `SlotsExact`, `WaitersReachable`,
`SenderNotStranded` and `ReceiverNotStranded`; `UringSound` is `KernelBuffersAlive`,
`CompletionReaches` and `OrphansDrain`.

### Bounds

Two threads or workers and two or three tasks are enough for every race here, since
each involves two parties and at most one bystander; the third task is there to
fill a queue or to stand behind a cancelled waiter. The queue's capacity and index
modulus are small so that full queues and wrapping happen; so are the levels and slots of
the wheel, for cascades and deadlines beyond its span, and the ring of the broadcast, for
lag. The generation has two bits and two registrations: it does not wrap in the run, as
32 bits do not in practice. `MaxWakers`, `MaxAborts`,
`MaxItems`, `MaxAdded`, `MaxForgets`, `MaxNotifies`, `MaxSpawns`, `MaxSenders`,
`MaxVersion`, `MaxSends`, `MaxTxs`, `MaxGen`, `MaxShots` and `MaxMs` bound counters
that the code leaves to memory. `MaxSpawns` is one more than `MaxThreads`, so that the pool can
start a thread after one left, and could exceed its cap. The takeover has two subjects: in
`takeover` the other worker only steals and the tasks move freely, in `request` it parks and the
tasks stay where they are; each of the two questions has its own part of the state. The timers
likewise have three scenarios: one timer is reset, dropped and ticked; the clock is paused and
resumed; a second worker shares the driver. In the last two one deadline is near and one far. `Scheduler` needs no such bound: its state is finite.
Deadlock checking is off where a behaviour really ends (a freed
task, a pool or a runtime that is shut down, a closed channel, a bounded number of jobs).

### Fairness

A call under way is continued (weak fairness of its steps): the operating system runs
runnable threads. A worker comes back to its run loop again and again although other
calls of the same thread come between, hence strong fairness of the loop: polls
return and batches of events end. Condvar timeouts happen. A woken future is polled
again. Users are never assumed to wake, abort, cancel or shut down; a `Mutex` user is
assumed to unlock, and only the runs that say so assume that closures return. The
channels and the drivers are checked without fairness: their "not stranded" invariants
say of each sleeping party that its wake has happened or is a step under way.

## Findings

Two violation runs state a sentence of the repository and TLC finds the code
contradicting it; `PROJECT.json` quotes the lines. They mark where the passing runs
next to them stop holding.

1. `queue_double_take`: `steal_into` validates only the head word, and `pop` moves
   only the tail for a non-final item, so a thief with a stale tail claims an item
   the owner has popped. It takes four queued items; with fewer the items are safe.
2. `sched_shutdown_hang`: one worker consumes both wakes of the shutdown, and a second
   one, past its check of the flag, sleeps in the kernel for good. With one worker
   shutdown always ends.

### Counterexamples

For more questions the answer is also no. They are not in the list of runs. The first
group has configurations of its own, checked with `tlc -config <file> <module>`.

| Configuration | Module | Property | What happens, and what is written |
|---|---|---|---|
| `TaskCellAffinity.cfg` | `MCTaskCell` | `FutureDroppedByOwner` | abort of an idle current-thread task drops its future on the calling thread (`harness.rs:372`); docs/ARCHITECTURE.md:44 "A current-thread future and its destruction stay on the owner thread." |
| `SchedulerStarve.cfg` | `MCScheduler` | `InjectorServed` | the tick advances only past an empty local queue (`worker.rs:610`); docs/ARCHITECTURE.md:24 "The scheduler checks the injector periodically before local work." |
| `BlockingPoolStaleIdle.cfg` | `BlockingPool` | `ThreadForJob` | two submits count the same idle thread (`blocking.rs:88`); blocking.rs:75 "spawning a fresh thread if nobody is idle and the cap allows it" |

The second group are formulas in the modules of the passing runs. To see one, replace the
INVARIANTS and PROPERTIES of the run's configuration by it.

| Formula | Module, configuration | What happens, and what is written |
|---|---|---|
| `WorkConserved` | `MCScheduler`, `SchedulerQueues.cfg` | a local push wakes nobody (`worker.rs:514`); SPEC.md:1067 "If any task is ready and any worker is idle, that worker acquires work within a bounded number of steal attempts." |
| `ShutdownCancels` | `MCScheduler`, `SchedulerShutdown.cfg` | `schedule` drops the entry that cancellation relies on (`worker.rs:478`); SPEC.md:1074 "`Runtime::drop` cancels all tasks" |
| `HeadIsBlocked` | `MCChannels`, `Channels.cfg` | dropping a large request at the head grants nothing to the small one behind it (`semaphore.rs:148`); SPEC.md:98 "all async, all fair" |
| `NotificationKept` | `MCLocks`, `Locks.cfg` | a marked waiter that is dropped takes the notification with it (`notify.rs:150`); docs/CANCEL_SAFETY.md:5 "does not lose or duplicate the logical item" |
| `JobsEnd` (a PROPERTY) | `MCRuntimes`, `Runtimes.cfg` with `MaxThreads = 1` | a job arriving at the cap while the last thread leaves is run by nobody (`blocking.rs:198`); blocking.rs:76 "serialized by the queue lock" |
| `ShutdownJoinsAll` | `MCRuntimes`, `Runtimes.cfg` | a thread is started after shutdown took the handles (`blocking.rs:106`); blocking.rs:110 "then join every thread" |
| `HandBackSeen` | `MCRuntimes`, `Runtimes.cfg` | the takeover thread stores `returned` and notifies without the lock the worker checks under (`worker.rs:696`): the worker waits for a notification that is over |
| `ShutdownCompletes` | `MCRuntimes`, `Runtimes.cfg` | a remote wake is queued after the last sweep and before `shutdown_complete` (`current_thread.rs:289`): a cancelled task is never finished |
| `WatchClosedIsTold` | `MCChannels`, `Channels.cfg` | the last Sender wakes the receivers while it still counts (`watch.rs:139`): one that polls in between waits for ever |
| `BroadcastClosedIsTold` | `MCChannels`, `Channels.cfg` | no drop of a Sender wakes a waiting receiver |
| `WakersFreed` | `MCChannels`, `Channels.cfg` | `entry_wake_wake` forgets the Arc it consumed (`unordered.rs:50-56`) |
| `ReadersJoin` | `MCLocks`, `Locks.cfg` | a queued writer is dropped and the readers behind it stay queued beside reading readers (`rwlock.rs:287`) |
| `CancelReachesDescendants` | `MCLocks`, `Locks.cfg` | links are weak, so a dropped token cuts off the tokens below it |
| `ReturnReaches` | `MCRuntimes`, `Runtimes.cfg` | the request for the queue wakes a worker on the condvar, or its `wake_pending` is swapped by another holder, and the takeover thread sleeps on in the kernel wait (`driver.rs:617-643`); worker.rs:775 "waking the takeover thread at the driver level in case it is inside a kernel readiness wait" |
| `TimerWakesDriver` | `MCDrivers`, `Drivers.cfg` | an earlier timer is armed, `notify_driver` wakes a worker on the condvar, and the holder keeps its old timeout (`driver.rs:620`) |
| `ClockNeverPanics` | `MCDrivers`, `Drivers.cfg` | `resume` falls between the check of `paused_advance` and the assertion of `advance` (`wheel.rs:362`, `375-384`): the thread that parks panics |
| `EveryClosedIsTold` | `MCChannels`, `Channels.cfg` | `closed(&self)` may be called twice (`oneshot.rs:90`), and the second future overwrites the one waker slot (`oneshot.rs:151`) |
| `StreamNotStranded` | `MCDrivers`, `Drivers.cfg` | a multishot stream looks for an event and stores its waker under two locks, and a reap in between finds no waker to call (`uring.rs:2377-2398`) |
| `DescriptorsClosed` | `MCDrivers`, `Drivers.cfg` | a stream dropped with unread accepts leaks the descriptors (`uring.rs:1935-1977`) |
| `ResetHonoured` | `MCDrivers`, `Drivers.cfg` | `Sleep::reset` clears `fired` before it cancels, and a firing in between makes it ready at once; time/mod.rs:35 "so the wheel cannot fire at the stale time" |
| `FireSeenAnywhere` | `MCChannels`, `Channels.cfg` | a DelayQueue polled by one task and moved to another wakes the first |
| `EdgeNotStranded` | `MCDrivers`, `Drivers.cfg` | the event that answers a rearm is dispatched before the readiness is cleared; io/mod.rs:440 "so a short read cannot strand a still-ready fd" |
| `NothingHeldBack`, `HandedOut`, `ConnectionsKept` | `MCDrivers`, `Drivers.cfg` | a Pending read may have filled bytes; an accept waits beside connections kept for later; an error in the accept loop drops the connections taken before it (`net.rs:341`) |
| `GenerationKept` | `MCDrivers`, `Drivers.cfg` with `GenBits = 1` | a wrapped generation makes events of the live registration look stale (`driver.rs:667`) |
| `PollReturns` (a PROPERTY of `FairSpec`) | `FuturesUnordered` with `Members = Coop = {"a", "b"}`, `Budget = 1` | a member out of budget wakes itself and the loop of `poll_next_inner` polls it again, for ever; it holds with `Coop = {}` |

Seen while modelling and kept out of the modules: a failed PROVIDE_BUFFERS marks a
stream terminal while its RECV still runs (`uring.rs:1839-1855`); `Inner::drop` gives up on
an error of enter and frees buffers (`uring.rs:2075-2077`), and waits for ever for an
orphaned receive with unread events (`uring.rs:1829`, `2044`); `advance` fires only the first
due slot (`wheel.rs:287`); `enqueue` drops a task inside the owner
lock (`current_thread.rs:97`), which deadlocks if its destructor wakes; while a worker is
inside `block_in_place` its queue cell is written and read without synchronization
(`worker.rs:689`).

## What is proved

`TaskCellProofs` proves for every set of threads, every subset of workers, every
owner, both deallocation modes and every bound: `TypeOK`, `RefCountExact`,
`OneClaim`, `StageAgrees`, `OutputReclaimed`, `NoUseAfterFree`, `WakeNotLost`,
`JoinNotStranded` and the action property `OutcomeStable`. The assumptions are the
named ASSUMEs of `TaskCell`: finitely many threads, workers among them, the owner a
worker.

The argument. None of these is inductive alone: the count can only be exact if a
thread inside a call holds the handle its place says (`HandlesAgree`); a claim can
only be unique if the flags mirror the place of the claimant (`ClaimAgrees`); the
cell can only be freed once if deallocating threads, deferred entries and `freed`
exclude each other and leave no live reference (`DeathOnce`); and an output, a
waiting join or a due wake needs a thread that is still on its way to it
(`OutputPending`, `JoinPending`, `WakeNotLost`). `IInv` is their conjunction, itself
checked by TLC before it was proved. Each conjunct has its step lemma, split by
action; `NextIInv` collects them. The count is a cardinality of calling threads, so
the lemmas `CallerEnters` and `CallerLeaves` say what one move of one thread does
to it.

`TaskImplementsPromise` proves the refinement without its fairness: every step of the
cell, mapped by `Promise`, is a step `TaskPromise` allows or leaves it alone. It rests on
the same invariant; the step that needs it most is completion, where `OneClaim` says that
the finishing thread is the only one and `StageAgrees` that nothing was stored before.

**Locks.** `LockProofs` proves `Exclusive` for any set of tasks. The inductive invariant
adds that every request under way is for one permit, that a grant belongs to a
waiting request that is not queued, and that the queue holds only waiting requests,
each once. Without the last, a granted task could still be queued, and dropping its
future would then unlink it without giving the permit back. `NobodyWaitsForAFreeLock`
proves `HeadIsBlocked` for the lock; for larger requests it is false
(Counterexamples). The hypothesis of these two is `OnePermit`, one permit and a saturation
point of at least one: what makes a semaphore the lock. The semaphore itself has no such
hypothesis: `GrantsInOrder` is the order of grants for requests of any size,
`PermitsAreAccounted` conservation. The latter assumes `Fits`, that initial and added
permits stay below `usize::MAX`: beyond it `release_locked` saturates and permits are
lost, as the code intends. Conservation is the cardinality of `PermitsOut`, the set of
pairs of an owner and one of its permits, so that one grant or release changes it by a set
that the lemmas can count.

It also proves `NotifyKept`, `CancellationSound` and `RwLockSound`. For the Notify the
invariant ties each future's status to the list and its mark (`NotifyInv`); for the token tree
it says of each waiter and each link that an ongoing cancel will still come to it
(`CancelInv`); for the RwLock it counts readers, writer and waiting writers as sets of futures
(`RwInv`), with finitely many lockers.

**Channels.** `ChannelProofs` proves `OneshotSound`, `ChangeReachesAll` (watch),
`BroadcastSound`, `MpscSound`, `UnorderedSound` (FuturesUnordered) and `DelayQueueSound`, for any
number of handles, futures, values and keys. What had to be added: for mpsc, that granted
senders make up for the free slots while anyone is queued (`CapacityOffered`), without
which "no sender is stranded" does not survive a receive; for broadcast, what the ring holds
relative to the sequence number; for the DelayQueue, that a firing whose sink call came
after the owner's look at the table left a mark, the woken task or the flag (`SinkInv`).
Assumed: finite sets of receivers and futures, a positive capacity for broadcast (the
constructor asserts it), any for mpsc.

**Pool and schedulers.** `RuntimeProofs` proves `PoolSound` and the action property
`JobEndsOnce` for any cap and finitely many jobs. `Counted` relates thread and idle counts
to the threads' places, `Placed` says where each job is, and `Served` that a queued job
has a thread or a notification coming.

It also proves, for any tasks and remote threads:

- `TakeoverSound`, by `TakeoverInv`: where one of the two threads stands says what the three
  flags are and what the other may be doing, and a takeover thread between its look for the
  request and the kernel wait has `wake_pending`, the eventfd or a notifier before it, or
  `astray` says who got its wake. With no other worker `astray` stays false, so the request
  always reaches it.
- `CurrentThreadSound`, by `StandInv` (where the entry of each task stands: a queue, the hands
  of a remote thread, or among the finished tasks that wait to be freed) and `SleepInv`, which
  follows the owner from its poll of the root to the park.

`SchedulerProofs` proves, for any number of workers, outside threads and tasks:

- `Attended`, by `ParkInv`: as long as no shutdown began, either some worker is not
  asleep, or `wake_pending`, the eventfd or a thread inside `notify_driver` covers work
  that came after the last look (`Signalled`, `MissedInv`). The 1 ms timeout of the condvar
  is not used.
- `OneEntry`, by `EntryInv`: the boxes an entry can be in (injector, local queue, LIFO
  slot, a worker's hand, a thread's call) are one predicate, a task is in one at most
  (`Lone`), and in one exactly when it is notified. Each action is a move between two
  boxes.

**Local run queue.** `StealQueueProofs` proves `TakenOnce` and `Conserved` for claims of any size,
any capacity, index width, starting index and number of thieves, for behaviours in which no claim
reaches past what the owner left in the ring at that moment (`NoOverreach`, a condition on the step
of the claim). The code checks only the head word there, and a claim against a stale tail can
break it: `queue_double_take` is such a behaviour. So the theorems locate the defect: that claim
is the only way the ring can fail, and a `steal_into` whose compare-exchange also validated the
tail would be sound. `ShortQueueIsSound` shows where `NoOverreach` cannot fail: while a push begins
with at most two items queued (`Few`), so that half of the queue is one item; with four items it can.
All three assume that fewer items are pushed than there are indices (`NoFullTurn`: no thread
stalls for a full turn of the 2^32); indices still wrap, from any `Start`.

The invariant, `QueueInv`, compares positions, the distances of indices from `Start`, which
do not wrap. `Order` puts the committed head, the claims and the tail in this order, with what
the owner's pop may have taken back meanwhile; `Bounds` keeps them within the ring; `ClaimsOk`
says that no loaded word is ahead of the head, that beside a word which is still the head the ring
is not empty, and that the claims in flight are disjoint ranges below the head;
`Contents` that every item is in one place of the ring, or pending, or has left once. In a short
queue a claim is of one item (`Live`), so a claim whose word is still the head is within reach.

**Drivers.** `DriverProofs` proves `ReadinessSound` for any set of users of one slab index. Two
of its parts need no bound (`ParkedTasksHeard`): a task parked on a descriptor is listed
or taken to be woken, and none is parked beside readiness it waits for. The inductive invariant
`IoInv` adds that nobody waits on a closed registration (`ClosedIsQuiet`), that the dispatcher
carries wakers only between unlock and wake (`PoppedIsWoken`), that the `ScheduledIo` it found is
not a later one (`FoundIsPast`), and that what it loaded under the lock satisfies nobody who
is listed meanwhile (`SeenBesideListed`); without the last, its store of the readiness could leave
a listed task behind. The third part,
`OwnEvents`, has the hypothesis that an index is registered fewer times than the packed word
has generations (`MaxGen < 2 ^ GenBits`); beyond it the truncated generations collide, and the
comparison cannot tell an event of an earlier registration from one of its own. `GenInv`
carries it.

`UringSound` is proved for any finite set of futures of the known classes and any size of the
submission queue. `UringInv` follows each request through its life, published, taken by the
kernel, active, last completion posted, reaped: `PlaceOk` says where a future, its entry and its
buffer stand to each other, `LentOk` that a request in flight has an entry and an entry without a
result has a request in flight or its last completion posted, `EndOk` that a result or an end
comes only after the kernel is done, and what an orphan still waits for, `WakeOk` that a
single-shot entry without a result has a waker and one with a result a wake. `QueuesOk` says that
a request is queued once and that of a request that is over the last completion comes last.
They are needed together: a reap frees the entry whose last completion it finds, which takes no
buffer from the kernel only if nothing of that request is queued or active. The two exceptions
are part of the statement: a ring that gave up waiting, and a stream that a failed
PROVIDE_BUFFERS ended.

The assumptions on constants are the named ASSUMEs of the modules: `SizesAssumption` of
`Scheduler`; `JobsFinite`, `CapPositive` of `BlockingPool`; `CapFitsIndex` and `RoomsAndBounds` of
`StealQueue` (a full ring fits the indices); `NoneIsNoUser`, `GenBitsNat` and `ArrivalsNat` of
`ScheduledIo`; `FutsFinite`, `EntriesNat` and `ClassesKnown` of `Drivers`. The inductive invariants were checked by TLC on the instances of the runs
before they were proved.

`WaitQueueProofs` has the lemmas these share: what append, tail, removal and concatenation
do to membership, order and distinctness, and what one move of one party does to a count.
To be reasoned about, removal from a queue is written by index (`Without` in `WaitQueue`,
`Unlinked` in `Semaphore`) and not with `SelectSeq`, whose definition is recursive.

Only model-checked:

- all liveness: fairness and ENABLED are out of the prover's reach;
- `TimerSound`: it is about what the wheel's cascade computes. Its operators are RECURSIVE, and
  written as folds they would still need an induction over the levels and slots.

`StageAgrees` and `TypeOK` of the task cell are proved and in no run: the first follows from
the place of the claimant, the second is the ground of `IInv`.

## What is not modelled, and the plan

- Weak memory beyond the comments' claims, allocation failure, panics of user code other
  than inside a poll.
- Scheduler: `shutdown_timeout`, hooks, metrics. io_uring: SQPOLL, registered files and
  buffers and the futures that use them, feature probing, and more than one reaping thread.
- Error paths left out: a pool thread that cannot be started (`blocking.rs:105`: the count stays
  raised) and a failed reregister (`io/mod.rs:441-442`). A `ScheduledIo` is deregistered when no user is inside
  an operation, although a future of `Registration::readiness` (`io/mod.rs:417`) may outlive it.
  A task that is woken during its poll on a closed current-thread runtime goes to the local queue;
  the code's other branch (`current_thread.rs:108-117`) cannot be reached there, since the owner
  has stopped polling. `JoinSet` aborts a task as the task's own end, at any time.
- Buffered I/O and copy, combinators and streams: sequential poll adapters that share no
  state between threads. The runtime front end only dispatches.
- kqueue and IOCP: thin wrappers for other systems; epoll is modelled as `ScheduledIo` uses it.
- The intrusive list of `util/linked_list.rs` appears as a sequence in its users.
- Instrumentation observes and feeds nothing back; the consoles are presentation; the
  macros generate code.

Left for later: the timer wheel inside the kernel wait of `Scheduler`, and
proofs about the wheel's operators.
