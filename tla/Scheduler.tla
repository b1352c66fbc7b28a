------------------------------ MODULE Scheduler ------------------------------
(* The multi-thread scheduler: worker loops over a LIFO slot, a stealable local *)
(* queue and the shared injector, the parking protocol of the I/O driver, and   *)
(* the shutdown handshake (scheduler/multi_thread/worker.rs, inject.rs and      *)
(* park_worker, notify_driver, unpark_all of io/driver.rs).                     *)
(*                                                                              *)
(* A task is its lifecycle word as TaskCell models it; a local queue is atomic  *)
(* here, StealQueue opens it up. Timers are absent, so a kernel wait without an *)
(* event lasts until the poller is woken.                                       *)
EXTENDS Integers, FiniteSets, SequencesExt

CONSTANTS
  N,            \* worker threads, 0 .. N - 1
  C,            \* threads outside the runtime, N .. N + C - 1
  Tasks,        \* tasks that can be spawned
  NoTask,       \* no task
  Wakes,        \* <<a, b>>: a poll of task a may wake task b
  LocalCap,     \* capacity of a local queue (LOCAL_QUEUE_CAPACITY)
  LifoSlot,     \* lifo_slot_enabled
  LifoMax,      \* polls of the LIFO slot in a row (MAX_LIFO_POLLS_PER_TICK)
  MayShutdown   \* whether the runtime is shut down

Workers == 0 .. N - 1
Clients == N .. N + C - 1
Threads == Workers \cup Clients

ASSUME SizesAssumption ==
  /\ N \in Nat \ {0} /\ C \in Nat /\ LocalCap \in Nat \ {0} /\ LifoMax \in Nat \ {0}
  /\ NoTask \notin Tasks /\ Wakes \subseteq Tasks \X Tasks 
  /\ MayShutdown \in BOOLEAN /\ LifoSlot \in BOOLEAN

VARIABLES
  life,        \* task -> "unborn", "idle", "notified", "running", "rerun", "done"
  cancelled,   \* tasks whose CANCELLED bit is set
  owner,       \* task -> the worker that last polled it
  registry,    \* Shared.tasks
  inject,      \* the injector, head first
  local,       \* worker -> its local queue, head first; the owner pops the tail
  lifo,        \* worker -> its LIFO slot
  polls,       \* worker -> lifo_polls
  pc, cur,     \* worker -> where its loop stands, and the task in its hand
  first,       \* worker -> global_first of this iteration
  left,        \* worker -> victims it has still to try
  at, carry,   \* thread -> the scheduler call it is inside, and that call's task
  parked,      \* IdleState.parked
  wakePending, \* DriverShared.wake_pending
  kernelWake,  \* the poller's eventfd is readable
  stop,        \* how far shutdown has come
  doomed       \* registry entries that shutdown has still to cancel

task   == <<life, cancelled, owner, registry>>
queues == <<inject, local, lifo>>
loop   == <<polls, pc, cur, first, left>>
call   == <<at, carry>>
driver == <<parked, wakePending, kernelWake>>
closer == <<stop, doomed>>
vars == <<task, queues, loop, call, driver, closer>>

Init ==
  /\ life = [t \in Tasks |-> "unborn"] /\ cancelled = {} /\ registry = {}
  /\ owner = [t \in Tasks |-> 0]
  /\ inject = <<>> /\ local = [w \in Workers |-> <<>>] /\ lifo = [w \in Workers |-> NoTask]
  /\ polls = [w \in Workers |-> 0] /\ pc = [w \in Workers |-> "lifo"]
  /\ cur = [w \in Workers |-> NoTask] /\ first = [w \in Workers |-> FALSE]
  /\ left = [w \in Workers |-> {}]
  /\ at = [p \in Threads |-> "none"] /\ carry = [p \in Threads |-> NoTask]
  /\ parked = {} /\ wakePending = FALSE /\ kernelWake = FALSE
  /\ stop = "off" /\ doomed = {}

Shutdown == stop # "off"                       \* Shared.shutdown
Closed   == stop \notin {"off", "flagged"}     \* Injector.closed
Holders  == {w \in Workers : pc[w] \in {"swap", "drain", "kernel", "release"}}
Waiters  == {w \in Workers : pc[w] \in {"asleep", "woken"}}   \* ParkState.waiters
Searchers == {w \in Workers : pc[w] = "steal"}             \* Shared.searching

Goto(w, where) == pc' = [pc EXCEPT ![w] = where]
Enter(p, what, t) == at' = [at EXCEPT ![p] = what] /\ carry' = [carry EXCEPT ![p] = t]
InLoop(w, where) == pc[w] = where /\ at[w] = "none"

Polling(p) == p \in Workers => pc[p] = "poll"   \* running user code

-----------------------------------------------------------------------------
(* Tasks: spawn_named, wakers, and schedule *)

(* The assertion that the runtime is up, then the new cell, born NOTIFIED. *)
Spawn(p, t, w) ==
  /\ at[p] = "none" /\ Polling(p) /\ ~Shutdown /\ life[t] = "unborn"
  /\ p \in Workers => w = p
  /\ life' = [life EXCEPT ![t] = "notified"]
  /\ owner' = [owner EXCEPT ![t] = w]
  /\ Enter(p, "register", t)
  /\ UNCHANGED <<cancelled, registry, queues, loop, driver, closer>>

Register(p) ==
  /\ at[p] = "register"
  /\ registry' = registry \cup {carry[p]}
  /\ Enter(p, "schedule", carry[p])
  /\ UNCHANGED <<life, cancelled, owner, queues, loop, driver, closer>>

(* Outside threads wake any task, a poll the ones it knows, and a worker back   *)
(* from the kernel wait dispatches events to any.                               *)
MayWake(p, t) == p \in Workers => (<<cur[p], t>> \in Wakes /\ pc[p] = "poll") \/ pc[p] = "release"

(* A wake of an idle task queues it, one of a running task is left to its poll. *)
Wake(p, t) ==
  /\ at[p] = "none" /\ MayWake(p, t) /\ t \notin cancelled
  /\ \/ /\ life[t] = "idle"
        /\ life' = [life EXCEPT ![t] = "notified"]
        /\ Enter(p, "schedule", t)
     \/ /\ life[t] = "running"
        /\ life' = [life EXCEPT ![t] = "rerun"]
        /\ UNCHANGED call
  /\ UNCHANGED <<cancelled, owner, registry, queues, loop, driver, closer>>

(* The older half of a queue, which steals and overflows move, and the rest. *)
Moved(q) == SubSeq(q, 1, IF Len(q) > 1 THEN Len(q) \div 2 ELSE 1)
Kept_Whole(q) == q
Kept(q)  == SubSeq(q, Len(Moved(q)) + 1, Len(q))
PushBatch(ts) == inject' = IF Closed THEN inject ELSE inject \o ts

SlotFree(p) == LifoSlot /\ lifo[p] = NoTask

PushLocal(p, t) ==
  \/ /\ SlotFree(p)
     /\ lifo' = [lifo EXCEPT ![p] = t]
     /\ Enter(p, "none", NoTask)
     /\ UNCHANGED <<inject, local>>
  \/ /\ ~SlotFree(p) /\ Len(local[p]) < LocalCap
     /\ local' = [local EXCEPT ![p] = Append(@, t)]
     /\ Enter(p, "none", NoTask)
     /\ UNCHANGED <<inject, lifo>>
  \/ /\ ~SlotFree(p) /\ Len(local[p]) >= LocalCap
     /\ local' = [local EXCEPT ![p] = Append(Kept(@), t)]
     /\ PushBatch(<<Head(local[p])>> \o Reverse(Tail(Moved(local[p]))))
     /\ Enter(p, "pend", NoTask)
     /\ UNCHANGED lifo

OnTarget(p, t) == owner[t] = p

(* After the shutdown flag an entry is dropped, its task stays NOTIFIED. *)
Schedule(p) ==
  LET t == carry[p] IN
  /\ at[p] = "schedule"
  /\ \/ Shutdown /\ Enter(p, "none", NoTask) /\ UNCHANGED queues
     \/ ~Shutdown /\ OnTarget(p, t) /\ PushLocal(p, t)
     \/ ~Shutdown /\ ~OnTarget(p, t) /\ Enter(p, "push", t) /\ UNCHANGED queues
  /\ UNCHANGED <<task, loop, driver, closer>>

AfterPush_Silent == "none"
AfterPush == "pend"            \* unpark_target

(* Injector::push: a closed injector drops the entry too. *)
Push(p) ==
  /\ at[p] = "push"
  /\ PushBatch(<<carry[p]>>)
  /\ Enter(p, AfterPush, NoTask)
  /\ UNCHANGED <<task, local, lifo, loop, driver, closer>>

-----------------------------------------------------------------------------
(* notify_driver, reached through unpark_target and unpark_any *)

NotifyPend(p) ==
  /\ at[p] = "pend"
  /\ wakePending' = TRUE
  /\ Enter(p, "decide", NoTask)
  /\ UNCHANGED <<task, queues, loop, parked, kernelWake, closer>>

NotifyDecide(p) ==
  /\ at[p] = "decide"
  /\ Enter(p, IF Waiters # {} THEN "notify" ELSE "poke", NoTask)
  /\ UNCHANGED <<task, queues, loop, driver, closer>>

(* Condvar::notify_one reaches one sleeper, or nobody. *)
NotifyOne ==
  LET asleep == {w \in Workers : pc[w] = "asleep"}
  IN  IF asleep = {} THEN UNCHANGED pc
      ELSE \E w \in asleep : Goto(w, "woken")

NotifyCondvar(p) ==
  /\ at[p] = "notify"
  /\ NotifyOne
  /\ Enter(p, "none", NoTask)
  /\ UNCHANGED <<task, queues, polls, cur, first, left, driver, closer>>

NotifyPoke(p) ==
  /\ at[p] = "poke"
  /\ kernelWake' = TRUE
  /\ Enter(p, "none", NoTask)
  /\ UNCHANGED <<task, queues, loop, parked, wakePending, closer>>

Call(p) ==
  \/ Register(p) \/ Schedule(p) \/ Push(p)
  \/ NotifyPend(p) \/ NotifyDecide(p) \/ NotifyCondvar(p) \/ NotifyPoke(p)

-----------------------------------------------------------------------------
(* worker_loop *)

TurnOver(w) == first' = [first EXCEPT ![w] = FALSE]
Take(w, t) == cur' = [cur EXCEPT ![w] = t] /\ TurnOver(w) /\ Goto(w, "run")

LifoAllowed(w) == polls[w] < LifoMax
PollsLeft_NoReset(w) == polls[w]
PollsLeft(w) == IF polls[w] >= LifoMax THEN 0 ELSE polls[w]

NextLifo(w) ==
  /\ InLoop(w, "lifo")
  /\ \/ /\ LifoAllowed(w) /\ lifo[w] # NoTask
        /\ polls' = [polls EXCEPT ![w] = @ + 1]
        /\ lifo' = [lifo EXCEPT ![w] = NoTask]
        /\ Take(w, lifo[w])
     \/ /\ ~LifoAllowed(w) \/ lifo[w] = NoTask
        /\ polls' = [polls EXCEPT ![w] = PollsLeft(w)]
        /\ Goto(w, "local")
        /\ UNCHANGED <<lifo, cur, first>>
  /\ UNCHANGED <<task, inject, local, left, call, driver, closer>>

(* The tick, counted only past an empty local queue, picks the injector's turn. *)
PopLocal(w) ==
  /\ InLoop(w, "local")
  /\ \/ /\ local[w] # <<>>
        /\ local' = [local EXCEPT ![w] = Front(@)]
        /\ polls' = [polls EXCEPT ![w] = 0]
        /\ Take(w, Last(local[w]))
     \/ /\ local[w] = <<>>
        /\ \E b \in BOOLEAN :
             /\ first' = [first EXCEPT ![w] = b]
             /\ Goto(w, IF b THEN "inject" ELSE "search")
        /\ UNCHANGED <<local, polls, cur>>
  /\ UNCHANGED <<task, inject, lifo, left, call, driver, closer>>

AfterInject(w) == IF first[w] THEN "search" ELSE "exit"
AfterSearch(w) == IF first[w] THEN "exit" ELSE "inject"

(* take_injected publishes the task in the local queue before it pops it. *)
TakeInjected(w) ==
  /\ InLoop(w, "inject")
  /\ \/ /\ inject = <<>>
        /\ Goto(w, AfterInject(w))
        /\ UNCHANGED queues
     \/ /\ inject # <<>>
        /\ inject' = Tail(inject)
        /\ local' = [local EXCEPT ![w] = Append(@, Head(inject))]
        /\ Goto(w, "injected")
        /\ UNCHANGED lifo
  /\ UNCHANGED <<task, polls, cur, first, left, call, driver, closer>>

(* A thief may have taken it in between. *)
PopInjected(w) ==
  /\ InLoop(w, "injected")
  /\ \/ /\ local[w] # <<>>
        /\ local' = [local EXCEPT ![w] = Front(@)]
        /\ Take(w, Last(local[w]))
     \/ /\ local[w] = <<>>
        /\ Goto(w, AfterInject(w))
        /\ UNCHANGED <<local, cur, first>>
  /\ UNCHANGED <<task, inject, lifo, polls, left, call, driver, closer>>

(* search_and_steal: at most half of the workers search at once. *)
Search(w) ==
  /\ InLoop(w, "search")
  /\ IF Cardinality(Searchers) >= N \div 2
     THEN Goto(w, AfterSearch(w)) /\ UNCHANGED left
     ELSE Goto(w, "steal") /\ left' = [left EXCEPT ![w] = Workers \ {w}]
  /\ UNCHANGED <<task, queues, polls, cur, first, call, driver, closer>>

(* The random start of the scan is a choice of the next victim. *)
StealFrom(w, v) ==
  /\ InLoop(w, "steal") /\ v \in left[w]
  /\ \/ /\ local[v] = <<>>
        /\ left' = [left EXCEPT ![w] = @ \ {v}]
        /\ UNCHANGED <<local, cur>>
     \/ /\ local[v] # <<>>
        /\ local' = [local EXCEPT ![v] = Kept(@), ![w] = @ \o Tail(Moved(local[v]))]
        /\ cur' = [cur EXCEPT ![w] = Head(local[v])]
        /\ left' = [left EXCEPT ![w] = {}]
  /\ UNCHANGED <<task, inject, lifo, polls, pc, first, call, driver, closer>>

(* The last searcher that found nothing hands the search to a parked worker. *)
BatonDue(w) == cur[w] = NoTask /\ Cardinality(Searchers) = 1 /\ parked # {}

Unsearch(w) ==
  /\ InLoop(w, "steal") /\ left[w] = {}
  /\ IF cur[w] # NoTask
     THEN TurnOver(w) /\ Goto(w, "run")
     ELSE UNCHANGED first /\ Goto(w, AfterSearch(w))
  /\ IF BatonDue(w)
     THEN /\ parked' = parked \ {CHOOSE v \in parked : \A u \in parked : v <= u}
          /\ Enter(w, "pend", NoTask)
     ELSE UNCHANGED <<parked, call>>
  /\ UNCHANGED <<task, queues, polls, cur, left, wakePending, kernelWake, closer>>

(* run_task up to transition_to_running, which finishes a cancelled task. *)
Run(w) ==
  LET t == cur[w] IN
  /\ InLoop(w, "run")
  /\ owner' = [owner EXCEPT ![t] = w]
  /\ IF t \in cancelled
     THEN /\ life' = [life EXCEPT ![t] = "done"] /\ registry' = registry \ {t}
          /\ cur' = [cur EXCEPT ![w] = NoTask] /\ Goto(w, "lifo")
     ELSE /\ life' = [life EXCEPT ![t] = "running"] /\ Goto(w, "poll")
          /\ UNCHANGED <<registry, cur>>
  /\ UNCHANGED <<cancelled, queues, polls, first, left, call, driver, closer>>

(* The future returns: ready or cancelled it is finished, woken it is queued. *)
PollEnd(w) ==
  LET t == cur[w] IN
  /\ InLoop(w, "poll")
  /\ \/ /\ life' = [life EXCEPT ![t] = "done"] /\ registry' = registry \ {t}
        /\ UNCHANGED call
     \/ /\ t \notin cancelled /\ life[t] = "rerun"
        /\ life' = [life EXCEPT ![t] = "notified"]
        /\ Enter(w, "schedule", t)
        /\ UNCHANGED registry
     \/ /\ t \notin cancelled /\ life[t] = "running"
        /\ life' = [life EXCEPT ![t] = "idle"]
        /\ UNCHANGED <<registry, call>>
  /\ cur' = [cur EXCEPT ![w] = NoTask] /\ Goto(w, "lifo")
  /\ UNCHANGED <<cancelled, owner, queues, polls, first, left, driver, closer>>

-----------------------------------------------------------------------------
(* The end of an iteration: leave, or IdleState::park and park_worker *)

HasWork(w) == inject # <<>> \/ lifo[w] # NoTask \/ local[w] # <<>>

ExitCheck(w) ==
  /\ InLoop(w, "exit")
  /\ TurnOver(w)
  /\ Goto(w, IF Shutdown /\ ~HasWork(w) THEN "exited" ELSE "park")
  /\ UNCHANGED <<task, queues, polls, cur, left, call, driver, closer>>

SetParked(w) ==
  /\ InLoop(w, "park")
  /\ parked' = parked \cup {w}
  /\ Goto(w, "recheck")
  /\ UNCHANGED <<task, queues, polls, cur, first, left, call, wakePending, kernelWake, closer>>

Recheck(w) ==
  /\ InLoop(w, "recheck")
  /\ Goto(w, IF HasWork(w) THEN "unpark" ELSE "claim")
  /\ UNCHANGED <<task, queues, polls, cur, first, left, call, driver, closer>>

(* The first worker holds the kernel wait, the others sleep on the condvar. *)
ClaimHolder(w) ==
  /\ InLoop(w, "claim")
  /\ Goto(w, IF Holders = {} THEN "swap" ELSE "asleep")
  /\ UNCHANGED <<task, queues, polls, cur, first, left, call, driver, closer>>

WaitMode == IF wakePending THEN "drain" ELSE "kernel"

SwapPending(w) ==
  /\ InLoop(w, "swap")
  /\ wakePending' = FALSE
  /\ Goto(w, WaitMode)
  /\ UNCHANGED <<task, queues, polls, cur, first, left, call, parked, kernelWake, closer>>

(* The wait drains the eventfd; with a zero timeout it returns in any case. *)
WaitReturns(w) ==
  /\ InLoop(w, "drain") \/ (InLoop(w, "kernel") /\ kernelWake)
  /\ kernelWake' = FALSE
  /\ Goto(w, "release")
  /\ UNCHANGED <<task, queues, polls, cur, first, left, call, parked, wakePending, closer>>

(* An event ends the wait as well; dispatch is the wakes it leads to. *)
WaitEvent(w) ==
  /\ InLoop(w, "kernel")
  /\ kernelWake' = FALSE
  /\ Goto(w, "release")
  /\ UNCHANGED <<task, queues, polls, cur, first, left, call, parked, wakePending, closer>>

ReleaseHolder(w) ==
  /\ InLoop(w, "release")
  /\ LET asleep == {v \in Workers : pc[v] = "asleep"}
     IN  \/ asleep = {} /\ Goto(w, "unpark")
         \/ \E v \in asleep : pc' = [pc EXCEPT ![w] = "unpark", ![v] = "woken"]
  /\ UNCHANGED <<task, queues, polls, cur, first, left, call, driver, closer>>

(* CONDVAR_PARK_TIMEOUT *)
SleepTimeout(w) ==
  /\ pc[w] = "asleep"
  /\ Goto(w, "woken")
  /\ UNCHANGED <<task, queues, polls, cur, first, left, call, driver, closer>>

LeaveCondvar(w) ==
  /\ InLoop(w, "woken")
  /\ Goto(w, "unpark")
  /\ UNCHANGED <<task, queues, polls, cur, first, left, call, driver, closer>>

ClearParked(w) ==
  /\ InLoop(w, "unpark")
  /\ parked' = parked \ {w}
  /\ Goto(w, "lifo")
  /\ UNCHANGED <<task, queues, polls, cur, first, left, call, wakePending, kernelWake, closer>>

WorkerStep(w) ==
  \/ NextLifo(w) \/ PopLocal(w) \/ TakeInjected(w) \/ PopInjected(w) \/ Search(w)
  \/ (\E v \in Workers : StealFrom(w, v)) \/ Unsearch(w) \/ Run(w) \/ PollEnd(w)
  \/ ExitCheck(w) \/ SetParked(w) \/ Recheck(w) \/ ClaimHolder(w) \/ SwapPending(w)
  \/ WaitReturns(w) \/ ReleaseHolder(w) \/ SleepTimeout(w) \/ LeaveCondvar(w)
  \/ ClearParked(w)

-----------------------------------------------------------------------------
(* shutdown *)

SetShutdown ==
  /\ MayShutdown /\ stop = "off"
  /\ stop' = "flagged"
  /\ UNCHANGED <<task, queues, loop, call, driver, doomed>>

CloseInjector ==
  /\ stop = "flagged"
  /\ stop' = "closed"
  /\ UNCHANGED <<task, queues, loop, call, driver, doomed>>

TakeRegistry ==
  /\ stop = "closed"
  /\ stop' = "cancelling"
  /\ doomed' = registry /\ registry' = {}
  /\ UNCHANGED <<life, cancelled, owner, queues, loop, call, driver>>

(* harness::shutdown finishes an idle task and leaves any other to its entry. *)
CancelTask(t) ==
  /\ stop = "cancelling" /\ t \in doomed
  /\ doomed' = doomed \ {t}
  /\ cancelled' = IF life[t] = "done" THEN cancelled ELSE cancelled \cup {t}
  /\ life' = [life EXCEPT ![t] = IF @ = "idle" THEN "done" ELSE @]
  /\ UNCHANGED <<owner, registry, queues, loop, call, driver, stop>>

(* DriverShared::unpark_all. The thread::unpark calls before it wake nobody: no  *)
(* worker parks that way.                                                        *)
PendAll ==
  /\ stop = "cancelling" /\ doomed = {}
  /\ wakePending' = TRUE
  /\ stop' = "pended"
  /\ UNCHANGED <<task, queues, loop, call, parked, kernelWake, doomed>>

NotifyAll ==
  /\ stop = "pended"
  /\ pc' = [w \in Workers |-> IF pc[w] = "asleep" THEN "woken" ELSE pc[w]]
  /\ stop' = "notified"
  /\ UNCHANGED <<task, queues, polls, cur, first, left, call, driver, doomed>>

PokeAll_Skipped ==
  /\ stop = "notified"
  /\ stop' = "joining"
  /\ UNCHANGED <<task, queues, loop, call, driver, doomed>>

PokeAll ==
  /\ stop = "notified"
  /\ kernelWake' = TRUE
  /\ stop' = "joining"
  /\ UNCHANGED <<task, queues, loop, call, parked, wakePending, doomed>>

JoinThreads ==
  /\ stop = "joining" /\ \A w \in Workers : pc[w] = "exited"
  /\ stop' = "joined"
  /\ UNCHANGED <<task, queues, loop, call, driver, doomed>>

ShutdownStep ==
  \/ CloseInjector \/ TakeRegistry \/ (\E t \in Tasks : CancelTask(t))
  \/ PendAll \/ NotifyAll \/ PokeAll \/ JoinThreads

-----------------------------------------------------------------------------
Next ==
  \/ \E p \in Threads : Call(p) \/ \E t \in Tasks : Wake(p, t)
  \/ \E p \in Threads, t \in Tasks, w \in Workers : Spawn(p, t, w)
  \/ \E w \in Workers : WorkerStep(w) \/ WaitEvent(w)
  \/ SetShutdown \/ ShutdownStep

Spec == Init /\ [][Next]_vars

(* Threads keep running, the condvar times out, every poll returns and every    *)
(* batch of events ends: calls made on the way put the loop off, not for ever.  *)
FairSpec ==
  /\ Spec /\ WF_vars(ShutdownStep)
  /\ \A p \in Threads : WF_vars(Call(p))
  /\ \A w \in Workers : SF_vars(WorkerStep(w))

-----------------------------------------------------------------------------
TypeOK ==
  /\ life \in [Tasks -> {"unborn", "idle", "notified", "running", "rerun", "done"}]
  /\ cancelled \subseteq Tasks /\ registry \subseteq Tasks /\ doomed \subseteq Tasks
  /\ owner \in [Tasks -> Workers] /\ parked \subseteq Workers
  /\ \A w \in Workers :
       /\ cur[w] \in Tasks \cup {NoTask} /\ lifo[w] \in Tasks \cup {NoTask}
       /\ polls[w] \in 0 .. LifoMax /\ left[w] \subseteq Workers /\ Len(local[w]) <= LocalCap

(* Where a task's queue entry stands: in a queue, in a call or in a hand. *)
Places(t) ==
  {<<"inject", i>> : i \in {i \in DOMAIN inject : inject[i] = t}}
    \cup {<<"carry", p>> : p \in {p \in Threads : carry[p] = t}}
    \cup {<<"lifo", w>> : w \in {w \in Workers : lifo[w] = t}}
    \cup {<<"cur", w>> : w \in {w \in Workers : cur[w] = t}}
    \cup UNION {{<<"local", w, i>> : i \in {i \in DOMAIN local[w] : local[w][i] = t}} :
                 w \in Workers}

(* "A task is never in two queues, never polled by two threads": through steals, *)
(* overflow, the LIFO slot and the injector a notified task keeps exactly one    *)
(* entry until shutdown drops it, and no other task has any.                     *)
OneEntry ==
  \A t \in Tasks :
    /\ Cardinality(Places(t)) <= 1
    /\ life[t] \in {"unborn", "idle", "done"} => Places(t) = {}
    /\ life[t] \in {"running", "rerun"} => \E w \in Workers : cur[w] = t /\ pc[w] = "poll"
    /\ life[t] = "notified" /\ ~Shutdown => Places(t) # {}

(* The worker cannot block again before it has looked at the injector. *)
Awake(w) ==
  \/ pc[w] \notin {"claim", "asleep", "swap", "kernel", "exited"}
  \/ pc[w] \in {"claim", "swap"} /\ wakePending
  \/ pc[w] = "kernel" /\ kernelWake

(* Work in the injector never meets a runtime in which every worker has passed  *)
(* its last look and will sleep: someone is awake, or a wake is on its way. The  *)
(* 1 ms timeout of the condvar is not counted on (the H1 comments of driver.rs). *)
Attended ==
  inject # <<>> /\ ~Shutdown =>
    \/ \E w \in Workers : Awake(w)
    \/ \E p \in Threads : at[p] \in {"pend", "decide", "notify", "poke"}

(* A queued task is polled, wherever its entry was put, while no poll wakes a    *)
(* task that leads back to it.                                                   *)
NotifiedRuns == \A t \in Tasks : life[t] = "notified" ~> life[t] # "notified"

(* "A task in the global queue is picked up within GLOBAL_QUEUE_INTERVAL polls   *)
(* of any worker": a queue that refills itself does not shut the injector out.   *)
InInject(t) == \E i \in DOMAIN inject : inject[i] = t
InjectorServed == \A t \in Tasks : InInject(t) ~> ~InInject(t)

(* "If any task is ready and any worker is idle, that worker acquires work": no  *)
(* worker is left in the kernel wait beside a queue it could steal from.         *)
WorkConserved ==
  (\A p \in Threads : at[p] = "none") =>
    \A w, v \in Workers :
      pc[w] = "kernel" /\ ~kernelWake /\ pc[v] = "poll" => local[v] = <<>>

(* "joins all threads": every worker sees the shutdown and leaves its loop. *)
ShutdownJoins == Shutdown ~> stop = "joined"

(* "Runtime::drop cancels all tasks": none is left unfinished behind it. *)
ShutdownCancels ==
  stop = "joined" /\ (\A p \in Threads : at[p] = "none") =>
    \A t \in Tasks : life[t] \in {"unborn", "done"}
=============================================================================
